--------------------------- MODULE SecureReceive ---------------------------
(***************************************************************************)
(* The receive path of one secure session: SecureSessionMgr::              *)
(* SecureMessageDispatch with the session's PeerMessageCounter, and the    *)
(* operations that synchronize or reset that counter.  The network may     *)
(* deliver any packet at any time, any number of times and in any order,   *)
(* genuine (it decrypts, and names our fabric and node) or not.            *)
(***************************************************************************)
EXTENDS PeerMessageCounter

VARIABLES pmc,      \* the session's PeerMessageCounter
          seen,     \* history: counters passed up as new since synchronization
          verdict   \* what became of the last packet

vars == <<pmc, seen, verdict>>

Outcome(c, genuine, result) ==
    [counter |-> c, genuine |-> genuine, result |-> result]

NoOutcome == Outcome(0, FALSE, "none")

Results == {"none", "new", "duplicate", "dropped", "queued", "control"}

TypeOK ==
    /\ pmc \in PeerCounterType
    /\ seen \subseteq Counters
    /\ verdict \in [counter : Counters, genuine : BOOLEAN, result : Results]

Init ==
    /\ pmc = Reset
    /\ seen = {}
    /\ verdict = NoOutcome

-----------------------------------------------------------------------------

\* NewPairing: the counter the peer announced in the handshake.
NewPairing(value) ==
    /\ pmc' = SetCounter(value)
    /\ seen' = {}
    /\ verdict' = NoOutcome

StartSync(challenge) ==
    /\ ~IsSynchronizing(pmc)
    /\ ~IsSynchronized(pmc)
    /\ pmc' = SyncStarting(challenge)
    /\ UNCHANGED <<seen, verdict>>

\* HandleMsgCounterSyncResp; a zero counter is refused before the challenge
\* is looked at.
SyncResponse(counter, challenge) ==
    /\ IF counter # 0 /\ ChallengeMatches(pmc, challenge)
       THEN /\ pmc' = VerifyChallenge(pmc, counter, challenge)
            /\ seen' = {}
            /\ verdict' = NoOutcome
       ELSE UNCHANGED <<pmc, seen, verdict>>

\* The request's response timer fired.
SyncTimeout ==
    /\ IsSynchronizing(pmc)
    /\ pmc' = SyncFailed
    /\ seen' = {}
    /\ verdict' = NoOutcome

-----------------------------------------------------------------------------

\* Control messages skip both the check and the commit: "control message
\* counter is not implemented yet".
ReceiveControl(c, genuine) ==
    /\ verdict' = Outcome(c, genuine, IF genuine THEN "control" ELSE "dropped")
    /\ UNCHANGED <<pmc, seen>>

ReceiveUnsynced(c, genuine) ==
    /\ ~IsSynchronized(pmc)
    /\ verdict' = Outcome(c, genuine, "queued")
    /\ UNCHANGED <<pmc, seen>>

\* Mutant: the counter is committed before the packet is decrypted.
ReceiveSyncedCommitFirst(c, genuine, needsAck) ==
    /\ IsSynchronized(pmc)
    /\ LET fresh == Verify(pmc, c) = "ok"
       IN  /\ pmc' = IF fresh THEN Commit(pmc, c) ELSE pmc
           /\ seen' = IF fresh /\ genuine THEN seen \cup {c} ELSE seen
           /\ verdict' = Outcome(c, genuine,
                            IF fresh /\ genuine THEN "new" ELSE "dropped")

\* Everything between the verification of the counter and the delegate: the
\* counter is committed only once the packet is known to be genuine, and a
\* duplicate goes on only if its sender wants an acknowledgment.
ReceiveSynced(c, genuine, needsAck) ==
    /\ IsSynchronized(pmc)
    /\ LET check     == Verify(pmc, c)
           duplicate == check = "duplicate"
           up        == /\ check \in {"ok", "duplicate"}
                        /\ genuine
                        /\ duplicate => needsAck
       IN  /\ pmc' = IF up THEN Commit(pmc, c) ELSE pmc
           /\ seen' = IF up /\ ~duplicate THEN seen \cup {c} ELSE seen
           /\ verdict' = Outcome(c, genuine,
                            IF ~up THEN "dropped"
                            ELSE IF duplicate THEN "duplicate" ELSE "new")

Next ==
    \/ SyncTimeout
    \/ \E challenge \in Challenge : StartSync(challenge)
    \/ \E c \in Counters, challenge \in Challenge : SyncResponse(c, challenge)
    \/ \E c \in Counters : NewPairing(c)
    \/ \E c \in Counters, genuine \in BOOLEAN :
        \/ ReceiveControl(c, genuine)
        \/ ReceiveUnsynced(c, genuine)
        \/ \E needsAck \in BOOLEAN : ReceiveSynced(c, genuine, needsAck)

Spec == Init /\ [][Next]_vars

-----------------------------------------------------------------------------

(* The bitset says exactly which counters of the window were passed up as  *)
(* new: no accepted counter is forgotten while it is in the window (a      *)
(* replay would be taken for new) and no bit stands for a counter that was *)
(* never seen (a late message would be taken for a replay).  This is what  *)
(* PeerMessageCounter::Commit's shifts have to preserve.                   *)
WindowExact ==
    IsSynchronized(pmc) =>
        \A o \in Offsets :
            o \in pmc.window <=> (pmc.maxCounter - o) \in seen

(* mMaxCounter is never behind a counter that was passed up, so a counter  *)
(* above it is certainly fresh.                                            *)
NothingSeenAboveMax == \A c \in seen : c <= pmc.maxCounter

(* No counters are remembered for a session that is not synchronized.      *)
NothingSeenUnsynced == ~IsSynchronized(pmc) => seen = {} /\ pmc.maxCounter = 0

IInv == TypeOK /\ WindowExact /\ NothingSeenAboveMax /\ NothingSeenUnsynced

(* A counter passed up as new is never verified as new again before the    *)
(* session is synchronized anew, whatever the order and the number of the  *)
(* deliveries in between.                                                  *)
NoReplay ==
    \A c \in seen : Verify(pmc, c) \in {"duplicate", "outside"}

(* A counter that was never passed up is refused only when it lies a whole *)
(* window behind the highest one: reordering by less costs no message.     *)
NoFalseRefusal ==
    IsSynchronized(pmc) =>
        \A c \in Counters \ seen :
            pmc.maxCounter - c < WindowSize => Verify(pmc, c) = "ok"

Filter == INSTANCE ReplayFilter
            WITH synced <- IsSynchronized(pmc), high <- pmc.maxCounter

(* The window implements ReplayFilter, which never looks at a bit.         *)
ImplementsReplayFilter == Filter!Spec
=============================================================================

------------------------- MODULE PeerMessageCounter -------------------------
(***************************************************************************)
(* The receive window of Transport::PeerMessageCounter                     *)
(* (src/transport/PeerMessageCounter.h) as a data type: a value is the     *)
(* record of the class's members and every method is an operator on it.    *)
(* mWindow, a std::bitset, is the set of the positions whose bit is set.   *)
(*                                                                         *)
(* MaxCounter is UINT32_MAX and WindowSize is                              *)
(* CHIP_CONFIG_MESSAGE_COUNTER_WINDOW_SIZE.  Challenge is the set of the   *)
(* 64-bit random challenges; NoChallenge stands for the inactive member of *)
(* the union.                                                              *)
(***************************************************************************)
EXTENDS Integers

CONSTANTS WindowSize, MaxCounter, Challenge, NoChallenge

ASSUME CounterAssumption ==
    /\ WindowSize \in Nat \ {0}
    /\ MaxCounter \in Nat \ {0}

Counters == 0 .. MaxCounter
Offsets  == 0 .. WindowSize - 1

Status == {"NotSynced", "SyncInProcess", "Synced"}

PeerCounterType ==
    [status : Status, challenge : Challenge \cup {NoChallenge},
     maxCounter : Counters, window : SUBSET Offsets]

-----------------------------------------------------------------------------

Reset ==
    [status |-> "NotSynced", challenge |-> NoChallenge,
     maxCounter |-> 0, window |-> {}]

IsSynchronizing(pmc) == pmc.status = "SyncInProcess"
IsSynchronized(pmc)  == pmc.status = "Synced"

\* The caller must be in NotSynced: the code asserts it.
SyncStarting(challenge) ==
    [status |-> "SyncInProcess", challenge |-> challenge,
     maxCounter |-> 0, window |-> {}]

SyncFailed == Reset

\* The bits are all clear: every packet of the window is acceptable once.
SetCounter(value) ==
    [status |-> "Synced", challenge |-> NoChallenge,
     maxCounter |-> value, window |-> {}]

ChallengeMatches(pmc, challenge) ==
    IsSynchronizing(pmc) /\ pmc.challenge = challenge

VerifyChallenge(pmc, counter, challenge) ==
    IF ChallengeMatches(pmc, challenge) THEN SetCounter(counter) ELSE pmc

-----------------------------------------------------------------------------

Verify(pmc, counter) ==
    CASE ~IsSynchronized(pmc)                          -> "incorrect_state"
      [] IsSynchronized(pmc) /\ counter > pmc.maxCounter -> "ok"
      [] IsSynchronized(pmc) /\ counter <= pmc.maxCounter ->
            LET offset == pmc.maxCounter - counter
            IN  IF offset >= WindowSize THEN "outside"
                ELSE IF offset \in pmc.window THEN "duplicate" ELSE "ok"

\* window <<= offset on a bitset of WindowSize bits.
ShiftWindow(window, offset) ==
    {o \in Offsets : o - offset \in window}

\* Mutant: the new maximum is not marked as received.
CommitUnmarked(pmc, counter) ==
    IF counter <= pmc.maxCounter
    THEN [pmc EXCEPT !.window = @ \cup {pmc.maxCounter - counter}]
    ELSE [pmc EXCEPT !.maxCounter = counter,
                     !.window = ShiftWindow(@, counter - pmc.maxCounter)]

\* Mutant: the window is reset whenever the maximum advances.
CommitForgets(pmc, counter) ==
    IF counter <= pmc.maxCounter
    THEN [pmc EXCEPT !.window = @ \cup {pmc.maxCounter - counter}]
    ELSE [pmc EXCEPT !.maxCounter = counter, !.window = {0}]

\* Mutant: the window is left alone when the maximum leaves it behind.
CommitKeepsOldBits(pmc, counter) ==
    IF counter <= pmc.maxCounter
    THEN [pmc EXCEPT !.window = @ \cup {pmc.maxCounter - counter}]
    ELSE LET offset == counter - pmc.maxCounter
         IN  [pmc EXCEPT
                !.maxCounter = counter,
                !.window = {0} \cup
                    (IF offset < WindowSize THEN ShiftWindow(@, offset) ELSE @)]

Commit(pmc, counter) ==
    IF counter <= pmc.maxCounter
    THEN [pmc EXCEPT !.window = @ \cup {pmc.maxCounter - counter}]
    ELSE LET offset == counter - pmc.maxCounter
         IN  [pmc EXCEPT
                !.maxCounter = counter,
                !.window = {0} \cup
                    (IF offset < WindowSize THEN ShiftWindow(@, offset) ELSE {})]

=============================================================================

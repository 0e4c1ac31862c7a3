------------------------ MODULE SecureReceive_proofs ------------------------
(***************************************************************************)
(* Proofs about the receive window, for every window size, counter width   *)
(* and set of challenges.                                                  *)
(***************************************************************************)
EXTENDS SecureReceive, TLAPS

\* The two halves of Commit: a counter inside the window only sets its bit,
\* a counter ahead of it moves the window.
LEMMA CommitInside ==
    ASSUME NEW p \in PeerCounterType, NEW c \in Counters,
           c <= p.maxCounter, p.maxCounter - c < WindowSize
    PROVE  /\ Commit(p, c) \in PeerCounterType
           /\ Commit(p, c).status = p.status
           /\ Commit(p, c).maxCounter = p.maxCounter
           /\ \A o \in Offsets :
                o \in Commit(p, c).window <=>
                    o \in p.window \/ p.maxCounter - o = c
  <1>1. p.maxCounter - c \in Offsets
    BY CounterAssumption DEF Offsets, Counters, PeerCounterType
  <1>2. Commit(p, c) = [p EXCEPT !.window = @ \cup {p.maxCounter - c}]
    BY DEF Commit
  <1>3. \A o \in Offsets : o = p.maxCounter - c <=> p.maxCounter - o = c
    BY CounterAssumption DEF Offsets, Counters, PeerCounterType
  <1>4. QED
    BY <1>1, <1>2, <1>3 DEF PeerCounterType

\* Commit of a counter above mMaxCounter: bit o of the shifted window is bit
\* o - offset of the old one, and bit 0 is the new maximum.
LEMMA CommitAhead ==
    ASSUME NEW p \in PeerCounterType, NEW c \in Counters, c > p.maxCounter
    PROVE  /\ Commit(p, c) \in PeerCounterType
           /\ Commit(p, c).status = p.status
           /\ Commit(p, c).maxCounter = c
           /\ \A o \in Offsets :
                o \in Commit(p, c).window <=>
                    o = 0 \/ o - (c - p.maxCounter) \in p.window
  <1> DEFINE d == c - p.maxCounter
             w == {0} \cup (IF d < WindowSize THEN ShiftWindow(p.window, d) ELSE {})
  <1>1. Commit(p, c) = [p EXCEPT !.maxCounter = c, !.window = w]
    BY DEF Commit, PeerCounterType, Counters
  <1>2. w \subseteq Offsets
    BY CounterAssumption DEF Offsets, ShiftWindow
  <1>3. ASSUME NEW o \in Offsets
        PROVE  o \in w <=> o = 0 \/ o - d \in p.window
    <2>1. CASE d < WindowSize
      BY <2>1 DEF ShiftWindow
    <2>2. CASE ~(d < WindowSize)
      <3>1. o - d \notin Offsets
        BY <2>2, CounterAssumption DEF Offsets, Counters, PeerCounterType
      <3>2. p.window \subseteq Offsets
        BY DEF PeerCounterType
      <3>3. QED
        BY <2>2, <3>1, <3>2
    <2>3. QED
      BY <2>1, <2>2
  <1>4. QED
    BY <1>1, <1>2, <1>3 DEF PeerCounterType

\* What Verify's answers mean.
LEMMA VerifyMeans ==
    ASSUME NEW p \in PeerCounterType, NEW c \in Counters, p.status = "Synced"
    PROVE  /\ Verify(p, c) = "ok" <=>
                \/ c > p.maxCounter
                \/ /\ c <= p.maxCounter
                   /\ p.maxCounter - c < WindowSize
                   /\ p.maxCounter - c \notin p.window
           /\ Verify(p, c) = "duplicate" <=>
                /\ c <= p.maxCounter
                /\ p.maxCounter - c < WindowSize
                /\ p.maxCounter - c \in p.window
           /\ Verify(p, c) \in {"ok", "duplicate", "outside"}
  <1>1. /\ p.maxCounter \in Int
        /\ c \in Int
        /\ WindowSize \in Int
    BY CounterAssumption DEF Counters, PeerCounterType
  <1>2. CASE c > p.maxCounter
    <2>1. Verify(p, c) = "ok"
      BY <1>1, <1>2 DEF Verify, IsSynchronized
    <2>2. QED
      BY <1>1, <1>2, <2>1
  <1>3. CASE c <= p.maxCounter
    <2>1. Verify(p, c) = IF p.maxCounter - c >= WindowSize THEN "outside"
                         ELSE IF p.maxCounter - c \in p.window THEN "duplicate"
                         ELSE "ok"
      BY <1>1, <1>3 DEF Verify, IsSynchronized
    <2>2. QED
      BY <1>1, <1>3, <2>1
  <1>4. QED
    BY <1>1, <1>2, <1>3

-----------------------------------------------------------------------------

\* The type invariant, the exactness of the window and its two companions are
\* inductive together: the window's meaning depends on nothing above
\* mMaxCounter having been seen, and that on the session's being synchronized.
LEMMA InitIInv == Init => IInv
  <1> SUFFICES ASSUME Init PROVE IInv
    OBVIOUS
  <1>1. pmc = Reset /\ seen = {} /\ verdict = NoOutcome
    BY DEF Init
  <1>2. TypeOK
    BY <1>1, CounterAssumption
    DEF TypeOK, Reset, PeerCounterType, Status, Counters, NoOutcome, Outcome, Results
  <1>3. WindowExact /\ NothingSeenAboveMax /\ NothingSeenUnsynced
    BY <1>1 DEF WindowExact, NothingSeenAboveMax, NothingSeenUnsynced, Reset, IsSynchronized
  <1>4. QED
    BY <1>2, <1>3 DEF IInv

\* SetCounter, and so NewPairing and VerifyChallenge, start with a clear window.
LEMMA SetCounterIInv ==
    ASSUME NEW c \in Counters, pmc' = SetCounter(c), seen' = {}, verdict' = NoOutcome
    PROVE  IInv'
  <1>1. TypeOK'
    BY CounterAssumption
    DEF TypeOK, SetCounter, PeerCounterType, Status, Counters, NoOutcome, Outcome, Results
  <1>2. WindowExact' /\ NothingSeenAboveMax' /\ NothingSeenUnsynced'
    BY DEF WindowExact, NothingSeenAboveMax, NothingSeenUnsynced, SetCounter, IsSynchronized
  <1>3. QED
    BY <1>1, <1>2 DEF IInv

\* SecureMessageDispatch on a synchronized session preserves the invariant.
LEMMA ReceiveSyncedIInv ==
    ASSUME IInv, NEW c \in Counters, NEW genuine \in BOOLEAN, NEW needsAck \in BOOLEAN,
           ReceiveSynced(c, genuine, needsAck)
    PROVE  IInv'
  <1> DEFINE check     == Verify(pmc, c)
             duplicate == check = "duplicate"
             up        == /\ check \in {"ok", "duplicate"}
                          /\ genuine
                          /\ duplicate => needsAck
  <1> USE CounterAssumption
  <1>1. /\ pmc \in PeerCounterType
        /\ seen \subseteq Counters
        /\ pmc.status = "Synced"
        /\ pmc.maxCounter \in Counters
        /\ pmc.window \subseteq Offsets
    BY DEF IInv, TypeOK, ReceiveSynced, IsSynchronized, PeerCounterType
  <1>2. /\ pmc' = IF up THEN Commit(pmc, c) ELSE pmc
        /\ seen' = IF up /\ ~duplicate THEN seen \cup {c} ELSE seen
    BY DEF ReceiveSynced
  <1>3. verdict' \in [counter : Counters, genuine : BOOLEAN, result : Results]
    BY DEF ReceiveSynced, Outcome, Results
  <1>4. CASE ~up
    BY <1>1, <1>2, <1>3, <1>4
    DEF IInv, TypeOK, WindowExact, NothingSeenAboveMax, NothingSeenUnsynced, IsSynchronized
  <1>5. CASE up /\ c > pmc.maxCounter
    <2>1. ~duplicate
      BY <1>1, <1>5, VerifyMeans DEF Counters
    <2>2. pmc' = Commit(pmc, c) /\ seen' = seen \cup {c}
      BY <1>2, <1>5, <2>1
    <2>3. /\ pmc' \in PeerCounterType
          /\ pmc'.status = "Synced"
          /\ pmc'.maxCounter = c
          /\ \A o \in Offsets :
                o \in pmc'.window <=> o = 0 \/ o - (c - pmc.maxCounter) \in pmc.window
      BY <1>1, <1>5, <2>2, CommitAhead
    <2>4. TypeOK'
      BY <1>1, <1>3, <2>2, <2>3 DEF TypeOK
    <2>5. NothingSeenAboveMax' /\ NothingSeenUnsynced'
      BY <1>1, <1>5, <2>2, <2>3
      DEF IInv, NothingSeenAboveMax, NothingSeenUnsynced, IsSynchronized, Counters
    <2>6. ASSUME NEW o \in Offsets
          PROVE  o \in pmc'.window <=> (pmc'.maxCounter - o) \in seen'
      <3> DEFINE q == o - (c - pmc.maxCounter)
      <3>1. pmc'.maxCounter - o = pmc.maxCounter - q /\ q \in Int
        BY <1>1, <2>3 DEF Offsets, Counters
      <3>2. CASE q \in Offsets
        <4>1. q \in pmc.window <=> (pmc.maxCounter - q) \in seen
          BY <1>1, <3>2 DEF IInv, WindowExact, IsSynchronized
        <4>2. o # 0 /\ c - o # c
          BY <1>1, <1>5, <3>2 DEF Offsets, Counters
        <4>3. QED
          BY <2>2, <2>3, <3>1, <4>1, <4>2
      <3>3. CASE q \notin Offsets
        <4>1. q \notin pmc.window
          BY <1>1, <3>3
        <4>2. c - o > pmc.maxCounter
          BY <1>1, <1>5, <3>3 DEF Offsets, Counters
        <4>3. c - o \notin seen
          BY <1>1, <4>2 DEF IInv, NothingSeenAboveMax, Counters, Offsets
        <4>4. c - o = c <=> o = 0
          BY <1>1 DEF Offsets, Counters
        <4>5. QED
          BY <2>2, <2>3, <4>1, <4>3, <4>4
      <3>4. QED
        BY <3>2, <3>3
    <2>7. WindowExact'
      BY <2>6 DEF WindowExact
    <2>8. QED
      BY <2>4, <2>5, <2>7 DEF IInv
  <1>6. CASE up /\ c <= pmc.maxCounter
    <2>1. pmc.maxCounter - c < WindowSize
      BY <1>1, <1>6, VerifyMeans DEF Counters
    <2>2. /\ pmc' \in PeerCounterType
          /\ pmc'.status = "Synced"
          /\ pmc'.maxCounter = pmc.maxCounter
          /\ \A o \in Offsets :
                o \in pmc'.window <=> o \in pmc.window \/ pmc.maxCounter - o = c
      BY <1>1, <1>2, <1>6, <2>1, CommitInside
    <2>3. c \in seen <=> duplicate
      <3>1. pmc.maxCounter - c \in Offsets /\ pmc.maxCounter - (pmc.maxCounter - c) = c
        BY <1>1, <1>6, <2>1 DEF Offsets, Counters
      <3>2. pmc.maxCounter - c \in pmc.window <=> c \in seen
        BY <1>1, <3>1 DEF IInv, WindowExact, IsSynchronized
      <3>3. QED
        BY <1>1, <1>6, <2>1, <3>2, VerifyMeans
    <2>4. seen' = seen \cup {c}
      BY <1>2, <1>6, <2>3
    <2>5. TypeOK'
      BY <1>1, <1>3, <2>2, <2>4 DEF TypeOK
    <2>6. NothingSeenAboveMax' /\ NothingSeenUnsynced'
      BY <1>1, <1>6, <2>2, <2>4
      DEF IInv, NothingSeenAboveMax, NothingSeenUnsynced, IsSynchronized
    <2>7. WindowExact'
      BY <1>1, <2>2, <2>4 DEF IInv, WindowExact, IsSynchronized
    <2>8. QED
      BY <2>5, <2>6, <2>7 DEF IInv
  <1>7. QED
    BY <1>1, <1>4, <1>5, <1>6 DEF Counters

\* IInv is preserved by every step of the receive path.
LEMMA NextIInv == IInv /\ [Next]_vars => IInv'
  <1> SUFFICES ASSUME IInv, [Next]_vars PROVE IInv'
    OBVIOUS
  <1> USE CounterAssumption
  <1>1. CASE UNCHANGED vars
    BY <1>1 DEF vars, IInv, TypeOK, WindowExact, NothingSeenAboveMax, NothingSeenUnsynced
  <1>2. CASE SyncTimeout
    BY <1>2
    DEF SyncTimeout, SyncFailed, Reset, IInv, TypeOK, PeerCounterType, Status, Counters,
        NoOutcome, Outcome, Results, WindowExact, NothingSeenAboveMax,
        NothingSeenUnsynced, IsSynchronized
  <1>3. ASSUME NEW challenge \in Challenge, StartSync(challenge) PROVE IInv'
    BY <1>3
    DEF StartSync, SyncStarting, IInv, TypeOK, PeerCounterType, Status, Counters,
        WindowExact, NothingSeenAboveMax, NothingSeenUnsynced, IsSynchronized
  <1>4. ASSUME NEW c \in Counters, NEW challenge \in Challenge, SyncResponse(c, challenge)
        PROVE IInv'
    <2>1. CASE c # 0 /\ ChallengeMatches(pmc, challenge)
      BY <1>4, <2>1, SetCounterIInv DEF SyncResponse, VerifyChallenge
    <2>2. CASE ~(c # 0 /\ ChallengeMatches(pmc, challenge))
      BY <1>4, <2>2
      DEF SyncResponse, IInv, TypeOK, WindowExact, NothingSeenAboveMax, NothingSeenUnsynced
    <2>3. QED
      BY <2>1, <2>2
  <1>5. ASSUME NEW c \in Counters, NewPairing(c) PROVE IInv'
    BY <1>5, SetCounterIInv DEF NewPairing
  <1>6. ASSUME NEW c \in Counters, NEW genuine \in BOOLEAN,
               ReceiveControl(c, genuine) \/ ReceiveUnsynced(c, genuine)
        PROVE  IInv'
    <2>1. verdict' \in [counter : Counters, genuine : BOOLEAN, result : Results]
      BY <1>6 DEF ReceiveControl, ReceiveUnsynced, Outcome, Results
    <2>2. QED
      BY <1>6, <2>1
      DEF ReceiveControl, ReceiveUnsynced, IInv, TypeOK, WindowExact,
          NothingSeenAboveMax, NothingSeenUnsynced
  <1>7. QED
    BY <1>1, <1>2, <1>3, <1>4, <1>5, <1>6, ReceiveSyncedIInv DEF Next

\* The inductive invariant of the receive path: what the bits of mWindow mean,
\* and that nothing was seen above mMaxCounter or without synchronization.
THEOREM Invariance == Spec => []IInv
  BY InitIInv, NextIInv, PTL DEF Spec

\* The bitset of PeerMessageCounter records exactly the counters of the window
\* that SecureMessageDispatch passed up as new.
THEOREM WindowIsExact == Spec => []WindowExact
  <1>1. IInv => WindowExact
    BY DEF IInv
  <1>2. QED
    BY Invariance, <1>1, PTL

\* PeerMessageCounter::Verify never calls a counter new that was passed up as
\* new before, for every window size and every order of arrivals.
THEOREM NeverReplayed == Spec => []NoReplay
  <1>1. IInv => NoReplay
    <2> SUFFICES ASSUME IInv, NEW c \in seen
                 PROVE  Verify(pmc, c) \in {"duplicate", "outside"}
      BY DEF NoReplay
    <2>1. /\ pmc \in PeerCounterType
          /\ c \in Counters
          /\ pmc.status = "Synced"
          /\ pmc.maxCounter \in Counters
          /\ c <= pmc.maxCounter
      BY DEF IInv, TypeOK, NothingSeenUnsynced, NothingSeenAboveMax, IsSynchronized,
             PeerCounterType
    <2>2. ASSUME pmc.maxCounter - c < WindowSize
          PROVE  pmc.maxCounter - c \in pmc.window
      <3>1. /\ pmc.maxCounter - c \in Offsets
            /\ pmc.maxCounter - (pmc.maxCounter - c) = c
        BY <2>1, <2>2, CounterAssumption DEF Offsets, Counters
      <3>2. QED
        BY <2>1, <3>1 DEF IInv, WindowExact, IsSynchronized
    <2>3. Verify(pmc, c) # "ok"
      BY <2>1, <2>2, VerifyMeans, CounterAssumption DEF Counters
    <2>4. QED
      BY <2>1, <2>3, VerifyMeans
  <1>2. QED
    BY Invariance, <1>1, PTL

\* A message that was never passed up and is less than a window late is not
\* refused by PeerMessageCounter::Verify.
THEOREM NeverFalselyRefused == Spec => []NoFalseRefusal
  <1>1. IInv => NoFalseRefusal
    <2> SUFFICES ASSUME IInv, IsSynchronized(pmc), NEW c \in Counters \ seen,
                        pmc.maxCounter - c < WindowSize
                 PROVE  Verify(pmc, c) = "ok"
      BY DEF NoFalseRefusal
    <2>1. /\ pmc \in PeerCounterType
          /\ pmc.status = "Synced"
          /\ pmc.maxCounter \in Counters
      BY DEF IInv, TypeOK, IsSynchronized, PeerCounterType
    <2>2. ASSUME c <= pmc.maxCounter
          PROVE  pmc.maxCounter - c \notin pmc.window
      <3>1. /\ pmc.maxCounter - c \in Offsets
            /\ pmc.maxCounter - (pmc.maxCounter - c) = c
        BY <2>1, <2>2, CounterAssumption DEF Offsets, Counters
      <3>2. QED
        BY <2>1, <3>1 DEF IInv, WindowExact, IsSynchronized
    <2>3. QED
      BY <2>1, <2>2, VerifyMeans, CounterAssumption DEF Counters
  <1>2. QED
    BY Invariance, <1>1, PTL

-----------------------------------------------------------------------------

\* One step of the receive path is a step of ReplayFilter, or none.
LEMMA StepRefines == IInv /\ [Next]_vars => [Filter!Next]_(Filter!vars)
  <1> SUFFICES ASSUME IInv, [Next]_vars PROVE [Filter!Next]_(Filter!vars)
    OBVIOUS
  <1> USE CounterAssumption
  <1>1. CASE UNCHANGED vars
    BY <1>1 DEF vars, Filter!vars, IsSynchronized
  <1>2. CASE SyncTimeout
    <2>1. Filter!Forget
      BY <1>2
      DEF SyncTimeout, SyncFailed, Reset, Filter!Forget, IsSynchronized, NoOutcome,
          Filter!NoOutcome, Outcome, Filter!Outcome
    <2>2. QED
      BY <2>1 DEF Filter!Next
  <1>3. ASSUME NEW challenge \in Challenge, StartSync(challenge)
        PROVE  [Filter!Next]_(Filter!vars)
    BY <1>3
    DEF StartSync, SyncStarting, Filter!vars, IsSynchronized, IInv, NothingSeenUnsynced
  <1>4. ASSUME NEW c \in Counters, pmc' = SetCounter(c), seen' = {}, verdict' = NoOutcome
        PROVE  Filter!Next
    <2>1. Filter!Synchronize(c)
      BY <1>4
      DEF SetCounter, Filter!Synchronize, IsSynchronized, NoOutcome, Filter!NoOutcome,
          Outcome, Filter!Outcome
    <2>2. QED
      BY <2>1 DEF Filter!Next, Counters
  <1>5. ASSUME NEW c \in Counters, NEW challenge \in Challenge, SyncResponse(c, challenge)
        PROVE  [Filter!Next]_(Filter!vars)
    <2>1. CASE c # 0 /\ ChallengeMatches(pmc, challenge)
      BY <1>4, <1>5, <2>1 DEF SyncResponse, VerifyChallenge
    <2>2. CASE ~(c # 0 /\ ChallengeMatches(pmc, challenge))
      BY <1>5, <2>2 DEF SyncResponse, Filter!vars, IsSynchronized
    <2>3. QED
      BY <2>1, <2>2
  <1>6. ASSUME NEW c \in Counters, NewPairing(c)
        PROVE  [Filter!Next]_(Filter!vars)
    BY <1>4, <1>6 DEF NewPairing
  <1>7. ASSUME NEW c \in Counters, NEW genuine \in BOOLEAN,
               ReceiveControl(c, genuine) \/ ReceiveUnsynced(c, genuine)
        PROVE  [Filter!Next]_(Filter!vars)
    <2>1. Filter!Control(c, genuine) \/ Filter!Defer(c, genuine)
      BY <1>7
      DEF ReceiveControl, ReceiveUnsynced, Filter!Control, Filter!Defer, IsSynchronized,
          Outcome, Filter!Outcome
    <2>2. QED
      BY <2>1 DEF Filter!Next, Counters
  <1>8. ASSUME NEW c \in Counters, NEW genuine \in BOOLEAN, NEW needsAck \in BOOLEAN,
               ReceiveSynced(c, genuine, needsAck)
        PROVE  [Filter!Next]_(Filter!vars)
    <2> DEFINE check     == Verify(pmc, c)
               duplicate == check = "duplicate"
               up        == /\ check \in {"ok", "duplicate"}
                            /\ genuine
                            /\ duplicate => needsAck
    <2>1. /\ pmc \in PeerCounterType
          /\ seen \subseteq Counters
          /\ pmc.status = "Synced"
          /\ pmc.maxCounter \in Counters
      BY <1>8 DEF IInv, TypeOK, ReceiveSynced, IsSynchronized, PeerCounterType
    <2>2. /\ pmc' = IF up THEN Commit(pmc, c) ELSE pmc
          /\ seen' = IF up /\ ~duplicate THEN seen \cup {c} ELSE seen
          /\ verdict' = Outcome(c, genuine,
                            IF ~up THEN "dropped"
                            ELSE IF duplicate THEN "duplicate" ELSE "new")
      BY <1>8 DEF ReceiveSynced
    <2>3. \* the window's bit for c, read back as membership in seen
          ASSUME c <= pmc.maxCounter, pmc.maxCounter - c < WindowSize
          PROVE  pmc.maxCounter - c \in pmc.window <=> c \in seen
      <3>1. /\ pmc.maxCounter - c \in Offsets
            /\ pmc.maxCounter - (pmc.maxCounter - c) = c
        BY <2>1, <2>3 DEF Offsets, Counters
      <3>2. QED
        BY <2>1, <3>1 DEF IInv, WindowExact, IsSynchronized
    <2>4. ASSUME c > pmc.maxCounter PROVE c \notin seen
      BY <2>1, <2>4 DEF IInv, NothingSeenAboveMax, Counters
    <2>5. check = "ok" <=> c \notin seen /\ pmc.maxCounter - c < WindowSize
      BY <2>1, <2>3, <2>4, VerifyMeans DEF Counters
    <2>6. duplicate <=> c \in seen /\ pmc.maxCounter - c < WindowSize
      BY <2>1, <2>3, <2>4, VerifyMeans DEF Counters
    <2>7. CASE ~up
      <3>1. Filter!Drop(c, genuine)
        BY <2>1, <2>2, <2>5, <2>6, <2>7
        DEF Filter!Drop, Filter!InWindow, Filter!Outcome, Outcome, IsSynchronized
      <3>2. QED
        BY <3>1 DEF Filter!Next, Counters
    <2>8. CASE up /\ duplicate
      <3>1. c <= pmc.maxCounter /\ pmc.maxCounter - c < WindowSize
        BY <2>1, <2>8, VerifyMeans DEF Counters
      <3>2. pmc'.status = pmc.status /\ pmc'.maxCounter = pmc.maxCounter
        BY <2>1, <2>2, <2>8, <3>1, CommitInside
      <3>3. Filter!Repeat(c)
        BY <2>1, <2>2, <2>6, <2>8, <3>2
        DEF Filter!Repeat, Filter!InWindow, Filter!Outcome, Outcome, IsSynchronized
      <3>4. QED
        BY <3>3 DEF Filter!Next, Counters
    <2>9. CASE up /\ ~duplicate
      <3>1. /\ pmc'.status = pmc.status
            /\ pmc'.maxCounter = IF c > pmc.maxCounter THEN c ELSE pmc.maxCounter
        <4>1. CASE c > pmc.maxCounter
          BY <2>1, <2>2, <2>9, <4>1, CommitAhead
        <4>2. CASE c <= pmc.maxCounter
          BY <2>1, <2>2, <2>5, <2>9, <4>2, CommitInside DEF Counters
        <4>3. QED
          BY <2>1, <4>1, <4>2 DEF Counters
      <3>2. Filter!Accept(c)
        BY <2>1, <2>2, <2>5, <2>9, <3>1
        DEF Filter!Accept, Filter!InWindow, Filter!Outcome, Outcome, IsSynchronized
      <3>3. QED
        BY <3>2 DEF Filter!Next, Counters
    <2>10. QED
      BY <2>7, <2>8, <2>9
  <1>9. QED
    BY <1>1, <1>2, <1>3, <1>5, <1>6, <1>7, <1>8 DEF Next

\* The receive path with its bitset implements the abstract replay filter.
THEOREM Refinement == Spec => ImplementsReplayFilter
  <1>1. Init => Filter!Init
    BY DEF Init, Reset, Filter!Init, IsSynchronized, NoOutcome, Filter!NoOutcome,
           Outcome, Filter!Outcome
  <1>2. QED
    BY <1>1, StepRefines, Invariance, PTL DEF Spec, Filter!Spec, ImplementsReplayFilter
=============================================================================

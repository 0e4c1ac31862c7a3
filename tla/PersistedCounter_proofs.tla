---------------------- MODULE PersistedCounter_proofs -----------------------
(***************************************************************************)
(* Proofs about PersistedCounter, for every epoch and every bound.         *)
(***************************************************************************)
EXTENDS PersistedCounter, TLAPS

(***************************************************************************)
(* The start of the next epoch is a multiple of the epoch if this one is.  *)
(***************************************************************************)
LEMMA NextMultiple ==
    ASSUME NEW v \in Nat, IsMultiple(v)
    PROVE  IsMultiple(v + Epoch)
<1>1. PICK k \in 0 .. v : v = k * Epoch
  BY DEF IsMultiple
<1>2. k + 1 \in 0 .. v + Epoch
  BY EpochAssumption
<1>3. v + Epoch = (k + 1) * Epoch
  BY <1>1, EpochAssumption
<1> QED BY <1>2, <1>3 DEF IsMultiple

(***************************************************************************)
(* The inductive invariant holds before the counter is first initialised.  *)
(***************************************************************************)
LEMMA InitIInv == Init => IInv
<1> SUFFICES ASSUME Init PROVE IInv
  OBVIOUS
<1>1. IsMultiple(0)
  BY EpochAssumption DEF IsMultiple
<1>2. EpochsAligned
  BY <1>1 DEF Init, EpochsAligned
<1> QED BY <1>2 DEF Init, IInv, TypeOK, NothingBeforeInit, NextEpochPlaced, UsedBelow

(***************************************************************************)
(* Every step keeps the inductive invariant.  Read top down: the epochs    *)
(* stay aligned, and a step that leaves the running counter leaves the     *)
(* stored start above everything taken, unless a write had failed.         *)
(***************************************************************************)
LEMMA NextIInv == IInv /\ [Next]_vars => IInv'
<1> SUFFICES ASSUME IInv, [Next]_vars PROVE IInv'
  OBVIOUS
<1> USE EpochAssumption DEF IInv, TypeOK
<1>1. CASE ReadStartValue
  <2>1. IsMultiple(stored + Epoch)
    BY NextMultiple DEF EpochsAligned
  <2>2. EpochsAligned'
    BY <1>1, <2>1 DEF ReadStartValue, EpochsAligned
  <2>3. NothingBeforeInit' /\ NextEpochPlaced' /\ UsedBelow'
    BY <1>1 DEF ReadStartValue, NothingBeforeInit, NextEpochPlaced, UsedBelow
  <2> QED BY <1>1, <2>2, <2>3 DEF ReadStartValue
<1>2. ASSUME NEW written \in BOOLEAN, FinishInit(written) PROVE IInv'
  <2>1. EpochsAligned'
    BY <1>2 DEF FinishInit, EpochsAligned
  <2>2. TypeOK' /\ NothingBeforeInit' /\ NextEpochPlaced'
    BY <1>2 DEF FinishInit, FirstValue, NothingBeforeInit, NextEpochPlaced
  <2>3. UsedBelow'
    BY <1>2 DEF FinishInit, FirstValue, NextEpochPlaced, UsedBelow
  <2> QED BY <2>1, <2>2, <2>3
<1>3. CASE Advance
  <2>1. IsMultiple(mNextEpoch + Epoch)
    BY <1>3, NextMultiple DEF Advance, EpochsAligned
  <2>2. EpochsAligned'
    BY <1>3, <2>1 DEF Advance, EpochsAligned
  <2>3. TypeOK' /\ NothingBeforeInit'
    BY <1>3 DEF Advance, EpochOver, NothingBeforeInit
  <2>4. NextEpochPlaced'
    BY <1>3 DEF Advance, EpochOver, NextEpochPlaced
  <2>5. UsedBelow'
    BY <1>3 DEF Advance, EpochOver, UsedBelow
  <2> QED BY <2>2, <2>3, <2>4, <2>5
<1>4. ASSUME NEW written \in BOOLEAN, PersistNextEpochStart(written) PROVE IInv'
  <2>1. EpochsAligned'
    BY <1>4 DEF PersistNextEpochStart, EpochsAligned
  <2>2. TypeOK' /\ NothingBeforeInit'
    BY <1>4 DEF PersistNextEpochStart, NothingBeforeInit
  <2>3. ~lastFailed' => stored' = mNextEpoch'
    BY <1>4 DEF PersistNextEpochStart
  <2>4. value' < mNextEpoch'
    BY <1>4 DEF PersistNextEpochStart, NextEpochPlaced
  <2>5. NextEpochPlaced'
    BY <1>4, <2>3, <2>4 DEF PersistNextEpochStart, NextEpochPlaced
  <2>6. UsedBelow'
    BY <1>4 DEF PersistNextEpochStart, UsedBelow
  <2> QED BY <2>1, <2>2, <2>5, <2>6
<1>5. CASE Crash
  <2>1. EpochsAligned'
    BY <1>5 DEF Crash, EpochsAligned
  <2>2. TypeOK' /\ NothingBeforeInit' /\ NextEpochPlaced'
    BY <1>5 DEF Crash, NothingBeforeInit, NextEpochPlaced
  <2>3. UsedBelow'
    BY <1>5 DEF Crash, NextEpochPlaced, UsedBelow
  <2> QED BY <2>1, <2>2, <2>3
<1>6. CASE UNCHANGED vars
  BY <1>6 DEF vars, NothingBeforeInit, NextEpochPlaced, UsedBelow, EpochsAligned
<1> QED BY <1>1, <1>2, <1>3, <1>4, <1>5, <1>6 DEF Next

(***************************************************************************)
(* What each phase of Init and Advance has left in mNextEpoch, in the      *)
(* storage and among the values taken, through crashes and failed writes.  *)
(***************************************************************************)
THEOREM InvariantHolds == Spec => []IInv
  BY InitIInv, NextIInv, PTL DEF Spec

(***************************************************************************)
(* The variables keep their types, the counter never going below zero.     *)
(***************************************************************************)
THEOREM TypeCorrect == Spec => []TypeOK
<1>1. IInv => TypeOK
  BY DEF IInv
<1> QED BY <1>1, InvariantHolds, PTL

(***************************************************************************)
(* No value is given out twice by a process that dies at any point, unless *)
(* the last write to the storage before its death had failed.              *)
(***************************************************************************)
THEOREM NeverReused == Spec => []NoReuse
<1>1. IInv => NoReuse
  BY DEF IInv, UsedBelow, NoReuse
<1> QED BY <1>1, InvariantHolds, PTL

(***************************************************************************)
(* The value given out next is below what a restart would begin with.      *)
(***************************************************************************)
THEOREM AlwaysCovered == Spec => []NextValueCovered
<1>1. IInv => NextValueCovered
  BY DEF IInv, NextEpochPlaced, NextValueCovered
<1> QED BY <1>1, InvariantHolds, PTL

(***************************************************************************)
(* Counting starts at a multiple of the epoch: Init goes on from the value *)
(* that was stored, and only multiples ever are.                           *)
(***************************************************************************)
THEOREM StartsAligned == Spec => StartsAtEpoch
<1>1. ASSUME IInv, [Next]_vars
      PROVE  [at = "starting" /\ at' = "running" => IsMultiple(value')]_vars
  <2> SUFFICES ASSUME at = "starting", at' = "running"
               PROVE  IsMultiple(value')
    OBVIOUS
  <2>1. PICK written \in BOOLEAN : FinishInit(written)
    BY <1>1 DEF Next, vars, ReadStartValue, Advance, Crash, PersistNextEpochStart
  <2>2. value' = stored
    BY <1>1, <2>1, EpochAssumption
       DEF FinishInit, FirstValue, IInv, TypeOK, NextEpochPlaced
  <2> QED BY <1>1, <2>2 DEF IInv, EpochsAligned
<1> QED BY <1>1, InvariantHolds, PTL DEF Spec, StartsAtEpoch
=============================================================================

-------------------------- MODULE PersistedCounter --------------------------
(***************************************************************************)
(* A counter whose values are not to be used again after a restart,        *)
(* lib/support/PersistedCounter.cpp.  What is stored is not the value but  *)
(* the value to start with next time, one epoch ahead.                     *)
(*                                                                         *)
(* The client takes a value and advances the counter, as                   *)
(* CircularEventBuffer::VendEventNumber does.  The process may die between *)
(* any two steps, which loses everything but the storage.  A write to the  *)
(* storage is atomic and may fail.  The 32-bit value does not wrap.        *)
(***************************************************************************)
EXTENDS Integers

CONSTANTS
    Epoch,     \* values between two writes
    MaxValue   \* bound: the last value taken or started from

ASSUME EpochAssumption == Epoch \in Nat \ {0} /\ MaxValue \in Nat

VARIABLES
    at,         \* down | starting | running | persisting
    value,      \* the counter
    mNextEpoch, \* the value at which a new start is to be stored
    stored,     \* the start value in the storage, 0 if there is none
    lastFailed, \* history: the last write has failed
    used,       \* history: values the client has taken
    forfeited,  \* history: the process died while the last write was a failed one
    reused      \* history: the client was given a value twice

vars == <<at, value, mNextEpoch, stored, lastFailed, used, forfeited, reused>>

Init ==
    /\ at = "down" /\ value = 0 /\ mNextEpoch = 0 /\ stored = 0
    /\ lastFailed = FALSE /\ used = {} /\ forfeited = FALSE /\ reused = FALSE

\* PersistedCounter::Init up to the write in PersistNextEpochStart.
ReadStartValue ==
    /\ at = "down" /\ stored <= MaxValue
    /\ at' = "starting"
    /\ mNextEpoch' = stored + Epoch
    /\ UNCHANGED <<value, stored, lastFailed, used, forfeited, reused>>

\* Mutant: counting goes on from the last value of the epoch just begun.
FirstValueStored == mNextEpoch - 1

\* startValue, read before the write.
FirstValue == mNextEpoch - Epoch

\* The write of Init: after an error the client does not use the counter.
FinishInit(written) ==
    /\ at = "starting"
    /\ at' = IF written THEN "running" ELSE "down"
    /\ value' = IF written THEN FirstValue ELSE value
    /\ stored' = IF written THEN mNextEpoch ELSE stored
    /\ lastFailed' = ~written
    /\ UNCHANGED <<mNextEpoch, used, forfeited, reused>>

\* Mutant: a new start is stored one value late.
EpochOverLate(v) == v > mNextEpoch

\* The test in Advance, on the value just advanced.
EpochOver(v) == v >= mNextEpoch

\* The client takes the value; Advance, up to the write.
Advance ==
    /\ at = "running" /\ value < MaxValue
    /\ used' = used \cup {value}
    /\ reused' = (reused \/ value \in used)
    /\ value' = value + 1
    /\ IF EpochOver(value')
       THEN at' = "persisting" /\ mNextEpoch' = mNextEpoch + Epoch
       ELSE UNCHANGED <<at, mNextEpoch>>
    /\ UNCHANGED <<stored, lastFailed, forfeited>>

\* The write of Advance. Its error is returned to a client that only logs it;
\* mNextEpoch has moved on all the same.
PersistNextEpochStart(written) ==
    /\ at = "persisting" /\ at' = "running"
    /\ stored' = IF written THEN mNextEpoch ELSE stored
    /\ lastFailed' = ~written
    /\ UNCHANGED <<value, mNextEpoch, used, forfeited, reused>>

\* The process dies.
Crash ==
    /\ at # "down"
    /\ at' = "down" /\ value' = 0 /\ mNextEpoch' = 0
    /\ forfeited' = (forfeited \/ (at \in {"running", "persisting"} /\ lastFailed))
    /\ UNCHANGED <<stored, lastFailed, used, reused>>

Next ==
    \/ ReadStartValue \/ Advance \/ Crash
    \/ \E written \in BOOLEAN : FinishInit(written) \/ PersistNextEpochStart(written)

Spec == Init /\ [][Next]_vars

-----------------------------------------------------------------------------
(* Properties.                                                             *)

TypeOK ==
    /\ at \in {"down", "starting", "running", "persisting"}
    /\ value \in Nat /\ mNextEpoch \in Nat /\ stored \in Nat
    /\ used \subseteq Nat
    /\ lastFailed \in BOOLEAN /\ forfeited \in BOOLEAN /\ reused \in BOOLEAN

\* A value is given out twice only if the process died after a write had failed
\* and before a later one succeeded: a crash alone, at any point of Init or
\* Advance, and failed writes alone repeat nothing.
NoReuse == reused => forfeited

\* While the last write was good, the stored start is above the value the
\* client will be given next, so that a crash right after it is harmless
\* (Advance stores the new start before the value is used, not after).
NextValueCovered == at = "running" /\ ~lastFailed => value < stored

IsMultiple(v) == \E k \in 0 .. v : v = k * Epoch

\* "On bootup, values we vend will start at a multiple of this parameter"
\* (PersistedCounter.h, of the epoch), failed writes and crashes included.
StartsAtEpoch == [][at = "starting" /\ at' = "running" => IsMultiple(value')]_vars

-----------------------------------------------------------------------------
(* The inductive invariant of the proofs.                                  *)

\* Nothing has been counted before Init has finished.
NothingBeforeInit == at \in {"down", "starting"} => value = 0

\* Where the next epoch is, in each phase.
NextEpochPlaced ==
    /\ at = "starting" => mNextEpoch = stored + Epoch
    /\ at = "running" => value < mNextEpoch /\ (~lastFailed => mNextEpoch = stored)
    /\ at = "persisting" => /\ value = mNextEpoch - Epoch
                            /\ ~lastFailed => value = stored

\* Everything taken is below the value while the counter runs, and below the
\* stored start whenever that is what counting would go on from.
UsedBelow ==
    ~forfeited =>
        /\ ~reused
        /\ at \in {"running", "persisting"} => \A u \in used : u < value
        /\ at \in {"down", "starting"} => \A u \in used : u < stored

\* Every start is a multiple of the epoch.
EpochsAligned ==
    /\ IsMultiple(stored)
    /\ at # "down" => IsMultiple(mNextEpoch)

IInv == TypeOK /\ NothingBeforeInit /\ NextEpochPlaced /\ UsedBelow /\ EpochsAligned
=============================================================================

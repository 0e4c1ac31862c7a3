--------------------------- MODULE EventManagement ---------------------------
(***************************************************************************)
(* The event log of app/EventManagement.cpp: a chain of circular buffers,  *)
(* one for each priority.  A new event always goes into the first buffer;  *)
(* to make room there, the oldest event of the buffer is dropped if the    *)
(* buffer is the last one for its priority, and moved to the next buffer   *)
(* otherwise, where room is made in the same way.                          *)
(*                                                                         *)
(* An entry holds neither its number nor its time, only the time since the *)
(* event of its priority before it: the reader derives both from the       *)
(* mFirstEventNumber and mFirstEventSystemTimestamp of the final buffer.   *)
(* The fields "number" and "time" of an entry are history variables.       *)
(*                                                                         *)
(* A call of LogEvent is one step for each round of the loop that makes    *)
(* room, so that the properties also speak of the log half way through;    *)
(* it holds a lock, and nothing else happens before it ends.               *)
(***************************************************************************)
EXTENDS Integers, Sequences, FiniteSetsExt

CONSTANTS
    NumBuffers, \* buffers, and priorities: buffer b is initialised for priority b
    Capacity,   \* Capacity[b]: bytes in buffer b
    Sizes,      \* bytes an event may take
    MaxTime     \* bound: calls of LogEvent, the clock ticks between them

Buffers == 1 .. NumBuffers
Priorities == 1 .. NumBuffers

\* LogStorageResources::mpBuffer "must be large enough to accommodate the
\* largest event emitted by the system".
ASSUME CapacityAssumption ==
    /\ NumBuffers \in Nat \ {0}
    /\ Sizes \subseteq Nat \ {0}
    /\ Capacity \in [Buffers -> Nat]
    /\ \A b \in Buffers, size \in Sizes : size <= Capacity[b]
    /\ MaxTime \in Nat

\* No collection of events fills the first buffer to the last byte, a state in
\* which LogEventPrivate writes through a writer whose Init has failed.
ASSUME NeverExactlyFull ==
    \A count \in [Sizes -> 0 .. Capacity[1]] :
        MapThenSumSet(LAMBDA z : z * count[z], Sizes) # Capacity[1]

VARIABLES
    buffer, \* the CircularEventBuffers, from mpEventBuffer on
    now,    \* System::Clock::GetMonotonicMilliseconds
    call    \* the call of LogEvent under way: its event, and where its loop is

vars == <<buffer, now, call>>

NewBuffer ==
    [events |-> <<>>,
     mFirstEventNumber |-> 1, mLastEventNumber |-> 0, counter |-> 1,
     mFirstEventSystemTimestamp |-> 0, mLastEventSystemTimestamp |-> 0,
     mRequiredSpaceForEvicted |-> 0]

NoCall == [priority |-> 0, size |-> 0, delta |-> 0, eventBuffer |-> 0, requiredSpace |-> 0]

Init ==
    /\ buffer = [b \in Buffers |-> NewBuffer]
    /\ now = 1
    /\ call = NoCall

\* Bytes taken by a sequence of entries.
DataLength(events) ==
    LET bytes[i \in 0 .. Len(events)] ==
            IF i = 0 THEN 0 ELSE bytes[i - 1] + events[i].size
    IN  bytes[Len(events)]

AvailableDataLength(b) == Capacity[b] - DataLength(buffer[b].events)

IsFinalDestinationForPriority(b, p) == ~(b < NumBuffers /\ b + 1 <= p)

GetPriorityBuffer(p) == Min({b \in Buffers : IsFinalDestinationForPriority(b, p)})

-----------------------------------------------------------------------------
(* Logging an event.                                                       *)

\* The first event of a priority: its time is the first and the last.
SetFirstTime(b) ==
    IF buffer[b].mFirstEventSystemTimestamp # 0 THEN buffer
    ELSE [buffer EXCEPT ![b].mFirstEventSystemTimestamp = now,
                        ![b].mLastEventSystemTimestamp = now]

\* LogEventPrivate up to the call of EnsureSpaceInCircularBuffer.
LogEvent(p, size) ==
    LET final == GetPriorityBuffer(p)
        timed == SetFirstTime(final)
    IN  /\ call = NoCall
        /\ now <= MaxTime
        /\ buffer' = timed
        /\ call' = [priority |-> p, size |-> size,
                    delta |-> now - timed[final].mLastEventSystemTimestamp,
                    eventBuffer |-> 1, requiredSpace |-> size]
        /\ UNCHANGED now

\* CalculateEventSize finds no packet buffer, and LogEventPrivate puts the
\* first buffer, and no other, back to what it was.
LogEventNoMemory(p) ==
    /\ call = NoCall
    /\ now <= MaxTime
    /\ buffer' = [SetFirstTime(GetPriorityBuffer(p)) EXCEPT ![1] = buffer[1]]
    /\ now' = now + 1
    /\ UNCHANGED call

\* Mutants: one byte too many is taken for free; one too few.
HasRoomTooMany(b, required) == required <= AvailableDataLength(b) + 1
HasRoomTooFew(b, required) == required < AvailableDataLength(b)

HasRoom(b, required) == required <= AvailableDataLength(b)

\* The loop of EnsureSpaceInCircularBuffer looks at buffer b, which is too full.
\* Its errors need an event that is larger than a buffer.
MakingRoom(b) ==
    /\ call.eventBuffer = b
    /\ ~HasRoom(b, call.requiredSpace)

\* Mutant: the number of the first event stays.
EvictUncounted(b) == [buffer EXCEPT ![b].events = Tail(@)]

\* EvictHead with EvictEvent, for a head that is in its final buffer.
\* SetFirstEventSystemTimestamp assigns to mLastEventSystemTimestamp.
EvictEvent(b) ==
    [buffer EXCEPT
        ![b].events = Tail(@),
        ![b].mFirstEventNumber = @ + 1,
        ![b].mLastEventSystemTimestamp =
            buffer[b].mFirstEventSystemTimestamp + Head(buffer[b].events).delta]

DropHead(b) ==
    /\ MakingRoom(b)
    /\ IsFinalDestinationForPriority(b, Head(buffer[b].events).priority)
    /\ buffer' = EvictEvent(b)
    /\ UNCHANGED <<now, call>>

\* CopyToNextBuffer and the unconditional EvictHead after it.
CopyToNextBuffer(b) ==
    [buffer EXCEPT ![b].events = Tail(@),
                   ![b + 1].events = Append(@, Head(buffer[b].events))]

MoveHead(b) ==
    /\ MakingRoom(b)
    /\ ~IsFinalDestinationForPriority(b, Head(buffer[b].events).priority)
    /\ HasRoom(b + 1, Head(buffer[b].events).size)
    /\ buffer' = CopyToNextBuffer(b)
    /\ UNCHANGED <<now, call>>

\* SetRequiredSpaceforEvicted: room has to be made in the next buffer first.
GoToNextBuffer(b) ==
    /\ MakingRoom(b)
    /\ ~IsFinalDestinationForPriority(b, Head(buffer[b].events).priority)
    /\ ~HasRoom(b + 1, Head(buffer[b].events).size)
    /\ buffer' = [buffer EXCEPT ![b].mRequiredSpaceForEvicted = call.requiredSpace]
    /\ call' = [call EXCEPT !.eventBuffer = b + 1,
                            !.requiredSpace = Head(buffer[b].events).size]
    /\ UNCHANGED now

\* There is room for the head of the previous buffer: back to that one.
GoBack(b) ==
    /\ call.eventBuffer = b
    /\ HasRoom(b, call.requiredSpace)
    /\ b # 1
    /\ call' = [call EXCEPT !.eventBuffer = b - 1,
                            !.requiredSpace = buffer[b - 1].mRequiredSpaceForEvicted]
    /\ UNCHANGED <<buffer, now>>

\* ConstructEvent.
NewEntry ==
    [priority |-> call.priority, size |-> call.size, delta |-> call.delta,
     number |-> buffer[GetPriorityBuffer(call.priority)].counter, time |-> now]

\* Mutant: the time of the last event stays.
VendUntimed(bufs, b) ==
    [bufs EXCEPT ![b].mLastEventNumber = bufs[b].counter, ![b].counter = @ + 1]

\* VendEventNumber and UpdateFirstLastEventTime, on the final buffer, whose
\* mFirstEventSystemTimestamp is not zero any more.
VendEventNumber(bufs, b) ==
    [bufs EXCEPT ![b].mLastEventNumber = bufs[b].counter,
                 ![b].counter = @ + 1,
                 ![b].mLastEventSystemTimestamp = now]

\* LogEventPrivate, once the first buffer has room.
WriteEvent ==
    /\ call.eventBuffer = 1
    /\ HasRoom(1, call.requiredSpace)
    /\ buffer' = VendEventNumber([buffer EXCEPT ![1].events = Append(@, NewEntry)],
                                 GetPriorityBuffer(call.priority))
    /\ now' = now + 1
    /\ call' = NoCall

Next ==
    \/ \E p \in Priorities : \E size \in Sizes : LogEvent(p, size)
    \/ \E p \in Priorities : LogEventNoMemory(p)
    \/ \E b \in Buffers : DropHead(b) \/ MoveHead(b) \/ GoToNextBuffer(b) \/ GoBack(b)
    \/ WriteEvent

Spec == Init /\ [][Next]_vars

-----------------------------------------------------------------------------
(* Reading the log.                                                        *)

\* Mutant: the buffers are read from the first one on.
GetEventReaderUpwards(p) ==
    LET read[b \in 0 .. NumBuffers] ==
            IF b = 0 THEN <<>> ELSE read[b - 1] \o buffer[b].events
    IN  read[GetPriorityBuffer(p)]

\* The final buffer of the priority, then the ones before it, which
\* CircularEventBufferWrapper::GetNextBuffer goes back through.
GetEventReader(p) ==
    LET read[b \in 0 .. NumBuffers] ==
            IF b = 0 THEN <<>> ELSE buffer[b].events \o read[b - 1]
    IN  read[GetPriorityBuffer(p)]

\* The i-th entry read as CopyEventsSince sees it: mCurrentEventNumber counts
\* entries of every priority, mCurrentSystemTime only adds up the entries of
\* the priority asked for.
Visited(p) ==
    LET final   == buffer[GetPriorityBuffer(p)]
        entries == GetEventReader(p)
        time[i \in 0 .. Len(entries)] ==
            IF i = 0 THEN final.mFirstEventSystemTimestamp
            ELSE IF entries[i].priority = p THEN time[i - 1] + entries[i].delta
            ELSE time[i - 1]
    IN  [i \in 1 .. Len(entries) |->
            [event |-> entries[i], number |-> final.mFirstEventNumber + i - 1,
             time |-> time[i]]]

\* What a reader with room for everything, and interested in every path, gets.
FetchEventsSince(p, start) ==
    {v \in {Visited(p)[i] : i \in DOMAIN Visited(p)} :
        v.event.priority = p /\ v.number >= start}

-----------------------------------------------------------------------------
(* Properties.                                                             *)

Entries == [priority: Priorities, size: Sizes, delta: 0 .. MaxTime,
            number: 1 .. MaxTime, time: 1 .. MaxTime]

Calls == [priority: Priorities, size: Sizes, delta: 0 .. MaxTime,
          eventBuffer: Buffers, requiredSpace: Sizes]

CircularEventBuffers ==
    [events: Seq(Entries), mFirstEventNumber: 1 .. MaxTime + 1,
     mLastEventNumber: 0 .. MaxTime, counter: 1 .. MaxTime + 1,
     mFirstEventSystemTimestamp: 0 .. MaxTime,
     mLastEventSystemTimestamp: 0 .. MaxTime,
     mRequiredSpaceForEvicted: Sizes \cup {0}]

\* Besides the ranges: no buffer holds more bytes than it has, and the unsigned
\* difference that ConstructEvent stores does not underflow.
TypeOK ==
    /\ now \in 1 .. MaxTime + 1
    /\ call \in Calls \cup {NoCall}
    /\ buffer \in [Buffers -> CircularEventBuffers]
    /\ \A b \in Buffers : DataLength(buffer[b].events) <= Capacity[b]

\* However the events of a priority are spread over the buffers, its reader
\* comes across each of them from mFirstEventNumber to mLastEventNumber, in the
\* order they were logged, and no other: moving an event never overtakes,
\* doubles or loses one.
RetainedInOrder ==
    \A p \in Priorities :
        LET entries == GetEventReader(p)
            places  == {i \in DOMAIN entries : entries[i].priority = p}
            final   == buffer[GetPriorityBuffer(p)]
        IN  /\ {entries[i].number : i \in places} =
                    final.mFirstEventNumber .. final.mLastEventNumber
            /\ \A i, j \in places : i < j => entries[i].number < entries[j].number

\* The event that is to go into buffer b next: the new one, or the head of the
\* buffer before it.
Waiting(b) ==
    IF b = 1 THEN call ELSE Head(buffer[b - 1].events)

\* An event is only dropped for one of at least the priority of its buffer that
\* has to go there and does not fit, and one at a time: the lengths saved on the
\* way down the chain are those of the events that wait.
NoNeedlessDrop ==
    [][\A b \in Buffers :
          buffer'[b].mFirstEventNumber # buffer[b].mFirstEventNumber =>
              /\ buffer'[b].mFirstEventNumber = buffer[b].mFirstEventNumber + 1
              /\ Waiting(b).priority >= b
              /\ Waiting(b).size > AvailableDataLength(b)]_vars

\* A reader that asks for the events from a number on gets every one of them
\* that is in the log, although the number it goes by counts the entries of
\* other priorities that it passes on the way.
FetchMissesNothing ==
    \A p \in Priorities, start \in 1 .. MaxTime :
        LET fetched == {v.event : v \in FetchEventsSince(p, start)}
        IN  \A b \in Buffers : \A i \in DOMAIN buffer[b].events :
                buffer[b].events[i].priority = p /\ buffer[b].events[i].number >= start
                    => buffer[b].events[i] \in fetched

\* As long as no event of a priority has been dropped, the times a reader
\* derives from the stored differences are the times the events were logged at,
\* however they were moved, also after calls of LogEvent that failed. (After a
\* drop they are not: see EvictEvent.)
FetchedTimesAreTrue ==
    \A p \in Priorities :
        buffer[GetPriorityBuffer(p)].mFirstEventNumber = 1 =>
            \A v \in FetchEventsSince(p, 1) : v.time = v.event.time
=============================================================================

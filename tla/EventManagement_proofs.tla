------------------------ MODULE EventManagement_proofs ------------------------
(***************************************************************************)
(* Proofs about EventManagement, for every number of buffers and every     *)
(* capacity and size of events.                                            *)
(***************************************************************************)
EXTENDS EventManagement, WellFoundedInduction, TLAPS

(***************************************************************************)
(* Induction over the natural numbers for sets rather than predicates.     *)
(***************************************************************************)
LEMMA LeastElement ==
    ASSUME NEW S, S \subseteq Nat, S # {}
    PROVE  \E x \in S : \A y \in S : x <= y
<1> DEFINE Less == {xy \in Nat \X Nat : xy[1] < xy[2]}
<1>1. IsWellFoundedOn(Less, Nat)
  BY NatLessThanWellFounded DEF OpToRel
<1> HIDE DEF Less
<1>2. PICK x \in S : \A y \in S : <<y, x>> \notin Less
  BY <1>1, WFMin
<1>3. \A y \in S : y < x => <<y, x>> \in Less
  BY DEF Less
<1>4. ASSUME NEW y \in S PROVE x <= y
  <2>1. x \in Nat /\ y \in Nat
    OBVIOUS
  <2>2. ~(y < x)
    BY <1>2, <1>3
  <2> QED BY <2>1, <2>2
<1> QED BY <1>4

\* A set that holds 0 and is closed under successor holds every natural.
LEMMA SetInduction ==
    ASSUME NEW S, 0 \in S, \A n \in Nat : n \in S => n + 1 \in S
    PROVE  \A n \in Nat : n \in S
<1> SUFFICES ASSUME NEW b \in Nat \ S PROVE FALSE
  OBVIOUS
<1>1. PICK x \in Nat \ S : \A y \in Nat \ S : x <= y
  BY LeastElement
<1>2. x - 1 \in Nat /\ x - 1 \in S
  BY <1>1
<1> QED BY <1>1, <1>2

-----------------------------------------------------------------------------
(* Recursion over a stretch of naturals.                                   *)

\* f starts at a and takes the steps that the function st describes.
IsSteps(f, V, a, st, n) ==
    /\ f \in [0 .. n -> V]
    /\ f[0] = a
    /\ \A i \in 1 .. n : f[i] = st[<<f[i - 1], i>>]

\* Such a function exists.
LEMMA StepsExist ==
    ASSUME NEW V, NEW a \in V, NEW st \in [V \X (Nat \ {0}) -> V], NEW n \in Nat
    PROVE  \E f : IsSteps(f, V, a, st, n)
<1> DEFINE S == {k \in Nat : \E f : IsSteps(f, V, a, st, k)}
<1>1. 0 \in S
  <2>1. IsSteps([i \in 0 .. 0 |-> a], V, a, st, 0)
    BY DEF IsSteps
  <2> QED BY <2>1
<1>2. ASSUME NEW k \in Nat, k \in S PROVE k + 1 \in S
  <2>1. PICK f : IsSteps(f, V, a, st, k)
    BY <1>2
  <2>2. PICK v : v = st[<<f[k], k + 1>>]
    OBVIOUS
  <2>3. v \in V
    BY <2>1, <2>2 DEF IsSteps
  <2>4. PICK g : g = [i \in 0 .. k + 1 |-> IF i = k + 1 THEN v ELSE f[i]]
    OBVIOUS
  <2>5. g \in [0 .. k + 1 -> V] /\ g[0] = a /\ g[k + 1] = v /\ \A i \in 0 .. k : g[i] = f[i]
    BY <2>1, <2>3, <2>4 DEF IsSteps
  <2>6. ASSUME NEW i \in 1 .. k + 1 PROVE g[i] = st[<<g[i - 1], i>>]
    <3>1. g[i - 1] = f[i - 1]
      BY <2>5
    <3>2. CASE i = k + 1
      BY <3>1, <3>2, <2>2, <2>5
    <3>3. CASE i # k + 1
      BY <3>1, <3>3, <2>1, <2>5 DEF IsSteps
    <3> QED BY <3>2, <3>3
  <2>7. IsSteps(g, V, a, st, k + 1)
    BY <2>5, <2>6 DEF IsSteps
  <2> QED BY <2>7
<1> HIDE DEF S
<1>3. n \in S
  BY <1>1, <1>2, SetInduction
<1> QED BY <1>3 DEF S

\* Two functions that grow alike keep their distance.
LEMMA GrowAlike ==
    ASSUME NEW n \in Nat, NEW f \in [0 .. n -> Int], NEW g \in [0 .. n -> Int],
           \A i \in 1 .. n : f[i] - f[i - 1] = g[i] - g[i - 1]
    PROVE  f[n] - g[n] = f[0] - g[0]
<1> DEFINE S == {k \in Nat : k <= n => f[k] - g[k] = f[0] - g[0]}
<1>1. 0 \in S
  OBVIOUS
<1>2. ASSUME NEW k \in Nat, k \in S PROVE k + 1 \in S
  <2> SUFFICES ASSUME k + 1 <= n PROVE f[k + 1] - g[k + 1] = f[0] - g[0]
    OBVIOUS
  <2>1. f[k] - g[k] = f[0] - g[0]
    BY <1>2
  <2>2. k + 1 \in 1 .. n /\ (k + 1) - 1 = k
    OBVIOUS
  <2>3. f[k + 1] - f[k] = g[k + 1] - g[k]
    BY <2>2
  <2>4. PICK a \in Int, b \in Int, c \in Int, d \in Int :
           a = f[k + 1] /\ b = f[k] /\ c = g[k + 1] /\ d = g[k]
    OBVIOUS
  <2>5. PICK z \in Int : z = f[0] - g[0]
    OBVIOUS
  <2>6. b - d = z
    BY <2>1, <2>4, <2>5
  <2>7. a - b = c - d
    BY <2>3, <2>4
  <2>8. a - c = z
    BY <2>6, <2>7
  <2> QED BY <2>4, <2>5, <2>8
<1> HIDE DEF S
<1>3. n \in S
  BY <1>1, <1>2, SetInduction
<1> QED BY <1>3 DEF S

-----------------------------------------------------------------------------
(* The length of a sequence of entries.                                    *)

Bytes(f, s) ==
    /\ f \in [0 .. Len(s) -> Nat]
    /\ f[0] = 0
    /\ \A i \in 1 .. Len(s) : f[i] = f[i - 1] + s[i].size

\* The recursive function that DataLength is defined with.
LEMMA DataLengthBytes ==
    ASSUME NEW s \in Seq(Entries)
    PROVE  \E f : Bytes(f, s) /\ DataLength(s) = f[Len(s)]
<1> DEFINE n == Len(s)
           st == [x \in Nat \X (Nat \ {0}) |->
                    IF x[2] \in 1 .. n THEN x[1] + s[x[2]].size ELSE 0]
           Is(h) == h = [i \in 0 .. n |-> IF i = 0 THEN 0 ELSE h[i - 1] + s[i].size]
<1>0. ASSUME NEW i \in 1 .. n PROVE s[i].size \in Nat
  <2>1. s[i] \in Entries
    OBVIOUS
  <2>2. s[i].size \in Sizes
    BY <2>1 DEF Entries
  <2> QED BY <2>2, CapacityAssumption
<1>1. st \in [Nat \X (Nat \ {0}) -> Nat]
  BY <1>0
<1> HIDE DEF st
<1>2. n \in Nat /\ 0 \in Nat
  OBVIOUS
<1>3. PICK f : IsSteps(f, Nat, 0, st, n)
  BY <1>1, <1>2, StepsExist
<1>4. ASSUME NEW i \in 1 .. n PROVE f[i] = f[i - 1] + s[i].size
  <2>1. f[i] = st[<<f[i - 1], i>>] /\ f[i - 1] \in Nat
    BY <1>3 DEF IsSteps
  <2>2. <<f[i - 1], i>> \in Nat \X (Nat \ {0})
    BY <2>1
  <2>3. st[<<f[i - 1], i>>] = f[i - 1] + s[i].size
    BY <2>2 DEF st
  <2> QED BY <2>1, <2>3
<1>5. Is(f)
  <2>1. f = [i \in 0 .. n |-> f[i]]
    BY <1>3 DEF IsSteps
  <2>2. ASSUME NEW i \in 0 .. n PROVE f[i] = IF i = 0 THEN 0 ELSE f[i - 1] + s[i].size
    BY <1>3, <1>4 DEF IsSteps
  <2> QED BY <2>1, <2>2
<1>6. PICK g : g = CHOOSE h : Is(h)
  OBVIOUS
<1>7. Is(g)
  BY <1>5, <1>6
<1>8. DataLength(s) = g[n]
  BY <1>6 DEF DataLength
<1>9. g[0] = 0 /\ \A i \in 1 .. n : g[i] = g[i - 1] + s[i].size
  BY <1>7
<1>10. g \in [0 .. n -> Nat]
  <2> DEFINE S == {k \in Nat : k <= n => g[k] \in Nat}
  <2>1. 0 \in S
    BY <1>9
  <2>2. ASSUME NEW k \in Nat, k \in S PROVE k + 1 \in S
    BY <2>2, <1>0, <1>9
  <2> HIDE DEF S
  <2>3. \A k \in Nat : k \in S
    BY <2>1, <2>2, SetInduction
  <2>4. \A i \in 0 .. n : g[i] \in Nat
    BY <2>3 DEF S
  <2> HIDE DEF n
  <2>5. g = [i \in 0 .. n |-> g[i]]
    BY <1>7
  <2> QED BY <2>4, <2>5
<1> QED BY <1>8, <1>9, <1>10 DEF Bytes

LEMMA EmptyLength == DataLength(<<>>) = 0
<1>1. <<>> \in Seq(Entries) /\ Len(<<>>) = 0
  OBVIOUS
<1>2. PICK f : Bytes(f, <<>>) /\ DataLength(<<>>) = f[0]
  BY <1>1, DataLengthBytes
<1> QED BY <1>2 DEF Bytes

LEMMA LengthType == ASSUME NEW s \in Seq(Entries) PROVE DataLength(s) \in Nat
<1>1. PICK f : Bytes(f, s) /\ DataLength(s) = f[Len(s)]
  BY DataLengthBytes
<1>2. Len(s) \in 0 .. Len(s)
  OBVIOUS
<1> QED BY <1>1, <1>2 DEF Bytes

\* An entry that is appended adds its size.
LEMMA AppendLength ==
    ASSUME NEW s \in Seq(Entries), NEW e \in Entries
    PROVE  DataLength(Append(s, e)) = DataLength(s) + e.size
<1>1. PICK t : t = Append(s, e)
  OBVIOUS
<1>2. PICK n \in Nat : n = Len(s)
  OBVIOUS
<1>3. t \in Seq(Entries) /\ Len(t) = n + 1 /\ t[n + 1] = e /\ \A i \in 1 .. n : t[i] = s[i]
  BY <1>1, <1>2
<1>4. PICK f : Bytes(f, s) /\ DataLength(s) = f[n]
  BY <1>2, DataLengthBytes
<1>5. PICK g : Bytes(g, t) /\ DataLength(t) = g[n + 1]
  BY <1>3, DataLengthBytes
<1>6. PICK h : h = [i \in 0 .. n |-> g[i]]
  OBVIOUS
<1>7. f \in [0 .. n -> Nat] /\ f[0] = 0 /\ \A i \in 1 .. n : f[i] = f[i - 1] + s[i].size
  BY <1>2, <1>4 DEF Bytes
<1>8. g \in [0 .. n + 1 -> Nat] /\ g[0] = 0 /\ \A i \in 1 .. n + 1 : g[i] = g[i - 1] + t[i].size
  BY <1>3, <1>5 DEF Bytes
<1>9. h \in [0 .. n -> Nat] /\ h[0] = 0 /\ h[n] = g[n]
  BY <1>6, <1>8
<1>10. ASSUME NEW i \in 1 .. n PROVE f[i] - f[i - 1] = h[i] - h[i - 1]
  <2>0. i \in 0 .. n /\ i - 1 \in 0 .. n /\ i \in 1 .. n + 1
    OBVIOUS
  <2>1a. h[i] = g[i] /\ h[i - 1] = g[i - 1] /\ g[i] = g[i - 1] + s[i].size
    BY <2>0, <1>3, <1>6, <1>8
  <2>1. f[i] = f[i - 1] + s[i].size /\ h[i] = h[i - 1] + s[i].size
    BY <2>1a, <1>7
  <2>2. f[i] \in Nat /\ f[i - 1] \in Nat /\ h[i] \in Nat /\ h[i - 1] \in Nat /\ s[i].size \in Nat
    <3>1. s[i] \in Entries
      BY <1>2
    <3>2. s[i].size \in Sizes
      BY <3>1 DEF Entries
    <3> QED BY <2>0, <1>7, <1>9, <3>2, CapacityAssumption
  <2> QED BY <2>1, <2>2
<1>11. f \in [0 .. n -> Int] /\ h \in [0 .. n -> Int]
  BY <1>7, <1>9
<1>12. f[n] - h[n] = f[0] - h[0]
  BY <1>10, <1>11, GrowAlike
<1>13. f[n] \in Nat /\ h[n] \in Nat
  BY <1>7, <1>9
<1>14. g[n + 1] = g[n] + e.size
  BY <1>3, <1>8
<1> QED BY <1>1, <1>4, <1>5, <1>7, <1>9, <1>12, <1>13, <1>14

\* An entry that is taken away in front takes its size with it.
LEMMA TailLength ==
    ASSUME NEW s \in Seq(Entries), s # <<>>
    PROVE  DataLength(s) = Head(s).size + DataLength(Tail(s))
<1>1. PICK t : t = Tail(s)
  OBVIOUS
<1>2. PICK n \in Nat : n = Len(s) - 1
  OBVIOUS
<1>3. t \in Seq(Entries) /\ Len(t) = n /\ \A i \in 1 .. n : t[i] = s[i + 1]
  BY <1>1, <1>2
<1>3a. Len(s) = n + 1 /\ Head(s) = s[1]
  BY <1>2
<1>4. PICK f : Bytes(f, t) /\ DataLength(t) = f[n]
  BY <1>3, DataLengthBytes
<1>5. PICK g : Bytes(g, s) /\ DataLength(s) = g[n + 1]
  BY <1>3a, DataLengthBytes
<1>6. PICK h : h = [i \in 0 .. n |-> g[i + 1]]
  OBVIOUS
<1>7. f \in [0 .. n -> Nat] /\ f[0] = 0 /\ \A i \in 1 .. n : f[i] = f[i - 1] + t[i].size
  BY <1>3, <1>4 DEF Bytes
<1>8. g \in [0 .. n + 1 -> Nat] /\ g[0] = 0 /\ \A i \in 1 .. n + 1 : g[i] = g[i - 1] + s[i].size
  BY <1>3a, <1>5 DEF Bytes
<1>9. h \in [0 .. n -> Nat] /\ h[0] = g[1] /\ h[n] = g[n + 1]
  BY <1>6, <1>8
<1>10. ASSUME NEW i \in 1 .. n PROVE f[i] - f[i - 1] = h[i] - h[i - 1]
  <2>1. i + 1 \in 1 .. n + 1 /\ (i + 1) - 1 = i /\ (i - 1) + 1 = i /\ i \in 0 .. n /\ i - 1 \in 0 .. n
    OBVIOUS
  <2>2. h[i] = g[i + 1] /\ h[i - 1] = g[i] /\ g[i + 1] = g[i] + s[i + 1].size
    BY <2>1, <1>6, <1>8
  <2>3. f[i] = f[i - 1] + s[i + 1].size
    BY <1>3, <1>7
  <2>4. f[i] \in Nat /\ f[i - 1] \in Nat /\ h[i] \in Nat /\ h[i - 1] \in Nat /\ s[i + 1].size \in Nat
    <3>1. s[i + 1] \in Entries
      BY <1>3a, <2>1
    <3>2. s[i + 1].size \in Sizes
      BY <3>1 DEF Entries
    <3> QED BY <2>1, <1>7, <1>9, <3>2, CapacityAssumption
  <2> QED BY <2>2, <2>3, <2>4
<1>11. f \in [0 .. n -> Int] /\ h \in [0 .. n -> Int]
  BY <1>7, <1>9
<1>12. f[n] - h[n] = f[0] - h[0]
  BY <1>10, <1>11, GrowAlike
<1>13. f[n] \in Nat /\ h[n] \in Nat /\ g[1] \in Nat
  BY <1>7, <1>8, <1>9
<1>14. g[1] = s[1].size
  <2>1. 1 \in 1 .. n + 1 /\ 1 - 1 = 0 /\ 1 \in 1 .. Len(s)
    BY <1>3a
  <2>2. s[1].size \in Nat
    <3>1. s[1] \in Entries
      BY <2>1
    <3>2. s[1].size \in Sizes
      BY <3>1 DEF Entries
    <3> QED BY <3>2, CapacityAssumption
  <2> QED BY <1>8, <2>1, <2>2
<1>15. g[n + 1] = g[1] + f[n]
  <2>1. f[n] - h[n] = 0 - g[1]
    BY <1>7, <1>9, <1>12
  <2>2. h[n] = g[1] + f[n]
    BY <2>1, <1>13
  <2> QED BY <2>2, <1>9
<1> QED BY <1>1, <1>3a, <1>4, <1>5, <1>14, <1>15

-----------------------------------------------------------------------------
(* The buffer of a priority.                                               *)

LEMMA PriorityBuffer ==
    ASSUME NEW p \in Priorities
    PROVE  /\ GetPriorityBuffer(p) = p
           /\ p \in Buffers
           /\ \A b \in Buffers : IsFinalDestinationForPriority(b, p) <=> (b >= p \/ b = NumBuffers)
<1> DEFINE S == {b \in Buffers : IsFinalDestinationForPriority(b, p)}
<1>1. p \in Nat /\ NumBuffers \in Nat /\ 1 <= p /\ p <= NumBuffers
  BY CapacityAssumption DEF Priorities
<1>2. \A b \in Buffers : IsFinalDestinationForPriority(b, p) <=> (b >= p \/ b = NumBuffers)
  BY <1>1 DEF IsFinalDestinationForPriority, Buffers
<1>3. p \in S /\ \A x \in S : x >= p
  BY <1>1, <1>2 DEF Buffers
<1>4. Min(S) = p
  <2>1. \A x \in S : x \in Nat
    BY <1>1 DEF Buffers
  <2>2. PICK T : T = S
    OBVIOUS
  <2> HIDE DEF S
  <2>3. p \in T /\ \A y \in T : p <= y
    BY <1>1, <1>3, <2>1, <2>2
  <2>4. \A x \in T : (\A y \in T : x <= y) => x = p
    BY <1>1, <1>3, <2>1, <2>2
  <2>5. (CHOOSE x \in T : \A y \in T : x <= y) = p
    BY <2>3, <2>4
  <2> QED BY <2>2, <2>5 DEF Min
<1> QED BY <1>2, <1>4, <1>1 DEF GetPriorityBuffer, Buffers

-----------------------------------------------------------------------------
(* The inductive invariant.                                                *)

\* E[b] is the sequence of entries in buffer b; these are the entries of all.
Logged(E) == UNION {{E[b][i] : i \in DOMAIN E[b]} : b \in Buffers}

\* An event stays in the first buffers, up to the one of its priority.
NotTooFar(E) == \A b \in Buffers : \A i \in DOMAIN E[b] : E[b][i].priority >= b

\* Events of one priority are older in later buffers, and in front in a buffer.
Ordered(E) ==
    \A b, c \in Buffers : \A i \in DOMAIN E[b], j \in DOMAIN E[c] :
        /\ E[b][i].priority = E[c][j].priority
        /\ b > c \/ (b = c /\ i < j)
        => E[b][i].number < E[c][j].number

\* The numbers of the entries S of a priority p are those from F[p] to L[p].
Numbered(S, F, L) ==
    /\ \A e \in S : e.number \in F[e.priority] .. L[e.priority]
    /\ \A p \in Priorities : \A n \in F[p] .. L[p] :
          \E e \in S : e.priority = p /\ e.number = n

\* No difference reaches back before the first time X[p] of its priority.
NotTooLong(S, X, t) ==
    \A e \in S : e.time <= t /\ X[e.priority] + e.delta <= e.time

\* Where nothing has been dropped the differences add up, from the first time
\* X[p] to the last time Y[p].
Chained(S, F, L, X, Y) ==
    /\ \A e \in S : F[e.priority] = 1 =>
          /\ e.number = 1 => e.time = X[e.priority] + e.delta
          /\ e.number = L[e.priority] => e.time = Y[e.priority]
    /\ \A d, e \in S : F[e.priority] = 1 /\ d.priority = e.priority
                        /\ e.number = d.number + 1 => e.time = d.time + e.delta
    /\ \A p \in Priorities : F[p] = 1 /\ L[p] = 0 => Y[p] = X[p]

Log == [b \in Buffers |-> buffer[b].events]
Firsts == [b \in Buffers |-> buffer[b].mFirstEventNumber]
Lasts == [b \in Buffers |-> buffer[b].mLastEventNumber]
FirstTimes == [b \in Buffers |-> buffer[b].mFirstEventSystemTimestamp]
LastTimes == [b \in Buffers |-> buffer[b].mLastEventSystemTimestamp]

\* The numbers and times that are kept for each priority.
CountersOK ==
    \A b \in Buffers :
        /\ buffer[b].counter = buffer[b].mLastEventNumber + 1
        /\ buffer[b].mFirstEventNumber <= buffer[b].counter
        /\ buffer[b].counter <= now
        /\ buffer[b].mFirstEventSystemTimestamp <= buffer[b].mLastEventSystemTimestamp
        /\ buffer[b].mLastEventSystemTimestamp <= now
        /\ buffer[b].mFirstEventSystemTimestamp = 0 => buffer[b].mLastEventNumber = 0

\* The call under way: the lengths it has saved are those of the events that
\* wait, and the difference it will store is right unless events were dropped.
CallOK ==
    call # NoCall =>
        /\ now <= MaxTime
        /\ \A b \in 1 .. call.eventBuffer - 1 :
              /\ buffer[b].events # <<>>
              /\ Head(buffer[b].events).priority > b
              /\ buffer[b].mRequiredSpaceForEvicted = Waiting(b).size
        /\ call.requiredSpace = Waiting(call.eventBuffer).size
        /\ FirstTimes[call.priority] # 0
        /\ FirstTimes[call.priority] + call.delta <= now
        /\ Firsts[call.priority] = 1 => LastTimes[call.priority] + call.delta = now

\* What is in the buffers fits the numbers and times kept for its priority.
LogOK ==
    /\ NotTooFar(Log)
    /\ Ordered(Log)
    /\ Numbered(Logged(Log), Firsts, Lasts)
    /\ NotTooLong(Logged(Log), FirstTimes, now)
    /\ Chained(Logged(Log), Firsts, Lasts, FirstTimes, LastTimes)

IInv == TypeOK /\ CountersOK /\ CallOK /\ LogOK

-----------------------------------------------------------------------------
(* What dropping, moving and writing an entry does to the log.             *)

Logs == [Buffers -> Seq(Entries)]

Dropped(E, G, b) ==
    /\ E[b] # <<>> /\ G[b] = Tail(E[b])
    /\ \A c \in Buffers : c # b => G[c] = E[c]

Moved(E, G, b) ==
    /\ b + 1 \in Buffers
    /\ E[b] # <<>> /\ G[b] = Tail(E[b]) /\ G[b + 1] = Append(E[b + 1], E[b][1])
    /\ \A c \in Buffers : c # b /\ c # b + 1 => G[c] = E[c]

Written(E, G, e) ==
    /\ G[1] = Append(E[1], e)
    /\ \A c \in Buffers : c # 1 => G[c] = E[c]

LEMMA PlaceLogged ==
    ASSUME NEW E, NEW b \in Buffers, NEW i \in DOMAIN E[b]
    PROVE  E[b][i] \in Logged(E)
BY DEF Logged

LEMMA LoggedPlace ==
    ASSUME NEW E, NEW e \in Logged(E)
    PROVE  \E b \in Buffers : \E i \in DOMAIN E[b] : e = E[b][i]
BY DEF Logged

LEMMA BufferFacts ==
    /\ NumBuffers \in Nat /\ 1 \in Buffers /\ Buffers \subseteq Nat
    /\ \A b \in Buffers : b \in Nat /\ 1 <= b /\ b <= NumBuffers
BY CapacityAssumption DEF Buffers

LEMMA EntryType ==
    ASSUME NEW E \in Logs, NEW b \in Buffers, NEW i \in DOMAIN E[b]
    PROVE  /\ E[b][i] \in Entries
           /\ E[b][i].number \in Nat /\ E[b][i].priority \in Buffers
           /\ E[b][i].priority \in Nat
<1>1. E[b] \in Seq(Entries)
  BY DEF Logs
<1>2. E[b][i] \in Entries
  BY <1>1
<1>3. E[b][i].number \in 1 .. MaxTime /\ E[b][i].priority \in Priorities
  BY <1>2 DEF Entries
<1> QED BY <1>2, <1>3, BufferFacts, CapacityAssumption DEF Priorities, Buffers

\* Dropping: the other entries stay as they are, in their order.
LEMMA DropPlaces ==
    ASSUME NEW E \in Logs, NEW G \in Logs, NEW b \in Buffers, Dropped(E, G, b)
    PROVE  \A c \in Buffers : \A i \in DOMAIN G[c] :
              \E k \in DOMAIN E[c] : G[c][i] = E[c][k] /\ k = IF c = b THEN i + 1 ELSE i
<1> SUFFICES ASSUME NEW c \in Buffers, NEW i \in DOMAIN G[c]
             PROVE  \E k \in DOMAIN E[c] : G[c][i] = E[c][k] /\ k = IF c = b THEN i + 1 ELSE i
  OBVIOUS
<1>1. E[b] \in Seq(Entries) /\ E[c] \in Seq(Entries) /\ G[c] \in Seq(Entries)
  BY DEF Logs
<1>2. CASE c = b
  <2>1. E[c] # <<>> /\ G[c] = Tail(E[c])
    BY <1>2 DEF Dropped
  <2>2. i + 1 \in DOMAIN E[c] /\ G[c][i] = E[c][i + 1]
    BY <2>1, <1>1
  <2> QED BY <2>2, <1>2
<1>3. CASE c # b
  BY <1>3 DEF Dropped
<1> QED BY <1>2, <1>3

LEMMA DropOrdered ==
    ASSUME NEW E \in Logs, NEW G \in Logs, NEW b \in Buffers, Dropped(E, G, b)
    PROVE  /\ NotTooFar(E) => NotTooFar(G)
           /\ Ordered(E) => Ordered(G)
<1>1. NotTooFar(E) => NotTooFar(G)
  BY DropPlaces DEF NotTooFar
<1>2. ASSUME Ordered(E) PROVE Ordered(G)
  <2> SUFFICES ASSUME NEW c \in Buffers, NEW d \in Buffers,
                      NEW i \in DOMAIN G[c], NEW j \in DOMAIN G[d],
                      G[c][i].priority = G[d][j].priority,
                      c > d \/ (c = d /\ i < j)
               PROVE  G[c][i].number < G[d][j].number
    BY DEF Ordered
  <2>1. PICK k \in DOMAIN E[c] : G[c][i] = E[c][k] /\ k = IF c = b THEN i + 1 ELSE i
    BY DropPlaces
  <2>2. PICK l \in DOMAIN E[d] : G[d][j] = E[d][l] /\ l = IF d = b THEN j + 1 ELSE j
    BY DropPlaces
  <2>3. i \in Nat /\ j \in Nat
    BY DEF Logs
  <2>4. c > d \/ (c = d /\ k < l)
    BY <2>1, <2>2, <2>3
  <2> QED BY <1>2, <2>1, <2>2, <2>4 DEF Ordered
<1> QED BY <1>1, <1>2

\* Dropping: what is left, and that what is left is younger than what is gone.
LEMMA DropLogged ==
    ASSUME NEW E \in Logs, NEW G \in Logs, NEW b \in Buffers, Dropped(E, G, b),
           NotTooFar(E), Ordered(E), E[b][1].priority = b
    PROVE  /\ Logged(G) \subseteq Logged(E)
           /\ E[b][1] \in Logged(E)
           /\ \A e \in Logged(E) : e \in Logged(G) \/ e = E[b][1]
           /\ \A e \in Logged(G) : e.priority = b => e.number > E[b][1].number
           /\ \A e \in Logged(E) : e.priority = b => e.number >= E[b][1].number
<1>1. Logged(G) \subseteq Logged(E)
  BY DropPlaces DEF Logged
<1>2. E[b] \in Seq(Entries) /\ E[b] # <<>> /\ 1 \in DOMAIN E[b]
  BY DEF Dropped, Logs
<1>3. E[b][1] \in Logged(E)
  BY <1>2, PlaceLogged
<1>4. ASSUME NEW e \in Logged(E) PROVE e \in Logged(G) \/ e = E[b][1]
  <2>1. PICK c \in Buffers : \E i \in DOMAIN E[c] : e = E[c][i]
    BY LoggedPlace
  <2>2. PICK i \in DOMAIN E[c] : e = E[c][i]
    BY <2>1
  <2>3. CASE c # b
    <3>1. i \in DOMAIN G[c] /\ G[c][i] = e
      BY <2>2, <2>3 DEF Dropped
    <3> QED BY <3>1, PlaceLogged
  <2>4. CASE c = b /\ i # 1
    <3>1. G[b] = Tail(E[b])
      BY DEF Dropped
    <3>2. i \in 2 .. Len(E[b])
      BY <1>2, <2>2, <2>4
    <3>3. i - 1 \in DOMAIN G[b] /\ G[b][i - 1] = E[b][i]
      BY <1>2, <3>1, <3>2
    <3> QED BY <2>2, <2>4, <3>3, PlaceLogged
  <2>5. CASE c = b /\ i = 1
    BY <2>2, <2>5
  <2> QED BY <2>3, <2>4, <2>5
<1>5. ASSUME NEW c \in Buffers, NEW i \in DOMAIN E[c], E[c][i].priority = b, c # b \/ i # 1
      PROVE  E[c][i].number > E[b][1].number
  <2>1. c <= b
    BY <1>5 DEF NotTooFar
  <2>2. i \in Nat /\ 1 <= i
    BY DEF Logs
  <2>3. b > c \/ (b = c /\ 1 < i)
    BY <1>5, <2>1, <2>2, BufferFacts
  <2>4. E[b][1].number < E[c][i].number
    BY <1>2, <1>5, <2>3 DEF Ordered
  <2>5. E[b][1].number \in Nat /\ E[c][i].number \in Nat
    BY <1>2, EntryType
  <2> QED BY <2>4, <2>5
<1>6. ASSUME NEW e \in Logged(G), e.priority = b PROVE e.number > E[b][1].number
  <2>1. PICK c \in Buffers : \E i \in DOMAIN G[c] : e = G[c][i]
    BY LoggedPlace
  <2>2. PICK i \in DOMAIN G[c] : e = G[c][i]
    BY <2>1
  <2>3. PICK k \in DOMAIN E[c] : G[c][i] = E[c][k] /\ k = IF c = b THEN i + 1 ELSE i
    BY DropPlaces
  <2>4. i \in Nat /\ 1 <= i
    BY DEF Logs
  <2>5. c # b \/ k # 1
    BY <2>3, <2>4
  <2> QED BY <1>5, <1>6, <2>2, <2>3, <2>5
<1>7. ASSUME NEW e \in Logged(E), e.priority = b PROVE e.number >= E[b][1].number
  <2>1. CASE e \in Logged(G)
    <3>1. e.number > E[b][1].number
      BY <1>6, <1>7, <2>1
    <3>2. PICK c \in Buffers : \E i \in DOMAIN E[c] : e = E[c][i]
      BY LoggedPlace
    <3>3. e.number \in Nat /\ E[b][1].number \in Nat
      BY <1>2, <3>2, EntryType
    <3> QED BY <3>1, <3>3
  <2>2. CASE e = E[b][1]
    BY <2>2, <1>2, EntryType
  <2> QED BY <1>4, <2>1, <2>2
<1> QED BY <1>1, <1>3, <1>4, <1>6, <1>7

\* Moving: an entry of the new log is at the place it had, one further back, or
\* was the head that is moved.
LEMMA MovePlaces ==
    ASSUME NEW E \in Logs, NEW G \in Logs, NEW b \in Buffers, Moved(E, G, b)
    PROVE  \A c \in Buffers : \A i \in DOMAIN G[c] :
              \/ /\ c = b + 1 /\ i = Len(E[b + 1]) + 1
                 /\ 1 \in DOMAIN E[b] /\ G[c][i] = E[b][1]
              \/ /\ ~(c = b + 1 /\ i = Len(E[b + 1]) + 1)
                 /\ (IF c = b THEN i + 1 ELSE i) \in DOMAIN E[c]
                 /\ G[c][i] = E[c][IF c = b THEN i + 1 ELSE i]
<1> SUFFICES ASSUME NEW c \in Buffers, NEW i \in DOMAIN G[c]
             PROVE  \/ /\ c = b + 1 /\ i = Len(E[b + 1]) + 1
                       /\ 1 \in DOMAIN E[b] /\ G[c][i] = E[b][1]
                    \/ /\ ~(c = b + 1 /\ i = Len(E[b + 1]) + 1)
                       /\ (IF c = b THEN i + 1 ELSE i) \in DOMAIN E[c]
                       /\ G[c][i] = E[c][IF c = b THEN i + 1 ELSE i]
  OBVIOUS
<1>1. /\ E[b] \in Seq(Entries) /\ E[c] \in Seq(Entries) /\ G[c] \in Seq(Entries)
      /\ E[b] # <<>> /\ b \in Nat /\ b + 1 \in Buffers
  BY BufferFacts DEF Logs, Moved
<1>2. CASE c = b
  <2>1. E[c] # <<>> /\ G[c] = Tail(E[c])
    BY <1>2 DEF Moved
  <2>2. i + 1 \in DOMAIN E[c] /\ G[c][i] = E[c][i + 1]
    BY <2>1, <1>1
  <2>3. c # b + 1
    BY <1>1, <1>2
  <2> QED BY <2>2, <2>3, <1>2
<1>3. CASE c = b + 1
  <2>1. G[c] = Append(E[c], E[b][1]) /\ c # b
    BY <1>1, <1>3 DEF Moved
  <2>2. 1 \in DOMAIN E[b]
    BY <1>1
  <2>3. E[b][1] \in Entries
    BY <1>1, <2>2
  <2>4. CASE i = Len(E[c]) + 1
    <3>1. G[c][i] = E[b][1]
      BY <1>1, <2>1, <2>3, <2>4
    <3> QED BY <3>1, <2>2, <2>4, <1>3
  <2>5. CASE i # Len(E[c]) + 1
    <3>1. i \in DOMAIN E[c] /\ G[c][i] = E[c][i]
      BY <1>1, <2>1, <2>3, <2>5
    <3> QED BY <3>1, <2>1, <2>5, <1>3
  <2> QED BY <2>4, <2>5
<1>4. CASE c # b /\ c # b + 1
  BY <1>4 DEF Moved
<1> QED BY <1>2, <1>3, <1>4

LEMMA MoveOrdered ==
    ASSUME NEW E \in Logs, NEW G \in Logs, NEW b \in Buffers, Moved(E, G, b),
           E[b][1].priority > b, NotTooFar(E), Ordered(E)
    PROVE  NotTooFar(G) /\ Ordered(G)
<1>0. b + 1 \in Buffers /\ b \in Nat /\ E[b] \in Seq(Entries) /\ E[b] # <<>> /\ 1 \in DOMAIN E[b]
  BY BufferFacts DEF Moved, Logs
<1>1. ASSUME NEW c \in Buffers, NEW i \in DOMAIN G[c] PROVE G[c][i].priority >= c
  <2>0. c = b + 1 /\ i = Len(E[b + 1]) + 1 => G[c][i] = E[b][1]
    BY MovePlaces
  <2>1. CASE c = b + 1 /\ i = Len(E[b + 1]) + 1
    <3>1. G[c][i] = E[b][1]
      BY <2>0, <2>1
    <3>2. E[b][1].priority \in Nat
      BY <1>0, EntryType
    <3> QED BY <3>1, <3>2, <2>1, <1>0
  <2>2. CASE ~(c = b + 1 /\ i = Len(E[b + 1]) + 1)
    BY <2>2, MovePlaces DEF NotTooFar
  <2> QED BY <2>1, <2>2
<1>2. ASSUME NEW c \in Buffers, NEW d \in Buffers,
             NEW i \in DOMAIN G[c], NEW j \in DOMAIN G[d],
             G[c][i].priority = G[d][j].priority,
             c > d \/ (c = d /\ i < j)
      PROVE  G[c][i].number < G[d][j].number
  <2> DEFINE k == IF c = b THEN i + 1 ELSE i
             l == IF d = b THEN j + 1 ELSE j
  <2>1. i \in Nat /\ j \in Nat /\ c \in Nat /\ d \in Nat /\ 1 <= i /\ 1 <= j
    BY BufferFacts DEF Logs
  <2>2. CASE c = b + 1 /\ i = Len(E[b + 1]) + 1
    <3>1. G[c][i] = E[b][1]
      BY <2>2, MovePlaces
    <3>2. ~(d = b + 1 /\ j = Len(E[b + 1]) + 1)
      BY <1>2, <2>2, <2>1
    <3>3. l \in DOMAIN E[d] /\ G[d][j] = E[d][l]
      BY <3>2, MovePlaces
    <3>4. d <= b
      <4>1. CASE c = d /\ i < j
        <5>1. j \in DOMAIN E[b + 1]
          BY <4>1, <2>2, <3>3, <1>0
        <5>2. j <= Len(E[b + 1])
          BY <5>1, <1>0 DEF Logs
        <5>3. Len(E[b + 1]) \in Nat
          BY <1>0 DEF Logs
        <5> QED BY <4>1, <2>2, <5>2, <5>3, <2>1
      <4>2. CASE c > d
        BY <4>2, <2>2, <2>1, <1>0
      <4> QED BY <1>2, <4>1, <4>2
    <3>5. b > d \/ (b = d /\ 1 < l)
      BY <3>4, <2>1, <1>0
    <3> QED BY <1>0, <1>2, <3>1, <3>3, <3>5 DEF Ordered
  <2>3. CASE ~(c = b + 1 /\ i = Len(E[b + 1]) + 1) /\ d = b + 1 /\ j = Len(E[b + 1]) + 1
    <3>1. G[d][j] = E[b][1]
      BY <2>3, MovePlaces
    <3>2. k \in DOMAIN E[c] /\ G[c][i] = E[c][k]
      BY <2>3, MovePlaces
    <3>3. c > b
      BY <1>2, <2>1, <2>3, <1>0
    <3> QED BY <1>0, <1>2, <3>1, <3>2, <3>3 DEF Ordered
  <2>4. CASE /\ ~(c = b + 1 /\ i = Len(E[b + 1]) + 1)
             /\ ~(d = b + 1 /\ j = Len(E[b + 1]) + 1)
    <3>1. k \in DOMAIN E[c] /\ G[c][i] = E[c][k]
      BY <2>4, MovePlaces
    <3>2. l \in DOMAIN E[d] /\ G[d][j] = E[d][l]
      BY <2>4, MovePlaces
    <3>3. c > d \/ (c = d /\ k < l)
      BY <1>2, <2>1
    <3> HIDE DEF k, l
    <3> QED BY <1>2, <3>1, <3>2, <3>3 DEF Ordered
  <2> QED BY <2>2, <2>3, <2>4
<1>3. NotTooFar(G)
  BY <1>1 DEF NotTooFar
<1>4. Ordered(G)
  BY <1>2 DEF Ordered
<1> QED BY <1>3, <1>4

\* Moving: the same entries as before.
LEMMA MoveLogged ==
    ASSUME NEW E \in Logs, NEW G \in Logs, NEW b \in Buffers, Moved(E, G, b)
    PROVE  Logged(G) = Logged(E)
<1>0. /\ b + 1 \in Buffers /\ b \in Nat /\ E[b] \in Seq(Entries) /\ E[b] # <<>> /\ 1 \in DOMAIN E[b]
      /\ E[b + 1] \in Seq(Entries) /\ E[b][1] \in Entries
  BY BufferFacts DEF Moved, Logs
<1>1. ASSUME NEW e \in Logged(G) PROVE e \in Logged(E)
  <2>1. PICK c \in Buffers : \E i \in DOMAIN G[c] : e = G[c][i]
    BY LoggedPlace
  <2>2. PICK i \in DOMAIN G[c] : e = G[c][i]
    BY <2>1
  <2>3. \E d \in Buffers : \E k \in DOMAIN E[d] : e = E[d][k]
    BY <2>2, MovePlaces
  <2> QED BY <2>3 DEF Logged
<1>2. ASSUME NEW e \in Logged(E) PROVE e \in Logged(G)
  <2>1. PICK c \in Buffers : \E i \in DOMAIN E[c] : e = E[c][i]
    BY LoggedPlace
  <2>2. PICK i \in DOMAIN E[c] : e = E[c][i]
    BY <2>1
  <2>3. CASE c # b /\ c # b + 1
    <3>1. i \in DOMAIN G[c] /\ G[c][i] = e
      BY <2>2, <2>3 DEF Moved
    <3> QED BY <3>1, PlaceLogged
  <2>4. CASE c = b + 1
    <3>1. G[b + 1] = Append(E[b + 1], E[b][1])
      BY DEF Moved
    <3>2. i \in DOMAIN G[b + 1] /\ G[b + 1][i] = e
      BY <1>0, <2>2, <2>4, <3>1
    <3> QED BY <3>2, <1>0, PlaceLogged
  <2>5. CASE c = b /\ i # 1
    <3>1. G[b] = Tail(E[b])
      BY DEF Moved
    <3>2. i \in 2 .. Len(E[b])
      BY <1>0, <2>2, <2>5
    <3>3. i - 1 \in DOMAIN G[b] /\ G[b][i - 1] = E[b][i]
      BY <1>0, <3>1, <3>2
    <3> QED BY <2>2, <2>5, <3>3, PlaceLogged
  <2>6. CASE c = b /\ i = 1
    <3>1. G[b + 1] = Append(E[b + 1], E[b][1])
      BY DEF Moved
    <3>2. Len(E[b + 1]) + 1 \in DOMAIN G[b + 1] /\ G[b + 1][Len(E[b + 1]) + 1] = E[b][1]
      BY <1>0, <3>1
    <3> QED BY <2>2, <2>6, <3>2, <1>0, PlaceLogged
  <2> QED BY <2>3, <2>4, <2>5, <2>6
<1> QED BY <1>1, <1>2

\* Writing: one entry more, which is the last of all.
LEMMA WritePlaces ==
    ASSUME NEW E \in Logs, NEW G \in Logs, NEW e \in Entries, Written(E, G, e)
    PROVE  \A c \in Buffers : \A i \in DOMAIN G[c] :
              \/ c = 1 /\ i = Len(E[1]) + 1 /\ G[c][i] = e
              \/ ~(c = 1 /\ i = Len(E[1]) + 1) /\ i \in DOMAIN E[c] /\ G[c][i] = E[c][i]
<1> SUFFICES ASSUME NEW c \in Buffers, NEW i \in DOMAIN G[c]
             PROVE  \/ c = 1 /\ i = Len(E[1]) + 1 /\ G[c][i] = e
                    \/ ~(c = 1 /\ i = Len(E[1]) + 1) /\ i \in DOMAIN E[c] /\ G[c][i] = E[c][i]
  OBVIOUS
<1>1. E[c] \in Seq(Entries) /\ G[c] \in Seq(Entries)
  BY DEF Logs
<1>2. CASE c = 1
  <2>1. G[c] = Append(E[c], e)
    BY <1>2 DEF Written
  <2>2. CASE i = Len(E[c]) + 1
    BY <1>1, <1>2, <2>1, <2>2
  <2>3. CASE i # Len(E[c]) + 1
    <3>1. i \in DOMAIN E[c] /\ G[c][i] = E[c][i]
      BY <1>1, <2>1, <2>3
    <3> QED BY <3>1, <2>3, <1>2
  <2> QED BY <2>2, <2>3
<1>3. CASE c # 1
  BY <1>3 DEF Written
<1> QED BY <1>2, <1>3

LEMMA WriteOrdered ==
    ASSUME NEW E \in Logs, NEW G \in Logs, NEW e \in Entries, Written(E, G, e),
           NotTooFar(E), Ordered(E),
           \A d \in Logged(E) : d.priority = e.priority => d.number < e.number
    PROVE  NotTooFar(G) /\ Ordered(G)
<1>1. ASSUME NEW c \in Buffers, NEW i \in DOMAIN G[c] PROVE G[c][i].priority >= c
  <2>1. CASE c = 1 /\ i = Len(E[1]) + 1
    <3>1. G[c][i] = e /\ e.priority \in Priorities
      BY <2>1, WritePlaces DEF Entries
    <3> QED BY <3>1, <2>1, CapacityAssumption DEF Priorities
  <2>2. CASE ~(c = 1 /\ i = Len(E[1]) + 1)
    BY <2>2, WritePlaces DEF NotTooFar
  <2> QED BY <2>1, <2>2
<1>2. ASSUME NEW c \in Buffers, NEW d \in Buffers,
             NEW i \in DOMAIN G[c], NEW j \in DOMAIN G[d],
             G[c][i].priority = G[d][j].priority,
             c > d \/ (c = d /\ i < j)
      PROVE  G[c][i].number < G[d][j].number
  <2>1. /\ i \in Nat /\ j \in Nat /\ c \in Nat /\ d \in Nat /\ 1 <= d
        /\ Len(E[1]) \in Nat /\ 1 \in Buffers
    BY BufferFacts DEF Logs
  <2>2. ~(c = 1 /\ i = Len(E[1]) + 1)
    <3> SUFFICES ASSUME c = 1, i = Len(E[1]) + 1 PROVE FALSE
      OBVIOUS
    <3>1. d = 1 /\ j > Len(E[1]) + 1
      BY <1>2, <2>1
    <3>2. j \in DOMAIN E[1]
      BY <3>1, <2>1, WritePlaces
    <3>3. j <= Len(E[1])
      BY <3>2, <2>1 DEF Logs
    <3> QED BY <3>1, <3>3, <2>1
  <2>3. i \in DOMAIN E[c] /\ G[c][i] = E[c][i]
    BY <2>2, WritePlaces
  <2>4. CASE d = 1 /\ j = Len(E[1]) + 1
    <3>1. G[d][j] = e
      BY <2>4, WritePlaces
    <3>2. E[c][i] \in Logged(E)
      BY <2>3, PlaceLogged
    <3> QED BY <1>2, <2>3, <3>1, <3>2
  <2>5. CASE ~(d = 1 /\ j = Len(E[1]) + 1)
    <3>1. j \in DOMAIN E[d] /\ G[d][j] = E[d][j]
      BY <2>5, WritePlaces
    <3> QED BY <1>2, <2>3, <3>1 DEF Ordered
  <2> QED BY <2>4, <2>5
<1>3. NotTooFar(G)
  BY <1>1 DEF NotTooFar
<1>4. Ordered(G)
  BY <1>2 DEF Ordered
<1> QED BY <1>3, <1>4

LEMMA WriteLogged ==
    ASSUME NEW E \in Logs, NEW G \in Logs, NEW e \in Entries, Written(E, G, e)
    PROVE  Logged(G) = Logged(E) \cup {e}
<1>1. ASSUME NEW x \in Logged(G) PROVE x \in Logged(E) \cup {e}
  <2>1. PICK c \in Buffers : \E i \in DOMAIN G[c] : x = G[c][i]
    BY LoggedPlace
  <2>2. PICK i \in DOMAIN G[c] : x = G[c][i]
    BY <2>1
  <2> QED BY <2>2, WritePlaces, PlaceLogged
<1>2. ASSUME NEW x \in Logged(E) PROVE x \in Logged(G)
  <2>1. PICK c \in Buffers : \E i \in DOMAIN E[c] : x = E[c][i]
    BY LoggedPlace
  <2>2. PICK i \in DOMAIN E[c] : x = E[c][i]
    BY <2>1
  <2>3. i \in DOMAIN G[c] /\ G[c][i] = x
    BY <2>2, BufferFacts DEF Written, Logs
  <2> QED BY <2>3, PlaceLogged
<1>3. e \in Logged(G)
  <2>1. 1 \in Buffers /\ E[1] \in Seq(Entries) /\ G[1] = Append(E[1], e)
    BY BufferFacts DEF Written, Logs
  <2>2. Len(E[1]) + 1 \in DOMAIN G[1] /\ G[1][Len(E[1]) + 1] = e
    BY <2>1
  <2> QED BY <2>1, <2>2, PlaceLogged
<1> QED BY <1>1, <1>2, <1>3

-----------------------------------------------------------------------------
(* Numbers and times.  S holds the entries before a step, T those after.   *)

LEMMA NumberType ==
    ASSUME NEW S \in SUBSET Entries, NEW e \in S
    PROVE  /\ e.number \in Nat /\ e.number >= 1 /\ e.priority \in Buffers
           /\ e.time \in Nat /\ e.delta \in Nat
<1>1. e \in Entries
  OBVIOUS
<1>2. /\ e.number \in 1 .. MaxTime /\ e.priority \in Priorities
      /\ e.time \in 1 .. MaxTime /\ e.delta \in 0 .. MaxTime
  BY <1>1 DEF Entries
<1> QED BY <1>2, CapacityAssumption DEF Priorities, Buffers

\* T is S without h, the oldest entry of priority b.
WithoutOldest(S, T, h, b) ==
    /\ h \in S /\ h.priority = b
    /\ \A e \in S : e \in T \/ e = h
    /\ \A e \in T : e.priority = b => e.number > h.number
    /\ \A e \in S : e.priority = b => e.number >= h.number

\* G is F but for the value v at b.
ChangedAt(F, G, b, v) == G[b] = v /\ \A c \in Buffers : c # b => G[c] = F[c]

\* The entry that is dropped was the first of its priority.
LEMMA DropNumbered ==
    ASSUME NEW S \in SUBSET Entries, NEW T \in SUBSET S, NEW h, NEW b \in Buffers,
           NEW F \in [Buffers -> Nat], NEW H \in [Buffers -> Nat], NEW L \in [Buffers -> Nat],
           WithoutOldest(S, T, h, b), ChangedAt(F, H, b, F[b] + 1), Numbered(S, F, L)
    PROVE  Numbered(T, H, L) /\ h.number = F[b] /\ F[b] <= L[b]
<1> USE DEF WithoutOldest, ChangedAt
<1>1. h.number \in F[b] .. L[b] /\ h.number \in Nat /\ F[b] \in Nat /\ L[b] \in Nat
  BY NumberType DEF Numbered
<1>2. h.number = F[b] /\ F[b] <= L[b]
  <2>1. F[b] \in F[b] .. L[b]
    BY <1>1
  <2>2. b \in Priorities
    BY DEF Priorities, Buffers
  <2>3. PICK e \in S : e.priority = b /\ e.number = F[b]
    BY <2>1, <2>2 DEF Numbered
  <2>4. F[b] >= h.number
    BY <2>3
  <2> QED BY <1>1, <2>4
<1>3. ASSUME NEW e \in T PROVE e.number \in H[e.priority] .. L[e.priority]
  <2>1. e \in S /\ e.number \in F[e.priority] .. L[e.priority] /\ e.priority \in Buffers /\ e.number \in Nat
    BY NumberType DEF Numbered
  <2>2. CASE e.priority = b
    <3>1. e.number > F[b] /\ e.number <= L[b]
      BY <2>1, <2>2, <1>1, <1>2
    <3> QED BY <3>1, <2>1, <2>2, <1>1
  <2>3. CASE e.priority # b
    BY <2>1, <2>3
  <2> QED BY <2>2, <2>3
<1>4. ASSUME NEW p \in Priorities, NEW n \in H[p] .. L[p]
      PROVE  \E e \in T : e.priority = p /\ e.number = n
  <2>1. p \in Buffers /\ F[p] \in Nat /\ H[p] \in Nat /\ L[p] \in Nat
    BY DEF Priorities, Buffers
  <2>2. n \in F[p] .. L[p] /\ (p = b => n # F[b])
    <3>1. CASE p = b
      BY <3>1, <2>1
    <3>2. CASE p # b
      BY <3>2, <2>1
    <3> QED BY <3>1, <3>2
  <2>3. PICK e \in S : e.priority = p /\ e.number = n
    BY <2>2 DEF Numbered
  <2>4. e # h
    BY <2>2, <2>3, <1>2
  <2> QED BY <2>3, <2>4
<1> QED BY <1>2, <1>3, <1>4 DEF Numbered

LEMMA DropTimed ==
    ASSUME NEW S \in SUBSET Entries, NEW T \in SUBSET S, NEW b \in Buffers,
           NEW F \in [Buffers -> Nat], NEW H \in [Buffers -> Nat], NEW L \in [Buffers -> Nat],
           NEW X \in [Buffers -> Nat], NEW Y \in [Buffers -> Nat], NEW Z \in [Buffers -> Nat],
           NEW t \in Nat, H[b] # 1, ChangedAt(F, H, b, H[b]), ChangedAt(Y, Z, b, Z[b]),
           NotTooLong(S, X, t), Chained(S, F, L, X, Y)
    PROVE  NotTooLong(T, X, t) /\ Chained(T, H, L, X, Z)
<1> USE DEF ChangedAt
<1>1. NotTooLong(T, X, t)
  BY DEF NotTooLong
<1>2. \A e \in T : e \in S /\ e.priority \in Buffers
  BY NumberType
<1>3. \A p \in Priorities : p \in Buffers
  BY DEF Priorities, Buffers
<1>4. \A e \in T : H[e.priority] = 1 => e.priority # b /\ F[e.priority] = 1 /\ Z[e.priority] = Y[e.priority]
  BY <1>2
<1>5. \A p \in Priorities : H[p] = 1 => F[p] = 1 /\ Z[p] = Y[p]
  BY <1>3
<1> QED BY <1>1, <1>2, <1>4, <1>5 DEF Chained

\* A new entry carries the next number of its priority.
LEMMA WriteNumbered ==
    ASSUME NEW S \in SUBSET Entries, NEW e \in Entries, NEW T, T = S \cup {e},
           NEW F \in [Buffers -> Nat], NEW L \in [Buffers -> Nat], NEW K \in [Buffers -> Nat],
           NEW p \in Buffers, e.priority = p, e.number = L[p] + 1, F[p] <= L[p] + 1,
           ChangedAt(L, K, p, L[p] + 1), Numbered(S, F, L)
    PROVE  Numbered(T, F, K)
<1> USE DEF ChangedAt
<1>1. ASSUME NEW d \in T PROVE d.number \in F[d.priority] .. K[d.priority]
  <2>1. CASE d = e
    BY <2>1
  <2>2. CASE d \in S
    <3>1. d.number \in F[d.priority] .. L[d.priority] /\ d.priority \in Buffers
      BY <2>2, NumberType DEF Numbered
    <3>2. L[d.priority] \in Nat /\ K[d.priority] \in Nat /\ K[d.priority] >= L[d.priority] /\ F[d.priority] \in Nat
      BY <3>1
    <3> QED BY <3>1, <3>2
  <2> QED BY <2>1, <2>2
<1>2. ASSUME NEW q \in Priorities, NEW n \in F[q] .. K[q]
      PROVE  \E d \in T : d.priority = q /\ d.number = n
  <2>1. q \in Buffers /\ F[q] \in Nat /\ K[q] \in Nat /\ L[q] \in Nat
    BY DEF Priorities, Buffers
  <2>2. CASE q = p /\ n = L[p] + 1
    BY <2>2
  <2>3. CASE ~(q = p /\ n = L[p] + 1)
    <3>1. n \in F[q] .. L[q]
      <4>1. CASE q = p
        BY <4>1, <2>1, <2>3
      <4>2. CASE q # p
        BY <4>2, <2>1
      <4> QED BY <4>1, <4>2
    <3>2. PICK d \in S : d.priority = q /\ d.number = n
      BY <3>1 DEF Numbered
    <3> QED BY <3>2
  <2> QED BY <2>2, <2>3
<1> QED BY <1>1, <1>2 DEF Numbered

LEMMA WriteTimed ==
    ASSUME NEW S \in SUBSET Entries, NEW e \in Entries, NEW T, T = S \cup {e},
           NEW F \in [Buffers -> Nat], NEW L \in [Buffers -> Nat], NEW K \in [Buffers -> Nat],
           NEW X \in [Buffers -> Nat], NEW Y \in [Buffers -> Nat], NEW Z \in [Buffers -> Nat],
           NEW p \in Buffers, e.priority = p, e.number = L[p] + 1,
           ChangedAt(L, K, p, L[p] + 1),
           NEW t \in Nat, e.time = t, ChangedAt(Y, Z, p, t),
           X[p] + e.delta <= t, F[p] = 1 => Y[p] + e.delta = t,
           Numbered(S, F, L), NotTooLong(S, X, t), Chained(S, F, L, X, Y)
    PROVE  NotTooLong(T, X, t + 1) /\ Chained(T, F, K, X, Z)
<1> USE DEF ChangedAt
<1>0. /\ \A d \in S : d.number \in Nat /\ d.number >= 1 /\ d.priority \in Buffers /\ d.time \in Nat
      /\ L[p] \in Nat /\ X[p] \in Nat /\ Y[p] \in Nat /\ e.delta \in Nat
  BY NumberType
<1>1. NotTooLong(T, X, t + 1)
  <2> SUFFICES ASSUME NEW d \in T PROVE d.time <= t + 1 /\ X[d.priority] + d.delta <= d.time
    BY DEF NotTooLong
  <2>1. CASE d = e
    BY <2>1
  <2>2. CASE d \in S
    BY <2>2, <1>0 DEF NotTooLong
  <2> QED BY <2>1, <2>2
<1>2. ASSUME NEW d \in S, d.priority = p PROVE d.number <= L[p]
  <2>1. d.number \in F[p] .. L[p]
    BY <1>2 DEF Numbered
  <2> QED BY <2>1, <1>0
<1>3. ASSUME NEW d \in T, F[d.priority] = 1
      PROVE  /\ d.number = 1 => d.time = X[d.priority] + d.delta
             /\ d.number = K[d.priority] => d.time = Z[d.priority]
  <2>1. CASE d = e
    <3>1. d.number = 1 => L[p] = 0
      BY <2>1, <1>0
    <3>2. L[p] = 0 /\ F[p] = 1 => Y[p] = X[p]
      BY DEF Chained, Priorities, Buffers
    <3> QED BY <2>1, <3>1, <3>2, <1>3
  <2>2. CASE d \in S /\ d.priority = p
    <3>1. d.number # K[p]
      BY <1>0, <1>2, <2>2
    <3> QED BY <3>1, <2>2, <1>3 DEF Chained
  <2>3. CASE d \in S /\ d.priority # p
    BY <2>3, <1>0, <1>3 DEF Chained
  <2> QED BY <2>1, <2>2, <2>3
<1>4. ASSUME NEW d \in T, NEW f \in T, F[f.priority] = 1, d.priority = f.priority, f.number = d.number + 1
      PROVE  f.time = d.time + f.delta
  <2>1. CASE d \in S /\ f \in S
    BY <1>4, <2>1 DEF Chained
  <2>2. CASE d \in S /\ f = e
    <3>1. d.number = L[p] /\ d.priority = p
      BY <1>0, <1>4, <2>2
    <3>2. d.time = Y[p]
      BY <3>1, <2>2, <1>4 DEF Chained
    <3> QED BY <3>2, <2>2, <1>4
  <2>3. CASE d = e
    <3>1. f.number = L[p] + 2 /\ f.priority = p
      BY <1>0, <1>4, <2>3
    <3>2. f \in S => f.number <= L[p]
      BY <1>2, <3>1
    <3> QED BY <3>1, <3>2, <1>0
  <2> QED BY <2>1, <2>2, <2>3
<1>5. ASSUME NEW q \in Priorities, F[q] = 1, K[q] = 0 PROVE Z[q] = X[q]
  <2>1. q \in Buffers /\ q # p
    BY <1>5, <1>0 DEF Priorities, Buffers
  <2> QED BY <2>1, <1>5 DEF Chained
<1>6. Chained(T, F, K, X, Z)
  BY <1>3, <1>4, <1>5 DEF Chained
<1> QED BY <1>1, <1>6

\* The first time of a priority is set while there is no event of it.
LEMMA FirstTimed ==
    ASSUME NEW S \in SUBSET Entries, NEW p \in Buffers,
           NEW F \in [Buffers -> Nat], NEW L \in [Buffers -> Nat],
           NEW X \in [Buffers -> Nat], NEW Y \in [Buffers -> Nat],
           NEW V \in [Buffers -> Nat], NEW W \in [Buffers -> Nat],
           NEW t \in Nat, NEW u \in Nat, t <= u,
           F[p] >= 1, L[p] = 0, ChangedAt(X, V, p, W[p]), ChangedAt(Y, W, p, W[p]),
           Numbered(S, F, L), NotTooLong(S, X, t), Chained(S, F, L, X, Y)
    PROVE  NotTooLong(S, V, u) /\ Chained(S, F, L, V, W)
<1> USE DEF ChangedAt
<1>1. ASSUME NEW e \in S PROVE e.priority # p
  <2>1. e.number \in F[e.priority] .. L[e.priority] /\ e.number \in Nat
    BY NumberType DEF Numbered
  <2> QED BY <2>1
<1>2. \A e \in S : e.priority \in Buffers /\ V[e.priority] = X[e.priority] /\ W[e.priority] = Y[e.priority]
                   /\ e.time \in Nat
  BY <1>1, NumberType
<1>3. NotTooLong(S, V, u)
  <2> SUFFICES ASSUME NEW e \in S PROVE e.time <= u /\ V[e.priority] + e.delta <= e.time
    BY DEF NotTooLong
  <2>1. e.time <= t /\ X[e.priority] + e.delta <= e.time
    BY DEF NotTooLong
  <2> QED BY <2>1, <1>2
<1>4. \A q \in Priorities : F[q] = 1 /\ L[q] = 0 => W[q] = V[q]
  <2> SUFFICES ASSUME NEW q \in Priorities, F[q] = 1, L[q] = 0 PROVE W[q] = V[q]
    OBVIOUS
  <2>1. q \in Buffers /\ Y[q] = X[q]
    BY DEF Priorities, Buffers, Chained
  <2> QED BY <2>1
<1>5. Chained(S, F, L, V, W)
  BY <1>2, <1>4 DEF Chained
<1> QED BY <1>3, <1>5

-----------------------------------------------------------------------------
(* States.                                                                 *)

\* The fields of a buffer.
LEMMA FieldTypes ==
    ASSUME NEW r \in CircularEventBuffers
    PROVE  /\ r.events \in Seq(Entries)
           /\ r.mFirstEventNumber \in 1 .. MaxTime + 1
           /\ r.mLastEventNumber \in 0 .. MaxTime
           /\ r.counter \in 1 .. MaxTime + 1
           /\ r.mFirstEventSystemTimestamp \in 0 .. MaxTime
           /\ r.mLastEventSystemTimestamp \in 0 .. MaxTime
           /\ r.mRequiredSpaceForEvicted \in Sizes \cup {0}
BY DEF CircularEventBuffers

\* What the functions of a state are.
LEMMA StateTypes ==
    ASSUME TypeOK
    PROVE  /\ Log \in Logs /\ Logged(Log) \in SUBSET Entries
           /\ Firsts \in [Buffers -> Nat] /\ Lasts \in [Buffers -> Nat]
           /\ FirstTimes \in [Buffers -> Nat] /\ LastTimes \in [Buffers -> Nat]
           /\ now \in Nat
<1>1. \A b \in Buffers : buffer[b] \in CircularEventBuffers
  BY DEF TypeOK
<1>2. Log \in Logs
  BY <1>1, FieldTypes DEF Log, Logs
<1>3. Logged(Log) \in SUBSET Entries
  BY <1>2, EntryType DEF Logged
<1>4. /\ Firsts \in [Buffers -> Nat] /\ Lasts \in [Buffers -> Nat]
      /\ FirstTimes \in [Buffers -> Nat] /\ LastTimes \in [Buffers -> Nat]
  BY <1>1, FieldTypes, CapacityAssumption DEF Firsts, Lasts, FirstTimes, LastTimes
<1> QED BY <1>2, <1>3, <1>4, CapacityAssumption DEF TypeOK

LEMMA CallTypes ==
    ASSUME TypeOK, call.eventBuffer # 0
    PROVE  /\ call # NoCall /\ call \in Calls
           /\ call.priority \in Priorities /\ call.size \in Sizes /\ call.delta \in 0 .. MaxTime
           /\ call.eventBuffer \in Buffers /\ call.requiredSpace \in Sizes
<1>1. call # NoCall
  BY DEF NoCall
<1>2. call \in Calls
  BY <1>1 DEF TypeOK
<1> QED BY <1>1, <1>2 DEF Calls

\* A buffer that is too full for an event is not empty.
LEMMA FullNotEmpty ==
    ASSUME TypeOK, NEW b \in Buffers, MakingRoom(b)
    PROVE  /\ buffer[b].events \in Seq(Entries) /\ buffer[b].events # <<>>
           /\ Head(buffer[b].events) = buffer[b].events[1]
           /\ Head(buffer[b].events) \in Entries
           /\ call # NoCall /\ call \in Calls /\ call.eventBuffer = b /\ call.requiredSpace \in Sizes
<1>1. buffer[b] \in CircularEventBuffers /\ call.eventBuffer = b /\ b # 0
  BY BufferFacts DEF TypeOK, MakingRoom
<1>2. call # NoCall /\ call \in Calls /\ call.requiredSpace \in Sizes
  BY <1>1, CallTypes
<1>3. buffer[b].events \in Seq(Entries)
  BY <1>1, FieldTypes
<1>4. buffer[b].events # <<>>
  <2> SUFFICES ASSUME buffer[b].events = <<>> PROVE FALSE
    OBVIOUS
  <2>1. AvailableDataLength(b) = Capacity[b]
    <3>1. Capacity[b] \in Nat
      BY CapacityAssumption
    <3> QED BY <3>1, EmptyLength DEF AvailableDataLength
  <2>2. call.requiredSpace <= Capacity[b]
    BY <1>2, CapacityAssumption
  <2> QED BY <2>1, <2>2 DEF MakingRoom, HasRoom
<1> QED BY <1>1, <1>2, <1>3, <1>4

-----------------------------------------------------------------------------
(* One lemma for each action.                                              *)

LEMMA DropBuffers ==
    ASSUME IInv, NEW b \in Buffers, DropHead(b)
    PROVE  /\ buffer' \in [Buffers -> CircularEventBuffers]
           /\ \A c \in Buffers : c # b => buffer'[c] = buffer[c]
           /\ buffer'[b].events = Tail(buffer[b].events)
           /\ buffer'[b].mFirstEventNumber = buffer[b].mFirstEventNumber + 1
           /\ buffer'[b].mLastEventNumber = buffer[b].mLastEventNumber
           /\ buffer'[b].counter = buffer[b].counter
           /\ buffer'[b].mFirstEventSystemTimestamp = buffer[b].mFirstEventSystemTimestamp
           /\ buffer'[b].mLastEventSystemTimestamp =
                 buffer[b].mFirstEventSystemTimestamp + buffer[b].events[1].delta
           /\ buffer'[b].mRequiredSpaceForEvicted = buffer[b].mRequiredSpaceForEvicted
           /\ buffer[b].events # <<>>
           /\ buffer[b].events[1].priority = b
           /\ buffer[b].mFirstEventNumber <= buffer[b].mLastEventNumber
           /\ LogOK'
<1>1. PICK s \in Seq(Entries) : s = buffer[b].events
  BY FullNotEmpty DEF IInv, DropHead
<1>2. PICK h \in Entries : h = s[1]
  BY <1>1, FullNotEmpty DEF IInv, DropHead
<1>3. s # <<>> /\ Head(buffer[b].events) = h /\ 1 \in DOMAIN s
  BY <1>1, <1>2, FullNotEmpty DEF IInv, DropHead
<1>4. PICK E : E = Log
  OBVIOUS
<1>5. E \in Logs /\ E[b] = s /\ NotTooFar(E) /\ Ordered(E)
  BY <1>1, <1>4, StateTypes DEF IInv, LogOK, Log
<1>6. h.priority \in Priorities /\ h.priority = b
  <2>1. h.priority \in Priorities /\ h.priority \in Nat
    BY BufferFacts DEF Entries, Priorities
  <2>2. h.priority >= b
    BY <1>2, <1>3, <1>5 DEF NotTooFar
  <2>3. b >= h.priority \/ b = NumBuffers
    BY <1>3, <2>1, PriorityBuffer DEF DropHead
  <2>4. b \in Nat /\ h.priority <= NumBuffers
    BY <2>1, BufferFacts DEF Priorities
  <2> QED BY <2>1, <2>2, <2>3, <2>4
<1>7. PICK G : G = [E EXCEPT ![b] = Tail(s)]
  OBVIOUS
<1>8. Tail(s) \in Seq(Entries)
  BY <1>3
<1>9. G \in Logs /\ Dropped(E, G, b)
  BY <1>3, <1>5, <1>7, <1>8 DEF Logs, Dropped
<1>10. PICK S, T : S = Logged(E) /\ T = Logged(G)
  OBVIOUS
<1>11. PICK F, H, L, X, Y, t : F = Firsts /\ H = [Firsts EXCEPT ![b] = F[b] + 1] /\ L = Lasts
                               /\ X = FirstTimes /\ Y = LastTimes /\ t = now
  OBVIOUS
<1>12. /\ F \in [Buffers -> Nat] /\ L \in [Buffers -> Nat] /\ X \in [Buffers -> Nat]
       /\ Y \in [Buffers -> Nat] /\ t \in Nat /\ S \in SUBSET Entries
  BY <1>4, <1>10, <1>11, StateTypes DEF IInv
<1>13. H \in [Buffers -> Nat] /\ H[b] = F[b] + 1 /\ ChangedAt(F, H, b, F[b] + 1)
  BY <1>11, <1>12 DEF ChangedAt
<1>14. T \in SUBSET S /\ h \in S /\ WithoutOldest(S, T, h, b)
  BY <1>2, <1>5, <1>6, <1>9, <1>10, DropLogged DEF WithoutOldest
<1>15. Numbered(S, F, L) /\ NotTooLong(S, X, t) /\ Chained(S, F, L, X, Y)
  BY <1>4, <1>10, <1>11 DEF IInv, LogOK
<1>16. Numbered(T, H, L) /\ h.number = F[b] /\ F[b] <= L[b]
  BY <1>12, <1>13, <1>14, <1>15, DropNumbered
<1>17. PICK z : z = X[b] + h.delta
  OBVIOUS
<1>18. z \in Nat /\ z <= h.time /\ h.time \in 1 .. MaxTime
  <2>1. h.delta \in Nat /\ X[b] \in Nat /\ h.time \in 1 .. MaxTime
    BY <1>12, CapacityAssumption DEF Entries
  <2>2. X[b] + h.delta <= h.time
    BY <1>6, <1>14, <1>15 DEF NotTooLong
  <2> QED BY <2>1, <2>2, <1>17
<1>19. PICK Z : Z = [Y EXCEPT ![b] = z]
  OBVIOUS
<1>20. Z \in [Buffers -> Nat] /\ Z[b] = z /\ ChangedAt(Y, Z, b, Z[b])
  BY <1>12, <1>18, <1>19 DEF ChangedAt
<1>21. H[b] # 1
  <2>1. h.number >= 1 /\ F[b] \in Nat
    BY <1>12, <1>14, NumberType
  <2> QED BY <2>1, <1>13, <1>16
<1>22. NotTooLong(T, X, t) /\ Chained(T, H, L, X, Z)
  <2>1. ChangedAt(F, H, b, H[b])
    BY <1>13 DEF ChangedAt
  <2> QED BY <2>1, <1>12, <1>13, <1>14, <1>15, <1>20, <1>21, DropTimed
<1>23. NotTooFar(G) /\ Ordered(G)
  BY <1>5, <1>9, DropOrdered
<1>24. PICK r \in CircularEventBuffers : r = buffer[b]
  BY DEF IInv, TypeOK
<1>25. PICK n : n = r.mFirstEventNumber + 1
  OBVIOUS
<1>26. PICK q \in Seq(Entries) : q = Tail(s)
  BY <1>8
<1>27. n \in 1 .. MaxTime + 1 /\ r.mFirstEventNumber = F[b] /\ r.mLastEventNumber = L[b] /\ r.mFirstEventNumber <= r.mLastEventNumber
  <2>1. r.mFirstEventNumber = F[b] /\ r.mLastEventNumber = L[b]
    BY <1>11, <1>24 DEF Firsts, Lasts
  <2>2. r.mFirstEventNumber \in 1 .. MaxTime + 1 /\ r.mLastEventNumber \in 0 .. MaxTime
    BY FieldTypes
  <2> QED BY <2>1, <2>2, <1>16, <1>25, CapacityAssumption
<1>28. z \in 0 .. MaxTime
  BY <1>18, CapacityAssumption
<1>29. PICK x : x = [r EXCEPT !.events = q, !.mFirstEventNumber = n, !.mLastEventSystemTimestamp = z]
  OBVIOUS
<1>30. x \in CircularEventBuffers
  BY <1>27, <1>28, <1>29 DEF CircularEventBuffers
<1>31. /\ x.events = q /\ x.mFirstEventNumber = n /\ x.mLastEventSystemTimestamp = z
       /\ x.mLastEventNumber = r.mLastEventNumber /\ x.counter = r.counter
       /\ x.mFirstEventSystemTimestamp = r.mFirstEventSystemTimestamp
       /\ x.mRequiredSpaceForEvicted = r.mRequiredSpaceForEvicted
  BY <1>29 DEF CircularEventBuffers
<1>32. buffer' = [buffer EXCEPT ![b] = x]
  <2>1. /\ buffer' = EvictEvent(b) /\ buffer \in [Buffers -> CircularEventBuffers]
        /\ buffer[b].mFirstEventSystemTimestamp = X[b]
    BY <1>11 DEF DropHead, IInv, TypeOK, FirstTimes
  <2> QED BY <2>1, <1>1, <1>3, <1>17, <1>24, <1>25, <1>26, <1>29 DEF EvictEvent
<1>33. buffer' \in [Buffers -> CircularEventBuffers] /\ buffer'[b] = x /\ \A c \in Buffers : c # b => buffer'[c] = buffer[c]
  BY <1>30, <1>32 DEF IInv, TypeOK
<1>34. Log' = G
  BY <1>4, <1>5, <1>7, <1>26, <1>31, <1>33 DEF Log
<1>35. Firsts' = H
  BY <1>11, <1>25, <1>27, <1>31, <1>33 DEF Firsts
<1>36. Lasts' = L
  BY <1>11, <1>24, <1>31, <1>33 DEF Lasts
<1>37. FirstTimes' = X
  BY <1>11, <1>24, <1>31, <1>33 DEF FirstTimes
<1>38. LastTimes' = Z
  BY <1>11, <1>19, <1>31, <1>33 DEF LastTimes
<1>39. now' = t
  BY <1>11 DEF DropHead
<1>40. LogOK'
  BY <1>10, <1>16, <1>22, <1>23, <1>34, <1>35, <1>36, <1>37, <1>38, <1>39 DEF LogOK
<1>41. X[b] = buffer[b].mFirstEventSystemTimestamp
  BY <1>11 DEF FirstTimes
<1> QED BY <1>1, <1>2, <1>3, <1>6, <1>17, <1>24, <1>25, <1>26, <1>27, <1>31, <1>33, <1>40, <1>41

\* A call goes on while the buffers above the one it works on do not change.
LEMMA CallKept ==
    ASSUME IInv, NEW b \in Buffers, call.eventBuffer = b, call' = call, now' = now,
           \A c \in Buffers : c < b => buffer'[c] = buffer[c],
           \A c \in Buffers :
              /\ buffer'[c].mFirstEventSystemTimestamp = buffer[c].mFirstEventSystemTimestamp
              /\ buffer'[c].mFirstEventNumber = 1 =>
                    /\ buffer[c].mFirstEventNumber = 1
                    /\ buffer'[c].mLastEventSystemTimestamp = buffer[c].mLastEventSystemTimestamp
    PROVE  CallOK'
<1>1. b \in Nat /\ 1 <= b /\ b <= NumBuffers /\ NumBuffers \in Nat
  BY BufferFacts
<1>2. CallOK /\ call # NoCall /\ call.priority \in Buffers
  BY <1>1, CallTypes DEF IInv, Priorities, Buffers
<1>3. \A c \in 1 .. b - 1 : c \in Buffers /\ buffer'[c] = buffer[c]
  BY <1>1 DEF Buffers
<1>4. \A c \in 1 .. b : Waiting(c)' = Waiting(c)
  <2> SUFFICES ASSUME NEW c \in 1 .. b PROVE Waiting(c)' = Waiting(c)
    OBVIOUS
  <2>1. CASE c = 1
    BY <2>1 DEF Waiting
  <2>2. CASE c # 1
    <3>1. c - 1 \in 1 .. b - 1
      BY <2>2, <1>1
    <3> QED BY <3>1, <2>2, <1>3 DEF Waiting
  <2> QED BY <2>1, <2>2
<1>5. ASSUME NEW c \in 1 .. b - 1
      PROVE  /\ buffer'[c].events # <<>>
             /\ Head(buffer'[c].events).priority > c
             /\ buffer'[c].mRequiredSpaceForEvicted = Waiting(c)'.size
  <2>1. c \in 1 .. b /\ Waiting(c)' = Waiting(c)
    BY <1>1, <1>4
  <2>2. /\ buffer[c].events # <<>>
        /\ Head(buffer[c].events).priority > c
        /\ buffer[c].mRequiredSpaceForEvicted = Waiting(c).size
    BY <1>2 DEF CallOK
  <2> QED BY <2>1, <2>2, <1>3
<1>6. (call.requiredSpace = Waiting(call.eventBuffer).size)'
  <2>1. b \in 1 .. b
    BY <1>1
  <2>2. call.requiredSpace = Waiting(b).size
    BY <1>2 DEF CallOK
  <2>3. call.requiredSpace = Waiting(b)'.size
    BY <2>1, <2>2, <1>4
  <2> QED BY <2>3 DEF Waiting
<1>7. /\ now' <= MaxTime
      /\ FirstTimes'[call'.priority] # 0
      /\ FirstTimes'[call'.priority] + call'.delta <= now'
      /\ Firsts'[call'.priority] = 1 => LastTimes'[call'.priority] + call'.delta = now'
  BY <1>2 DEF CallOK, FirstTimes, Firsts, LastTimes
<1>8. \A c \in 1 .. call'.eventBuffer - 1 :
         /\ buffer'[c].events # <<>>
         /\ Head(buffer'[c].events).priority > c
         /\ buffer'[c].mRequiredSpaceForEvicted = Waiting(c)'.size
  BY <1>5
<1> QED BY <1>6, <1>7, <1>8 DEF CallOK

LEMMA DropStep ==
    ASSUME IInv, NEW b \in Buffers, DropHead(b)
    PROVE  IInv'
<1>1. TypeOK /\ CountersOK /\ buffer \in [Buffers -> CircularEventBuffers]
  BY DEF IInv, TypeOK
<1>2. now' = now /\ call' = call /\ call.eventBuffer = b
  BY DEF DropHead, MakingRoom
<1>3. /\ buffer' \in [Buffers -> CircularEventBuffers]
      /\ \A c \in Buffers : c # b => buffer'[c] = buffer[c]
  BY DropBuffers
<1>4. TypeOK'
  <2> SUFFICES ASSUME NEW c \in Buffers PROVE DataLength(buffer'[c].events) <= Capacity[c]
    BY <1>1, <1>2, <1>3 DEF TypeOK
  <2>1. CASE c # b
    BY <1>1, <1>3, <2>1 DEF TypeOK
  <2>2. CASE c = b
    <3>1. PICK s \in Seq(Entries) : s = buffer[b].events
      BY <1>1, FieldTypes
    <3>2. s # <<>> /\ Tail(s) \in Seq(Entries) /\ buffer'[b].events = Tail(s) /\ Head(s) \in Entries
      BY <3>1, DropBuffers
    <3>3. DataLength(s) = Head(s).size + DataLength(Tail(s))
      BY <3>2, TailLength
    <3>4. DataLength(s) \in Nat /\ DataLength(Tail(s)) \in Nat
      BY <3>2, LengthType
    <3>5. Head(s).size \in Nat
      BY <3>2, CapacityAssumption DEF Entries
    <3>6. DataLength(s) <= Capacity[b] /\ Capacity[b] \in Nat
      BY <3>1, <1>1, CapacityAssumption DEF TypeOK
    <3>7. DataLength(Tail(s)) <= Capacity[b]
      BY <3>3, <3>4, <3>5, <3>6
    <3> QED BY <3>2, <3>7, <2>2
  <2> QED BY <2>1, <2>2
<1>5. CountersOK'
  <2> SUFFICES ASSUME NEW c \in Buffers
               PROVE  /\ buffer'[c].counter = buffer'[c].mLastEventNumber + 1
                      /\ buffer'[c].mFirstEventNumber <= buffer'[c].counter
                      /\ buffer'[c].counter <= now
                      /\ buffer'[c].mFirstEventSystemTimestamp <= buffer'[c].mLastEventSystemTimestamp
                      /\ buffer'[c].mLastEventSystemTimestamp <= now
                      /\ buffer'[c].mFirstEventSystemTimestamp = 0 => buffer'[c].mLastEventNumber = 0
    BY <1>2 DEF CountersOK
  <2>1. CASE c # b
    BY <1>1, <1>3, <2>1 DEF CountersOK
  <2>2. CASE c = b
    <3>1. PICK h \in Entries : h = buffer[b].events[1] /\ h.priority = b /\ h \in Logged(Log)
      <4>1. buffer[b].events \in Seq(Entries) /\ buffer[b].events # <<>>
        BY <1>1, FieldTypes, DropBuffers
      <4>2. 1 \in DOMAIN Log[b] /\ Log[b][1] = buffer[b].events[1] /\ buffer[b].events[1] \in Entries
        BY <4>1 DEF Log
      <4> QED BY <4>2, PlaceLogged, DropBuffers
    <3>2. /\ h.time <= now /\ FirstTimes[b] + h.delta <= h.time /\ FirstTimes[b] = buffer[b].mFirstEventSystemTimestamp
          /\ h.time \in Nat /\ h.delta \in Nat /\ FirstTimes[b] \in Nat /\ now \in Nat
      BY <3>1, StateTypes, NumberType DEF IInv, LogOK, NotTooLong, FirstTimes
    <3>3. PICK f, d : f = buffer[b].mFirstEventSystemTimestamp /\ d = h.delta
      OBVIOUS
    <3>4. f \in Nat /\ d \in Nat /\ f <= f + d /\ f + d <= now
      BY <3>2, <3>3
    <3>5. /\ buffer'[b].mLastEventSystemTimestamp = f + d
          /\ buffer'[b].mFirstEventSystemTimestamp = f
          /\ buffer'[b].counter = buffer[b].counter
          /\ buffer'[b].mLastEventNumber = buffer[b].mLastEventNumber
          /\ buffer'[b].mFirstEventNumber = buffer[b].mFirstEventNumber + 1
          /\ buffer[b].mFirstEventNumber <= buffer[b].mLastEventNumber
      BY <3>1, <3>3, DropBuffers
    <3>6. /\ buffer[b].counter = buffer[b].mLastEventNumber + 1
          /\ buffer[b].counter <= now
          /\ f = 0 => buffer[b].mLastEventNumber = 0
      BY <1>1, <3>3 DEF CountersOK
    <3>7. buffer[b].mFirstEventNumber \in Nat /\ buffer[b].mLastEventNumber \in Nat
      BY <1>1, FieldTypes, CapacityAssumption
    <3> QED BY <2>2, <3>4, <3>5, <3>6, <3>7
  <2> QED BY <2>1, <2>2
<1>6. CallOK'
  <2>1. \A c \in Buffers : c < b => buffer'[c] = buffer[c]
    BY <1>3, BufferFacts
  <2>2. ASSUME NEW c \in Buffers
        PROVE  /\ buffer'[c].mFirstEventSystemTimestamp = buffer[c].mFirstEventSystemTimestamp
               /\ buffer'[c].mFirstEventNumber = 1 =>
                    /\ buffer[c].mFirstEventNumber = 1
                    /\ buffer'[c].mLastEventSystemTimestamp = buffer[c].mLastEventSystemTimestamp
    <3>1. CASE c # b
      BY <1>3, <3>1
    <3>2. CASE c = b
      <4>1. buffer[b].mFirstEventNumber \in 1 .. MaxTime + 1
        BY <1>1, FieldTypes
      <4>2. buffer'[b].mFirstEventNumber # 1
        BY <4>1, DropBuffers, CapacityAssumption
      <4> QED BY <3>2, <4>2, DropBuffers
    <3> QED BY <3>1, <3>2
  <2> QED BY <1>2, <2>1, <2>2, CallKept
<1> QED BY <1>4, <1>5, <1>6, DropBuffers DEF IInv

\* An entry that is not in its final buffer has a next one.
LEMMA NotFinal ==
    ASSUME NEW b \in Buffers, NEW p \in Priorities, ~IsFinalDestinationForPriority(b, p)
    PROVE  b + 1 \in Buffers /\ p > b
BY CapacityAssumption DEF IsFinalDestinationForPriority, Buffers, Priorities

LEMMA MoveBuffers ==
    ASSUME IInv, NEW b \in Buffers, MoveHead(b)
    PROVE  /\ buffer' \in [Buffers -> CircularEventBuffers]
           /\ \A c \in Buffers :
                /\ c # b /\ c # b + 1 => buffer'[c] = buffer[c]
                /\ buffer'[c].mFirstEventNumber = buffer[c].mFirstEventNumber
                /\ buffer'[c].mLastEventNumber = buffer[c].mLastEventNumber
                /\ buffer'[c].counter = buffer[c].counter
                /\ buffer'[c].mFirstEventSystemTimestamp = buffer[c].mFirstEventSystemTimestamp
                /\ buffer'[c].mLastEventSystemTimestamp = buffer[c].mLastEventSystemTimestamp
           /\ b + 1 \in Buffers
           /\ buffer[b].events # <<>> /\ buffer[b].events[1] \in Entries
           /\ buffer[b].events[1].priority > b
           /\ buffer'[b].events = Tail(buffer[b].events)
           /\ buffer'[b + 1].events = Append(buffer[b + 1].events, buffer[b].events[1])
<1>1. buffer \in [Buffers -> CircularEventBuffers]
  BY DEF IInv, TypeOK
<1>2. PICK h \in Entries : h = Head(buffer[b].events) /\ h = buffer[b].events[1]
  BY FullNotEmpty DEF IInv, MoveHead
<1>3. buffer[b].events \in Seq(Entries) /\ buffer[b].events # <<>>
  BY FullNotEmpty DEF IInv, MoveHead
<1>4. b + 1 \in Buffers /\ h.priority > b /\ b # b + 1
  BY <1>2, NotFinal, BufferFacts DEF MoveHead, Entries
<1>5. PICK q \in Seq(Entries) : q = Tail(buffer[b].events)
  <2>1. PICK s \in Seq(Entries) : s = buffer[b].events /\ s # <<>>
    BY <1>3
  <2>2. Tail(s) \in Seq(Entries)
    BY <2>1
  <2> QED BY <2>1, <2>2
<1>6. PICK w \in Seq(Entries) : w = Append(buffer[b + 1].events, h)
  <2>1. PICK s \in Seq(Entries) : s = buffer[b + 1].events
    BY <1>1, <1>4, FieldTypes
  <2>2. Append(s, h) \in Seq(Entries)
    OBVIOUS
  <2> QED BY <2>1, <2>2
<1>7. PICK r, x \in CircularEventBuffers : r = buffer[b] /\ x = buffer[b + 1]
  BY <1>1, <1>4
<1>8. PICK u, v : u = [r EXCEPT !.events = q] /\ v = [x EXCEPT !.events = w]
  OBVIOUS
<1>9. u \in CircularEventBuffers /\ v \in CircularEventBuffers
  BY <1>8 DEF CircularEventBuffers
<1>10. /\ u.events = q
       /\ u.mFirstEventNumber = r.mFirstEventNumber
       /\ u.mLastEventNumber = r.mLastEventNumber
       /\ u.counter = r.counter
       /\ u.mFirstEventSystemTimestamp = r.mFirstEventSystemTimestamp
       /\ u.mLastEventSystemTimestamp = r.mLastEventSystemTimestamp
  BY <1>8 DEF CircularEventBuffers
<1>11. /\ v.events = w
       /\ v.mFirstEventNumber = x.mFirstEventNumber
       /\ v.mLastEventNumber = x.mLastEventNumber
       /\ v.counter = x.counter
       /\ v.mFirstEventSystemTimestamp = x.mFirstEventSystemTimestamp
       /\ v.mLastEventSystemTimestamp = x.mLastEventSystemTimestamp
  BY <1>8 DEF CircularEventBuffers
<1>12. buffer' = [buffer EXCEPT ![b] = u, ![b + 1] = v]
  <2>1. buffer' = CopyToNextBuffer(b)
    BY DEF MoveHead
  <2> QED BY <1>1, <1>2, <1>4, <1>5, <1>6, <1>7, <1>8, <2>1 DEF CopyToNextBuffer
<1>13. /\ buffer' \in [Buffers -> CircularEventBuffers] /\ buffer'[b] = u /\ buffer'[b + 1] = v
       /\ \A c \in Buffers : c # b /\ c # b + 1 => buffer'[c] = buffer[c]
  BY <1>1, <1>4, <1>9, <1>12
<1> QED BY <1>2, <1>3, <1>4, <1>5, <1>6, <1>7, <1>10, <1>11, <1>13

LEMMA MoveStep ==
    ASSUME IInv, NEW b \in Buffers, MoveHead(b)
    PROVE  IInv'
<1>1. TypeOK /\ CountersOK /\ buffer \in [Buffers -> CircularEventBuffers]
  BY DEF IInv, TypeOK
<1>2. now' = now /\ call' = call /\ call.eventBuffer = b
  BY DEF MoveHead, MakingRoom
<1>3. PICK s \in Seq(Entries) : s = buffer[b].events
  BY <1>1, FieldTypes
<1>4. PICK h \in Entries : h = s[1] /\ s # <<>> /\ h = Head(s) /\ h.priority > b
  BY <1>3, MoveBuffers
<1>5. b + 1 \in Buffers /\ b \in Nat
  BY MoveBuffers, BufferFacts
<1>6. PICK w \in Seq(Entries) : w = buffer[b + 1].events
  BY <1>1, <1>5, FieldTypes
<1>7. buffer'[b].events = Tail(s) /\ buffer'[b + 1].events = Append(w, h) /\ Tail(s) \in Seq(Entries)
  BY <1>3, <1>4, <1>6, MoveBuffers
<1>8. TypeOK'
  <2> SUFFICES ASSUME NEW c \in Buffers PROVE DataLength(buffer'[c].events) <= Capacity[c]
    BY <1>1, <1>2, MoveBuffers DEF TypeOK
  <2>1. CASE c # b /\ c # b + 1
    BY <1>1, <2>1, MoveBuffers DEF TypeOK
  <2>2. h.size \in Nat /\ DataLength(Tail(s)) \in Nat /\ DataLength(w) \in Nat /\ Capacity[c] \in Nat
    BY <1>7, LengthType, CapacityAssumption DEF Entries
  <2>3. CASE c = b
    <3>1. DataLength(s) = h.size + DataLength(Tail(s))
      BY <1>4, TailLength
    <3>2. DataLength(s) <= Capacity[b]
      BY <1>1, <1>3 DEF TypeOK
    <3>3. DataLength(Tail(s)) <= Capacity[c]
      BY <2>2, <2>3, <3>1, <3>2
    <3> QED BY <3>3, <2>3, <1>7
  <2>4. CASE c = b + 1
    <3>1. DataLength(Append(w, h)) = DataLength(w) + h.size
      BY AppendLength
    <3>2. h.size <= Capacity[b + 1] - DataLength(w)
      BY <1>3, <1>4, <1>6 DEF MoveHead, HasRoom, AvailableDataLength
    <3>3. DataLength(Append(w, h)) <= Capacity[c]
      BY <2>2, <2>4, <3>1, <3>2
    <3> QED BY <3>3, <2>4, <1>7
  <2> QED BY <2>1, <2>3, <2>4
<1>9. CountersOK'
  BY <1>1, <1>2, MoveBuffers DEF CountersOK
<1>10. CallOK'
  <2>1. \A c \in Buffers : c < b => buffer'[c] = buffer[c]
    <3> SUFFICES ASSUME NEW c \in Buffers, c < b PROVE c # b /\ c # b + 1
      BY MoveBuffers
    <3> QED BY <1>5, BufferFacts
  <2>2. \A c \in Buffers :
            /\ buffer'[c].mFirstEventSystemTimestamp = buffer[c].mFirstEventSystemTimestamp
            /\ buffer'[c].mFirstEventNumber = 1 =>
                 /\ buffer[c].mFirstEventNumber = 1
                 /\ buffer'[c].mLastEventSystemTimestamp = buffer[c].mLastEventSystemTimestamp
    BY MoveBuffers
  <2> QED BY <1>2, <2>1, <2>2, CallKept
<1>11. LogOK'
  <2>1. PICK E, G : E = Log /\ G = Log'
    OBVIOUS
  <2>2. E \in Logs /\ NotTooFar(E) /\ Ordered(E)
    BY <2>1, StateTypes DEF IInv, LogOK
  <2>3. G \in Logs
    BY <2>1, MoveBuffers, FieldTypes DEF Log, Logs
  <2>4. E[b] = s /\ E[b + 1] = w /\ G[b] = Tail(s) /\ G[b + 1] = Append(w, h)
    BY <2>1, <1>3, <1>5, <1>6, <1>7 DEF Log
  <2>5. \A c \in Buffers : c # b /\ c # b + 1 => G[c] = E[c]
    BY <2>1, MoveBuffers DEF Log
  <2>6. Moved(E, G, b) /\ E[b][1].priority > b
    BY <1>4, <1>5, <2>4, <2>5 DEF Moved
  <2>7. NotTooFar(G) /\ Ordered(G) /\ Logged(G) = Logged(E)
    BY <2>2, <2>3, <2>6, MoveOrdered, MoveLogged
  <2>8. /\ Firsts' = Firsts /\ Lasts' = Lasts /\ FirstTimes' = FirstTimes
        /\ LastTimes' = LastTimes
    BY MoveBuffers DEF Firsts, Lasts, FirstTimes, LastTimes
  <2> QED BY <2>1, <2>7, <2>8, <1>2 DEF IInv, LogOK
<1> QED BY <1>8, <1>9, <1>10, <1>11 DEF IInv

\* Room is to be made in the next buffer: the lengths saved are those of the
\* events that wait.
LEMMA GoToNextStep ==
    ASSUME IInv, NEW b \in Buffers, GoToNextBuffer(b)
    PROVE  IInv'
<1>1. TypeOK /\ CountersOK /\ CallOK /\ buffer \in [Buffers -> CircularEventBuffers]
  BY DEF IInv, TypeOK
<1>2. /\ buffer[b].events \in Seq(Entries) /\ buffer[b].events # <<>>
      /\ call # NoCall /\ call \in Calls /\ call.eventBuffer = b /\ call.requiredSpace \in Sizes
  BY FullNotEmpty DEF IInv, GoToNextBuffer
<1>3. PICK h \in Entries : h = Head(buffer[b].events)
  BY FullNotEmpty DEF IInv, GoToNextBuffer
<1>4. h.size \in Sizes /\ h.priority \in Priorities
  BY DEF Entries
<1>5. b + 1 \in Buffers /\ h.priority > b
  BY <1>3, <1>4, NotFinal DEF GoToNextBuffer
<1>6. b \in Nat /\ b # 0 /\ 1 <= b /\ b + 1 # 1
  BY BufferFacts
<1>7. PICK k \in Sizes : k = call.requiredSpace
  BY <1>2
<1>8. PICK r \in CircularEventBuffers : r = buffer[b]
  BY <1>1
<1>9. PICK u : u = [r EXCEPT !.mRequiredSpaceForEvicted = k]
  OBVIOUS
<1>10. u \in CircularEventBuffers
  BY <1>9 DEF CircularEventBuffers
<1>11. /\ u.events = r.events /\ u.mRequiredSpaceForEvicted = k
       /\ u.mFirstEventNumber = r.mFirstEventNumber
       /\ u.mLastEventNumber = r.mLastEventNumber
       /\ u.counter = r.counter
       /\ u.mFirstEventSystemTimestamp = r.mFirstEventSystemTimestamp
       /\ u.mLastEventSystemTimestamp = r.mLastEventSystemTimestamp
  BY <1>9 DEF CircularEventBuffers
<1>12. buffer' = [buffer EXCEPT ![b] = u] /\ now' = now
  BY <1>1, <1>7, <1>8, <1>9 DEF GoToNextBuffer
<1>13. /\ buffer' \in [Buffers -> CircularEventBuffers] /\ buffer'[b] = u
       /\ \A c \in Buffers : c # b => buffer'[c] = buffer[c]
  BY <1>1, <1>10, <1>12
<1>14. \A c \in Buffers :
          /\ buffer'[c].events = buffer[c].events
          /\ buffer'[c].mFirstEventNumber = buffer[c].mFirstEventNumber
          /\ buffer'[c].mLastEventNumber = buffer[c].mLastEventNumber
          /\ buffer'[c].counter = buffer[c].counter
          /\ buffer'[c].mFirstEventSystemTimestamp = buffer[c].mFirstEventSystemTimestamp
          /\ buffer'[c].mLastEventSystemTimestamp = buffer[c].mLastEventSystemTimestamp
  BY <1>8, <1>11, <1>13
<1>15. PICK g \in Calls : g = call
  BY <1>2
<1>16. PICK n : n = [g EXCEPT !.eventBuffer = b + 1, !.requiredSpace = h.size]
  OBVIOUS
<1>17. n \in Calls
  BY <1>4, <1>5, <1>16 DEF Calls
<1>18. /\ n.eventBuffer = b + 1 /\ n.requiredSpace = h.size
       /\ n.priority = g.priority /\ n.size = g.size /\ n.delta = g.delta
  BY <1>16 DEF Calls
<1>19. call' = n
  BY <1>3, <1>15, <1>16 DEF GoToNextBuffer
<1>20. TypeOK'
  BY <1>1, <1>12, <1>13, <1>14, <1>17, <1>19 DEF TypeOK
<1>21. CountersOK'
  BY <1>1, <1>12, <1>14 DEF CountersOK
<1>22. CallOK'
  <2>0. /\ n.priority = call.priority /\ n.size = call.size /\ n.delta = call.delta
        /\ call.priority \in Buffers
    BY <1>15, <1>18 DEF Calls, Priorities, Buffers
  <2>1. \A c \in 1 .. b : c \in Buffers
    BY <1>6, BufferFacts DEF Buffers
  <2>2. ASSUME NEW c \in 1 .. b PROVE Waiting(c)'.size = Waiting(c).size
    <3>1. CASE c = 1
      BY <3>1, <2>0, <1>19 DEF Waiting
    <3>2. CASE c # 1
      <4>1. c - 1 \in 1 .. b
        BY <3>2, <1>6
      <4> QED BY <4>1, <3>2, <2>1, <1>14 DEF Waiting
    <3> QED BY <3>1, <3>2
  <2>3. ASSUME NEW c \in 1 .. n.eventBuffer - 1
        PROVE  /\ buffer'[c].events # <<>>
               /\ Head(buffer'[c].events).priority > c
               /\ buffer'[c].mRequiredSpaceForEvicted = Waiting(c)'.size
    <3>1. c \in 1 .. b /\ c \in Buffers
      BY <1>18, <1>6, <2>1
    <3>2. CASE c = b
      <4>1. k = Waiting(b).size
        BY <1>1, <1>2, <1>7 DEF CallOK
      <4> QED BY <3>1, <3>2, <4>1, <2>2, <1>2, <1>3, <1>5, <1>11, <1>13, <1>14
    <3>3. CASE c # b
      <4>1. c \in 1 .. call.eventBuffer - 1
        BY <1>2, <1>6, <3>1, <3>3
      <4>2. /\ buffer[c].events # <<>>
            /\ Head(buffer[c].events).priority > c
            /\ buffer[c].mRequiredSpaceForEvicted = Waiting(c).size
        BY <4>1, <1>1, <1>2 DEF CallOK
      <4> QED BY <4>2, <3>1, <3>3, <2>2, <1>13
    <3> QED BY <3>2, <3>3
  <2>4. (call.requiredSpace = Waiting(call.eventBuffer).size)'
    <3>1. n.requiredSpace = Head(buffer'[b].events).size /\ (b + 1) - 1 = b
      BY <1>3, <1>6, <1>14, <1>18
    <3> QED BY <3>1, <1>6, <1>18, <1>19 DEF Waiting
  <2>5. /\ now' <= MaxTime
        /\ FirstTimes'[n.priority] # 0
        /\ FirstTimes'[n.priority] + n.delta <= now'
        /\ Firsts'[n.priority] = 1 => LastTimes'[n.priority] + n.delta = now'
    BY <1>1, <1>2, <1>12, <1>14, <2>0 DEF CallOK, FirstTimes, Firsts, LastTimes
  <2> QED BY <1>19, <2>3, <2>4, <2>5 DEF CallOK
<1>23. LogOK'
  <2>1. /\ Log' = Log /\ Firsts' = Firsts /\ Lasts' = Lasts /\ FirstTimes' = FirstTimes
        /\ LastTimes' = LastTimes
    BY <1>14 DEF Log, Firsts, Lasts, FirstTimes, LastTimes
  <2> QED BY <2>1, <1>12 DEF IInv, LogOK
<1> QED BY <1>20, <1>21, <1>22, <1>23 DEF IInv

\* Back to the previous buffer, with the length saved for it.
LEMMA GoBackStep ==
    ASSUME IInv, NEW b \in Buffers, GoBack(b)
    PROVE  IInv'
<1>1. TypeOK /\ CountersOK /\ CallOK /\ buffer \in [Buffers -> CircularEventBuffers]
  BY DEF IInv, TypeOK
<1>2. b \in Nat /\ 1 <= b /\ b # 1 /\ b <= NumBuffers /\ call.eventBuffer = b /\ NumBuffers \in Nat
  BY BufferFacts DEF GoBack
<1>3. call # NoCall /\ call \in Calls /\ call.size \in Sizes /\ call.priority \in Priorities
  BY <1>1, <1>2, CallTypes
<1>4. b - 1 \in Buffers /\ b - 1 \in Nat /\ 1 <= b - 1
  BY <1>2 DEF Buffers
<1>5. PICK k : k = buffer[b - 1].mRequiredSpaceForEvicted
  OBVIOUS
<1>6. k = Waiting(b - 1).size /\ k \in Sizes
  <2>1. b - 1 \in 1 .. call.eventBuffer - 1
    BY <1>2, <1>4
  <2>2. k = Waiting(b - 1).size
    BY <1>1, <1>3, <1>5, <2>1 DEF CallOK
  <2>3. CASE b - 1 = 1
    BY <2>2, <2>3, <1>3 DEF Waiting
  <2>4. CASE b - 1 # 1
    <3>1. (b - 1) - 1 \in Buffers /\ (b - 1) - 1 \in 1 .. call.eventBuffer - 1
      BY <2>4, <1>2, <1>4 DEF Buffers
    <3>2. PICK s \in Seq(Entries) : s = buffer[(b - 1) - 1].events
      BY <3>1, <1>1, FieldTypes
    <3>3. s # <<>>
      BY <3>1, <3>2, <1>1, <1>3 DEF CallOK
    <3>4. Head(s) \in Entries
      BY <3>3
    <3>5. Head(s).size \in Sizes
      BY <3>4 DEF Entries
    <3> QED BY <2>2, <2>4, <3>2, <3>5 DEF Waiting
  <2> QED BY <2>2, <2>3, <2>4
<1>7. PICK g \in Calls : g = call
  BY <1>3
<1>8. PICK n : n = [g EXCEPT !.eventBuffer = b - 1, !.requiredSpace = k]
  OBVIOUS
<1>9. n \in Calls
  BY <1>4, <1>6, <1>8 DEF Calls
<1>10. /\ n.eventBuffer = b - 1 /\ n.requiredSpace = k
       /\ n.priority = g.priority /\ n.size = g.size /\ n.delta = g.delta
  BY <1>8 DEF Calls
<1>11. call' = n /\ buffer' = buffer /\ now' = now
  BY <1>5, <1>7, <1>8 DEF GoBack
<1>12. TypeOK'
  BY <1>1, <1>9, <1>11 DEF TypeOK
<1>13. CountersOK'
  BY <1>1, <1>11 DEF CountersOK
<1>14. CallOK'
  <2>1. ASSUME NEW c \in 1 .. b - 1 PROVE Waiting(c)'.size = Waiting(c).size
    BY <1>7, <1>10, <1>11 DEF Waiting
  <2>2. ASSUME NEW c \in 1 .. n.eventBuffer - 1
        PROVE  /\ buffer'[c].events # <<>>
               /\ Head(buffer'[c].events).priority > c
               /\ buffer'[c].mRequiredSpaceForEvicted = Waiting(c)'.size
    <3>1. c \in 1 .. call.eventBuffer - 1 /\ c \in 1 .. b - 1
      BY <1>2, <1>10
    <3> QED BY <3>1, <2>1, <1>1, <1>3, <1>11 DEF CallOK
  <2>3. (call.requiredSpace = Waiting(call.eventBuffer).size)'
    <3>1. b - 1 \in 1 .. b - 1
      BY <1>4
    <3>2. k = Waiting(b - 1)'.size
      BY <3>1, <2>1, <1>6
    <3> QED BY <3>2, <1>10, <1>11 DEF Waiting
  <2>4. /\ now' <= MaxTime
        /\ FirstTimes'[n.priority] # 0
        /\ FirstTimes'[n.priority] + n.delta <= now'
        /\ Firsts'[n.priority] = 1 => LastTimes'[n.priority] + n.delta = now'
    BY <1>1, <1>3, <1>7, <1>10, <1>11 DEF CallOK, FirstTimes, Firsts, LastTimes
  <2> QED BY <1>11, <2>2, <2>3, <2>4 DEF CallOK
<1>15. LogOK'
  BY <1>11 DEF IInv, LogOK, Log, Firsts, Lasts, FirstTimes, LastTimes
<1> QED BY <1>12, <1>13, <1>14, <1>15 DEF IInv

\* The entry that is written has the next number of its priority.
LEMMA WriteBuffers ==
    ASSUME IInv, WriteEvent
    PROVE  \E p \in Buffers, e \in Entries :
              /\ call.priority = p /\ e.priority = p /\ e.size = call.size /\ e.delta = call.delta
              /\ e.number = buffer[p].counter /\ e.time = now
              /\ buffer' \in [Buffers -> CircularEventBuffers]
              /\ buffer'[1].events = Append(buffer[1].events, e)
              /\ \A c \in Buffers :
                   /\ c # 1 => buffer'[c].events = buffer[c].events
                   /\ buffer'[c].mFirstEventNumber = buffer[c].mFirstEventNumber
                   /\ buffer'[c].mFirstEventSystemTimestamp = buffer[c].mFirstEventSystemTimestamp
                   /\ c # p =>
                        /\ buffer'[c].mLastEventNumber = buffer[c].mLastEventNumber
                        /\ buffer'[c].counter = buffer[c].counter
                        /\ buffer'[c].mLastEventSystemTimestamp = buffer[c].mLastEventSystemTimestamp
              /\ buffer'[p].mLastEventNumber = buffer[p].counter
              /\ buffer'[p].counter = buffer[p].counter + 1
              /\ buffer'[p].mLastEventSystemTimestamp = now
<1>1. TypeOK /\ CountersOK /\ CallOK /\ buffer \in [Buffers -> CircularEventBuffers] /\ 1 \in Buffers
  BY BufferFacts DEF IInv, TypeOK
<1>2. /\ call # NoCall /\ call.size \in Sizes /\ call.priority \in Priorities
      /\ call.delta \in 0 .. MaxTime /\ call.eventBuffer = 1
  BY <1>1, CallTypes DEF WriteEvent
<1>3. PICK p \in Buffers : p = call.priority /\ GetPriorityBuffer(call.priority) = p
  BY <1>2, PriorityBuffer
<1>4. now \in 1 .. MaxTime
  BY <1>1, <1>2, CapacityAssumption DEF CallOK, TypeOK
<1>5. PICK m : m = buffer[p].counter
  OBVIOUS
<1>6. m \in 1 .. MaxTime
  <2>1. m \in 1 .. MaxTime + 1
    BY <1>1, <1>5, FieldTypes
  <2>2. m <= now
    BY <1>1, <1>5 DEF CountersOK
  <2> QED BY <2>1, <2>2, <1>4, CapacityAssumption
<1>7. PICK e : e = NewEntry
  OBVIOUS
<1>8. e = [priority |-> call.priority, size |-> call.size, delta |-> call.delta, number |-> m, time |-> now]
  BY <1>3, <1>5, <1>7 DEF NewEntry
<1>9. e \in Entries
  BY <1>2, <1>4, <1>6, <1>8 DEF Entries
<1>10. /\ e.priority = p /\ e.size = call.size /\ e.delta = call.delta
       /\ e.number = m /\ e.time = now
  BY <1>3, <1>8
<1>11. PICK s \in Seq(Entries) : s = buffer[1].events
  BY <1>1, FieldTypes
<1>12. PICK w \in Seq(Entries) : w = Append(s, e)
  <2>1. Append(s, e) \in Seq(Entries)
    BY <1>9
  <2> QED BY <2>1
<1>13. PICK r \in CircularEventBuffers : r = buffer[1]
  BY <1>1
<1>14. PICK u : u = [r EXCEPT !.events = w]
  OBVIOUS
<1>15. u \in CircularEventBuffers
  BY <1>14 DEF CircularEventBuffers
<1>16. /\ u.events = w
       /\ u.mFirstEventNumber = r.mFirstEventNumber
       /\ u.mLastEventNumber = r.mLastEventNumber
       /\ u.counter = r.counter
       /\ u.mFirstEventSystemTimestamp = r.mFirstEventSystemTimestamp
       /\ u.mLastEventSystemTimestamp = r.mLastEventSystemTimestamp
  BY <1>14 DEF CircularEventBuffers
<1>17. PICK B : B = [buffer EXCEPT ![1] = u]
  OBVIOUS
<1>18. /\ B \in [Buffers -> CircularEventBuffers] /\ B[1] = u
       /\ \A c \in Buffers : c # 1 => B[c] = buffer[c]
  BY <1>1, <1>15, <1>17
<1>19. \A c \in Buffers :
          /\ c # 1 => B[c].events = buffer[c].events
          /\ B[c].mFirstEventNumber = buffer[c].mFirstEventNumber
          /\ B[c].mLastEventNumber = buffer[c].mLastEventNumber
          /\ B[c].counter = buffer[c].counter
          /\ B[c].mFirstEventSystemTimestamp = buffer[c].mFirstEventSystemTimestamp
          /\ B[c].mLastEventSystemTimestamp = buffer[c].mLastEventSystemTimestamp
  BY <1>13, <1>16, <1>18
<1>20. PICK x \in CircularEventBuffers : x = B[p]
  BY <1>18
<1>21. PICK t \in 1 .. MaxTime : t = now
  BY <1>4
<1>22. m + 1 \in 1 .. MaxTime + 1 /\ m \in 0 .. MaxTime /\ t \in 0 .. MaxTime
  BY <1>6, CapacityAssumption
<1>23. PICK v : v = [x EXCEPT !.mLastEventNumber = m, !.counter = m + 1, !.mLastEventSystemTimestamp = t]
  OBVIOUS
<1>24. v \in CircularEventBuffers
  BY <1>22, <1>23 DEF CircularEventBuffers
<1>25. /\ v.events = x.events
       /\ v.mFirstEventNumber = x.mFirstEventNumber
       /\ v.mLastEventNumber = m
       /\ v.counter = m + 1
       /\ v.mFirstEventSystemTimestamp = x.mFirstEventSystemTimestamp
       /\ v.mLastEventSystemTimestamp = t
  BY <1>23 DEF CircularEventBuffers
<1>26. buffer' = VendEventNumber(B, p)
  <2>1. B = [buffer EXCEPT ![1].events = Append(@, e)]
    BY <1>1, <1>11, <1>12, <1>13, <1>14, <1>17
  <2> QED BY <2>1, <1>3, <1>7 DEF WriteEvent
<1>27. buffer' = [B EXCEPT ![p] = v]
  <2>1. B[p].counter = m
    BY <1>5, <1>19
  <2> QED BY <2>1, <1>18, <1>20, <1>21, <1>23, <1>26 DEF VendEventNumber
<1>28. /\ buffer' \in [Buffers -> CircularEventBuffers] /\ buffer'[p] = v
       /\ \A c \in Buffers : c # p => buffer'[c] = B[c]
  BY <1>18, <1>24, <1>27
<1>29. \A c \in Buffers : buffer'[c].events = B[c].events
  BY <1>20, <1>25, <1>28
<1>30. /\ buffer'[1].events = Append(buffer[1].events, e)
       /\ \A c \in Buffers :
              /\ c # 1 => buffer'[c].events = buffer[c].events
              /\ buffer'[c].mFirstEventNumber = buffer[c].mFirstEventNumber
              /\ buffer'[c].mFirstEventSystemTimestamp = buffer[c].mFirstEventSystemTimestamp
              /\ c # p =>
                   /\ buffer'[c].mLastEventNumber = buffer[c].mLastEventNumber
                   /\ buffer'[c].counter = buffer[c].counter
                   /\ buffer'[c].mLastEventSystemTimestamp = buffer[c].mLastEventSystemTimestamp
  BY <1>1, <1>11, <1>12, <1>16, <1>18, <1>19, <1>20, <1>25, <1>28, <1>29
<1>31. /\ buffer'[p].mLastEventNumber = buffer[p].counter
       /\ buffer'[p].counter = buffer[p].counter + 1
       /\ buffer'[p].mLastEventSystemTimestamp = now
  BY <1>5, <1>21, <1>25, <1>28
<1> QED BY <1>3, <1>5, <1>9, <1>10, <1>28, <1>30, <1>31

LEMMA WriteStep ==
    ASSUME IInv, WriteEvent
    PROVE  IInv'
<1>1. TypeOK /\ CountersOK /\ CallOK /\ buffer \in [Buffers -> CircularEventBuffers] /\ 1 \in Buffers
  BY BufferFacts DEF IInv, TypeOK
<1>2. now' = now + 1 /\ call' = NoCall /\ call.eventBuffer = 1 /\ HasRoom(1, call.requiredSpace)
  BY DEF WriteEvent
<1>3. call # NoCall /\ call.size \in Sizes /\ call.delta \in 0 .. MaxTime
  BY <1>1, <1>2, CallTypes
<1>4. PICK p \in Buffers, e \in Entries :
              /\ call.priority = p /\ e.priority = p /\ e.size = call.size /\ e.delta = call.delta
              /\ e.number = buffer[p].counter /\ e.time = now
              /\ buffer' \in [Buffers -> CircularEventBuffers]
              /\ buffer'[1].events = Append(buffer[1].events, e)
              /\ \A c \in Buffers :
                   /\ c # 1 => buffer'[c].events = buffer[c].events
                   /\ buffer'[c].mFirstEventNumber = buffer[c].mFirstEventNumber
                   /\ buffer'[c].mFirstEventSystemTimestamp = buffer[c].mFirstEventSystemTimestamp
                   /\ c # p =>
                        /\ buffer'[c].mLastEventNumber = buffer[c].mLastEventNumber
                        /\ buffer'[c].counter = buffer[c].counter
                        /\ buffer'[c].mLastEventSystemTimestamp = buffer[c].mLastEventSystemTimestamp
              /\ buffer'[p].mLastEventNumber = buffer[p].counter
              /\ buffer'[p].counter = buffer[p].counter + 1
              /\ buffer'[p].mLastEventSystemTimestamp = now
  BY WriteBuffers
<1>5. now \in 1 .. MaxTime /\ now \in Nat
  BY <1>1, <1>3, CapacityAssumption DEF CallOK, TypeOK
<1>6. TypeOK'
  <2>1. now' \in 1 .. MaxTime + 1
    BY <1>2, <1>5, CapacityAssumption
  <2>2. ASSUME NEW c \in Buffers PROVE DataLength(buffer'[c].events) <= Capacity[c]
    <3>1. CASE c # 1
      BY <3>1, <1>1, <1>4 DEF TypeOK
    <3>2. CASE c = 1
      <4>1. PICK s \in Seq(Entries) : s = buffer[1].events
        BY <1>1, FieldTypes
      <4>2. DataLength(Append(s, e)) = DataLength(s) + e.size
        BY AppendLength
      <4>3. call.requiredSpace = e.size
        BY <1>1, <1>2, <1>3, <1>4 DEF CallOK, Waiting
      <4>4. e.size <= Capacity[1] - DataLength(s)
        BY <4>1, <4>3, <1>2 DEF HasRoom, AvailableDataLength
      <4>5. e.size \in Nat /\ DataLength(s) \in Nat /\ Capacity[1] \in Nat
        BY <1>1, LengthType, CapacityAssumption DEF Entries
      <4>6. DataLength(Append(s, e)) <= Capacity[1]
        BY <4>2, <4>4, <4>5
      <4> QED BY <4>1, <4>6, <3>2, <1>4
    <3> QED BY <3>1, <3>2
  <2> QED BY <1>2, <1>4, <2>1, <2>2 DEF TypeOK
<1>7. CountersOK'
  <2> SUFFICES ASSUME NEW c \in Buffers
               PROVE  /\ buffer'[c].counter = buffer'[c].mLastEventNumber + 1
                      /\ buffer'[c].mFirstEventNumber <= buffer'[c].counter
                      /\ buffer'[c].counter <= now'
                      /\ buffer'[c].mFirstEventSystemTimestamp <= buffer'[c].mLastEventSystemTimestamp
                      /\ buffer'[c].mLastEventSystemTimestamp <= now'
                      /\ buffer'[c].mFirstEventSystemTimestamp = 0 => buffer'[c].mLastEventNumber = 0
    BY DEF CountersOK
  <2>1. /\ buffer[c].counter = buffer[c].mLastEventNumber + 1
        /\ buffer[c].mFirstEventNumber <= buffer[c].counter
        /\ buffer[c].counter <= now
        /\ buffer[c].mFirstEventSystemTimestamp <= buffer[c].mLastEventSystemTimestamp
        /\ buffer[c].mLastEventSystemTimestamp <= now
        /\ buffer[c].mFirstEventSystemTimestamp = 0 => buffer[c].mLastEventNumber = 0
    BY <1>1 DEF CountersOK
  <2>2. /\ buffer[c].counter \in Nat /\ buffer[c].mFirstEventNumber \in Nat /\ buffer[c].mLastEventNumber \in Nat
        /\ buffer[c].mFirstEventSystemTimestamp \in Nat /\ buffer[c].mLastEventSystemTimestamp \in Nat
    BY <1>1, FieldTypes, CapacityAssumption
  <2>3. CASE c # p
    <3>1. /\ buffer'[c].counter = buffer[c].counter
          /\ buffer'[c].mLastEventNumber = buffer[c].mLastEventNumber
          /\ buffer'[c].mFirstEventNumber = buffer[c].mFirstEventNumber
          /\ buffer'[c].mFirstEventSystemTimestamp = buffer[c].mFirstEventSystemTimestamp
          /\ buffer'[c].mLastEventSystemTimestamp = buffer[c].mLastEventSystemTimestamp
      BY <2>3, <1>4
    <3> QED BY <3>1, <2>1, <2>2, <1>2, <1>5
  <2>4. CASE c = p
    <3>1. buffer[p].mFirstEventSystemTimestamp # 0
      BY <1>1, <1>3, <1>4 DEF CallOK, FirstTimes
    <3>2. /\ buffer'[c].counter = buffer[c].counter + 1
          /\ buffer'[c].mLastEventNumber = buffer[c].counter
          /\ buffer'[c].mFirstEventNumber = buffer[c].mFirstEventNumber
          /\ buffer'[c].mFirstEventSystemTimestamp = buffer[c].mFirstEventSystemTimestamp
          /\ buffer'[c].mLastEventSystemTimestamp = now
      BY <2>4, <1>4
    <3> QED BY <3>1, <3>2, <2>1, <2>2, <2>4, <1>2, <1>5
  <2> QED BY <2>3, <2>4
<1>8. CallOK'
  BY <1>2 DEF CallOK
<1>9. LogOK'
  <2>1. PICK E, G, S, T : E = Log /\ G = Log' /\ S = Logged(E) /\ T = Logged(G)
    OBVIOUS
  <2>2. PICK F, L, K, X, Y, Z, t : F = Firsts /\ L = Lasts /\ K = Lasts' /\ X = FirstTimes
                                   /\ Y = LastTimes /\ Z = LastTimes' /\ t = now
    OBVIOUS
  <2>3. /\ E \in Logs /\ S \in SUBSET Entries /\ F \in [Buffers -> Nat] /\ L \in [Buffers -> Nat]
        /\ X \in [Buffers -> Nat] /\ Y \in [Buffers -> Nat] /\ t \in Nat
    BY <2>1, <2>2, StateTypes DEF IInv
  <2>4. G \in Logs /\ K \in [Buffers -> Nat] /\ Z \in [Buffers -> Nat]
    BY <2>1, <2>2, <1>4, FieldTypes, CapacityAssumption DEF Log, Logs, Lasts, LastTimes
  <2>5. Written(E, G, e)
    BY <2>1, <1>1, <1>4 DEF Written, Log
  <2>6. /\ NotTooFar(E) /\ Ordered(E) /\ Numbered(S, F, L)
        /\ NotTooLong(S, X, t) /\ Chained(S, F, L, X, Y)
    BY <2>1, <2>2 DEF IInv, LogOK
  <2>7. e.number = L[p] + 1 /\ F[p] <= L[p] + 1 /\ L[p] \in Nat
    BY <1>1, <1>4, <2>2, <2>3 DEF CountersOK, Firsts, Lasts
  <2>8. \A d \in S : d.priority = e.priority => d.number < e.number
    <3> SUFFICES ASSUME NEW d \in S, d.priority = p PROVE d.number < e.number
      BY <1>4
    <3>1. d.number \in F[p] .. L[p] /\ d.number \in Nat
      BY <2>3, <2>6, NumberType DEF Numbered
    <3>2. d.number <= L[p]
      BY <3>1
    <3> QED BY <3>1, <3>2, <2>7
  <2>9. NotTooFar(G) /\ Ordered(G)
    BY <2>1, <2>3, <2>4, <2>5, <2>6, <2>8, WriteOrdered
  <2>10. T = S \cup {e}
    BY <2>1, <2>3, <2>4, <2>5, WriteLogged
  <2>11. ChangedAt(L, K, p, L[p] + 1)
    BY <2>2, <2>7, <1>4 DEF ChangedAt, Lasts
  <2>12. ChangedAt(Y, Z, p, t)
    BY <2>2, <1>4 DEF ChangedAt, LastTimes
  <2>13. Numbered(T, F, K)
    BY <2>3, <2>4, <2>6, <2>7, <2>10, <2>11, <1>4, WriteNumbered
  <2>14. X[p] + e.delta <= t /\ (F[p] = 1 => Y[p] + e.delta = t) /\ e.time = t
    BY <1>1, <1>3, <1>4, <2>2 DEF CallOK
  <2>15. NotTooLong(T, X, t + 1) /\ Chained(T, F, K, X, Z)
    BY <2>3, <2>4, <2>6, <2>7, <2>10, <2>11, <2>12, <2>14, <1>4, WriteTimed
  <2>16. Firsts' = F /\ FirstTimes' = X
    BY <2>2, <1>4 DEF Firsts, FirstTimes
  <2> QED BY <2>1, <2>2, <2>9, <2>13, <2>15, <2>16, <1>2 DEF LogOK
<1> QED BY <1>6, <1>7, <1>8, <1>9 DEF IInv

\* What SetFirstTime may do to the buffers.
FirstSet(B, p) ==
    /\ \A c \in Buffers : c # p => B[c] = buffer[c]
    /\ \/ B[p] = buffer[p]
       \/ /\ buffer[p].mFirstEventSystemTimestamp = 0
          /\ B[p] \in CircularEventBuffers
          /\ B[p].events = buffer[p].events
          /\ B[p].mFirstEventNumber = buffer[p].mFirstEventNumber
          /\ B[p].mLastEventNumber = buffer[p].mLastEventNumber
          /\ B[p].counter = buffer[p].counter
          /\ B[p].mFirstEventSystemTimestamp = now
          /\ B[p].mLastEventSystemTimestamp = now

LEMMA SetFirstTimeSets ==
    ASSUME TypeOK, now <= MaxTime, NEW p \in Buffers
    PROVE  /\ SetFirstTime(p) \in [Buffers -> CircularEventBuffers]
           /\ FirstSet(SetFirstTime(p), p)
           /\ SetFirstTime(p)[p].mFirstEventSystemTimestamp # 0
<1>1. buffer \in [Buffers -> CircularEventBuffers] /\ now \in 0 .. MaxTime /\ now # 0
  BY CapacityAssumption DEF TypeOK
<1>2. CASE buffer[p].mFirstEventSystemTimestamp # 0
  BY <1>1, <1>2 DEF SetFirstTime, FirstSet
<1>3. CASE buffer[p].mFirstEventSystemTimestamp = 0
  <2>1. PICK r \in CircularEventBuffers : r = buffer[p]
    BY <1>1
  <2>2. PICK t \in 0 .. MaxTime : t = now
    BY <1>1
  <2>3. PICK u : u = [r EXCEPT !.mFirstEventSystemTimestamp = t, !.mLastEventSystemTimestamp = t]
    OBVIOUS
  <2>4. u \in CircularEventBuffers
    BY <2>3 DEF CircularEventBuffers
  <2>5. /\ u.events = r.events /\ u.mFirstEventNumber = r.mFirstEventNumber
        /\ u.mLastEventNumber = r.mLastEventNumber /\ u.counter = r.counter
        /\ u.mFirstEventSystemTimestamp = t /\ u.mLastEventSystemTimestamp = t
    BY <2>3 DEF CircularEventBuffers
  <2>6. SetFirstTime(p) = [buffer EXCEPT ![p] = u]
    BY <1>1, <1>3, <2>1, <2>2, <2>3 DEF SetFirstTime
  <2>7. PICK B : B = SetFirstTime(p)
    OBVIOUS
  <2>8. /\ B \in [Buffers -> CircularEventBuffers] /\ B[p] = u
        /\ \A c \in Buffers : c # p => B[c] = buffer[c]
    BY <1>1, <2>4, <2>6, <2>7
  <2>9. FirstSet(B, p)
    BY <1>3, <2>1, <2>2, <2>4, <2>5, <2>8 DEF FirstSet
  <2>10. B[p].mFirstEventSystemTimestamp # 0
    BY <1>1, <2>2, <2>5, <2>8
  <2> QED BY <2>7, <2>8, <2>9, <2>10
<1> QED BY <1>2, <1>3

\* Setting the first time of a priority keeps all but what is about the call.
LEMMA FirstSetKeeps ==
    ASSUME IInv, now <= MaxTime, NEW p \in Buffers, FirstSet(buffer', p),
           buffer' \in [Buffers -> CircularEventBuffers],
           now' = now \/ now' = now + 1
    PROVE  /\ \A c \in Buffers : DataLength(buffer'[c].events) <= Capacity[c]
           /\ CountersOK' /\ LogOK' /\ now' \in 1 .. MaxTime + 1
<1>1. TypeOK /\ CountersOK /\ buffer \in [Buffers -> CircularEventBuffers]
  BY DEF IInv, TypeOK
<1>2. now \in Nat /\ now >= 1 /\ now' \in Nat /\ now <= now' /\ now' \in 1 .. MaxTime + 1
  BY <1>1, CapacityAssumption DEF TypeOK
<1>3. \A c \in Buffers :
          /\ buffer'[c].events = buffer[c].events
          /\ buffer'[c].mFirstEventNumber = buffer[c].mFirstEventNumber
          /\ buffer'[c].mLastEventNumber = buffer[c].mLastEventNumber
          /\ buffer'[c].counter = buffer[c].counter
  BY DEF FirstSet
<1>4. \A c \in Buffers : DataLength(buffer'[c].events) <= Capacity[c]
  BY <1>1, <1>3 DEF TypeOK
<1>5. CountersOK'
  <2> SUFFICES ASSUME NEW c \in Buffers
               PROVE  /\ buffer'[c].counter = buffer'[c].mLastEventNumber + 1
                      /\ buffer'[c].mFirstEventNumber <= buffer'[c].counter
                      /\ buffer'[c].counter <= now'
                      /\ buffer'[c].mFirstEventSystemTimestamp <= buffer'[c].mLastEventSystemTimestamp
                      /\ buffer'[c].mLastEventSystemTimestamp <= now'
                      /\ buffer'[c].mFirstEventSystemTimestamp = 0 => buffer'[c].mLastEventNumber = 0
    BY DEF CountersOK
  <2>1. /\ buffer[c].counter = buffer[c].mLastEventNumber + 1
        /\ buffer[c].mFirstEventNumber <= buffer[c].counter
        /\ buffer[c].counter <= now
        /\ buffer[c].mFirstEventSystemTimestamp <= buffer[c].mLastEventSystemTimestamp
        /\ buffer[c].mLastEventSystemTimestamp <= now
        /\ buffer[c].mFirstEventSystemTimestamp = 0 => buffer[c].mLastEventNumber = 0
    BY <1>1 DEF CountersOK
  <2>2. buffer[c].counter \in Nat /\ buffer[c].mLastEventSystemTimestamp \in Nat
    BY <1>1, FieldTypes, CapacityAssumption
  <2>3. CASE buffer'[c] = buffer[c]
    BY <2>1, <2>2, <2>3, <1>2
  <2>4. CASE buffer'[c].mFirstEventSystemTimestamp = now /\ buffer'[c].mLastEventSystemTimestamp = now
    <3>1. buffer'[c].counter <= now'
      BY <2>1, <2>2, <1>2, <1>3
    <3> QED BY <3>1, <2>1, <2>4, <1>2, <1>3
  <2> QED BY <2>3, <2>4 DEF FirstSet
<1>6. LogOK'
  <2>1. PICK S, F, L, X, Y, V, W, t, u :
            /\ S = Logged(Log) /\ F = Firsts /\ L = Lasts /\ X = FirstTimes /\ Y = LastTimes
            /\ V = FirstTimes' /\ W = LastTimes' /\ t = now /\ u = now'
    OBVIOUS
  <2>2. /\ S \in SUBSET Entries /\ F \in [Buffers -> Nat] /\ L \in [Buffers -> Nat]
        /\ X \in [Buffers -> Nat] /\ Y \in [Buffers -> Nat] /\ t \in Nat /\ u \in Nat /\ t <= u
    BY <1>1, <1>2, <2>1, StateTypes
  <2>3. V \in [Buffers -> Nat] /\ W \in [Buffers -> Nat]
    BY <2>1, FieldTypes, CapacityAssumption DEF FirstTimes, LastTimes
  <2>4. Numbered(S, F, L) /\ NotTooLong(S, X, t) /\ Chained(S, F, L, X, Y)
    BY <2>1 DEF IInv, LogOK
  <2>5. NotTooLong(S, V, u) /\ Chained(S, F, L, V, W)
    <3>1. CASE buffer'[p] = buffer[p]
      <4>1. V = X /\ W = Y
        BY <3>1, <2>1 DEF FirstSet, FirstTimes, LastTimes
      <4>2. NotTooLong(S, X, u)
        <5> SUFFICES ASSUME NEW e \in S PROVE e.time <= u /\ X[e.priority] + e.delta <= e.time
          BY DEF NotTooLong
        <5>1. e.time <= t /\ X[e.priority] + e.delta <= e.time /\ e.time \in Nat
          BY <2>2, <2>4, NumberType DEF NotTooLong
        <5> QED BY <5>1, <2>2
      <4> QED BY <4>1, <4>2, <2>4
    <3>2. CASE buffer'[p] # buffer[p]
      <4>1. buffer[p].mFirstEventSystemTimestamp = 0 /\ V[p] = t /\ W[p] = t
        BY <3>2, <2>1 DEF FirstSet, FirstTimes, LastTimes
      <4>2. L[p] = 0 /\ F[p] >= 1
        <5>1. buffer[p].mFirstEventNumber \in 1 .. MaxTime + 1
          BY <1>1, FieldTypes
        <5> QED BY <4>1, <5>1, <2>1, <1>1, CapacityAssumption DEF CountersOK, Lasts, Firsts
      <4>3. ChangedAt(X, V, p, W[p]) /\ ChangedAt(Y, W, p, W[p])
        BY <4>1, <2>1 DEF ChangedAt, FirstSet, FirstTimes, LastTimes
      <4> QED BY <4>2, <4>3, <2>2, <2>3, <2>4, FirstTimed
    <3> QED BY <3>1, <3>2
  <2>6. Log' = Log /\ Firsts' = Firsts /\ Lasts' = Lasts
    BY <1>3 DEF Log, Firsts, Lasts
  <2> QED BY <2>1, <2>4, <2>5, <2>6 DEF IInv, LogOK
<1> QED BY <1>2, <1>4, <1>5, <1>6

\* A call starts: the difference that it will store is the time since the last
\* event of its priority.
LEMMA LogEventStep ==
    ASSUME IInv, NEW p \in Priorities, NEW size \in Sizes, LogEvent(p, size)
    PROVE  IInv'
<1>1. TypeOK /\ GetPriorityBuffer(p) = p /\ p \in Buffers
  BY PriorityBuffer DEF IInv
<1>2. /\ buffer' = SetFirstTime(p) /\ now' = now /\ now <= MaxTime
      /\ call' = [priority |-> p, size |-> size,
                  delta |-> now - buffer'[p].mLastEventSystemTimestamp,
                  eventBuffer |-> 1, requiredSpace |-> size]
  BY <1>1 DEF LogEvent
<1>3. /\ buffer' \in [Buffers -> CircularEventBuffers] /\ FirstSet(buffer', p)
      /\ buffer'[p].mFirstEventSystemTimestamp # 0
  BY <1>1, <1>2, SetFirstTimeSets
<1>4. /\ \A c \in Buffers : DataLength(buffer'[c].events) <= Capacity[c]
      /\ CountersOK' /\ LogOK' /\ now' \in 1 .. MaxTime + 1
  BY <1>1, <1>2, <1>3, FirstSetKeeps
<1>5. PICK f, l, t : /\ f = buffer'[p].mFirstEventSystemTimestamp
                     /\ l = buffer'[p].mLastEventSystemTimestamp /\ t = now
  OBVIOUS
<1>6. f \in Nat /\ l \in Nat /\ t \in Nat /\ f <= l /\ l <= t /\ t <= MaxTime /\ f # 0 /\ MaxTime \in Nat
  BY <1>1, <1>2, <1>3, <1>4, <1>5, FieldTypes, CapacityAssumption DEF CountersOK, TypeOK
<1>7. PICK d \in 0 .. MaxTime : d = t - l
  BY <1>6
<1>8. f + d <= t /\ l + d = t
  BY <1>6, <1>7
<1>9. call' = [priority |-> p, size |-> size, delta |-> d, eventBuffer |-> 1, requiredSpace |-> size]
  BY <1>2, <1>5, <1>7
<1>10. call' \in Calls
  BY <1>9, BufferFacts DEF Calls
<1>11. /\ call'.priority = p /\ call'.size = size /\ call'.delta = d
       /\ call'.eventBuffer = 1 /\ call'.requiredSpace = size
  BY <1>9
<1>12. TypeOK'
  BY <1>3, <1>4, <1>10 DEF TypeOK
<1>13. CallOK'
  <2>1. /\ FirstTimes'[p] = f /\ LastTimes'[p] = l
    BY <1>1, <1>5 DEF FirstTimes, LastTimes
  <2>2. (call.requiredSpace = Waiting(call.eventBuffer).size)'
    BY <1>11 DEF Waiting
  <2>3. \A c \in 1 .. call'.eventBuffer - 1 : FALSE
    BY <1>11
  <2>4. now' = t /\ now' <= MaxTime
    BY <1>2, <1>5
  <2> QED BY <2>1, <2>2, <2>3, <2>4, <1>6, <1>8, <1>11 DEF CallOK
<1> QED BY <1>4, <1>12, <1>13 DEF IInv

\* A call that finds no packet buffer: the times it set in another than the
\* first buffer stay.
LEMMA LogEventNoMemoryStep ==
    ASSUME IInv, NEW p \in Priorities, LogEventNoMemory(p)
    PROVE  IInv'
<1>1. TypeOK /\ GetPriorityBuffer(p) = p /\ p \in Buffers /\ 1 \in Buffers
  BY PriorityBuffer, BufferFacts DEF IInv
<1>2. PICK B : B = SetFirstTime(p)
  OBVIOUS
<1>3. /\ buffer' = [B EXCEPT ![1] = buffer[1]] /\ now' = now + 1 /\ now <= MaxTime
      /\ call' = call /\ call = NoCall
  BY <1>1, <1>2 DEF LogEventNoMemory
<1>4. B \in [Buffers -> CircularEventBuffers] /\ FirstSet(B, p)
  BY <1>1, <1>2, <1>3, SetFirstTimeSets
<1>5. buffer' \in [Buffers -> CircularEventBuffers] /\ FirstSet(buffer', p)
  <2>1. buffer[1] \in CircularEventBuffers
    BY <1>1 DEF TypeOK
  <2>2. /\ buffer' \in [Buffers -> CircularEventBuffers] /\ buffer'[1] = buffer[1]
        /\ \A c \in Buffers : c # 1 => buffer'[c] = B[c]
    BY <1>1, <1>3, <1>4, <2>1
  <2> QED BY <1>4, <2>2 DEF FirstSet
<1>6. /\ \A c \in Buffers : DataLength(buffer'[c].events) <= Capacity[c]
      /\ CountersOK' /\ LogOK' /\ now' \in 1 .. MaxTime + 1
  BY <1>1, <1>3, <1>5, FirstSetKeeps
<1>7. TypeOK' /\ CallOK'
  BY <1>3, <1>5, <1>6 DEF TypeOK, CallOK
<1> QED BY <1>6, <1>7 DEF IInv

LEMMA InitStep == Init => IInv
<1> SUFFICES ASSUME Init PROVE IInv
  OBVIOUS
<1>1. \A b \in Buffers : buffer[b] = NewBuffer
  BY DEF Init
<1>2. NewBuffer \in CircularEventBuffers
  <2>1. <<>> \in Seq(Entries)
    OBVIOUS
  <2> QED BY <2>1, CapacityAssumption DEF NewBuffer, CircularEventBuffers
<1>3. now = 1 /\ call = NoCall /\ buffer \in [Buffers -> CircularEventBuffers]
  BY <1>2 DEF Init
<1>4. /\ NewBuffer.events = <<>> /\ NewBuffer.mFirstEventNumber = 1
      /\ NewBuffer.mLastEventNumber = 0 /\ NewBuffer.counter = 1
      /\ NewBuffer.mFirstEventSystemTimestamp = 0 /\ NewBuffer.mLastEventSystemTimestamp = 0
  BY DEF NewBuffer
<1>5. TypeOK
  <2>1. \A b \in Buffers : DataLength(buffer[b].events) <= Capacity[b]
    BY <1>1, <1>4, EmptyLength, CapacityAssumption
  <2> QED BY <1>3, <2>1, CapacityAssumption DEF TypeOK
<1>6. CountersOK /\ CallOK
  BY <1>1, <1>3, <1>4 DEF CountersOK, CallOK
<1>7. \A b \in Buffers : Log[b] = <<>> /\ DOMAIN Log[b] = {}
  BY <1>1, <1>4 DEF Log
<1>8. Logged(Log) = {}
  BY <1>7 DEF Logged
<1>9. \A b \in Buffers : Firsts[b] = 1 /\ Lasts[b] = 0 /\ FirstTimes[b] = 0 /\ LastTimes[b] = 0
  BY <1>1, <1>4 DEF Firsts, Lasts, FirstTimes, LastTimes
<1>10. NotTooFar(Log) /\ Ordered(Log)
  BY <1>7 DEF NotTooFar, Ordered
<1>11. Numbered(Logged(Log), Firsts, Lasts)
  BY <1>8, <1>9 DEF Numbered, Priorities, Buffers
<1>12. Chained(Logged(Log), Firsts, Lasts, FirstTimes, LastTimes)
  BY <1>8, <1>9 DEF Chained, Priorities, Buffers
<1> QED BY <1>5, <1>6, <1>8, <1>10, <1>11, <1>12 DEF IInv, LogOK, NotTooLong

LEMMA NextStep == IInv /\ [Next]_vars => IInv'
<1> SUFFICES ASSUME IInv, [Next]_vars PROVE IInv'
  OBVIOUS
<1>1. CASE \E p \in Priorities : \E size \in Sizes : LogEvent(p, size)
  BY <1>1, LogEventStep
<1>2. CASE \E p \in Priorities : LogEventNoMemory(p)
  BY <1>2, LogEventNoMemoryStep
<1>3. CASE \E b \in Buffers : DropHead(b) \/ MoveHead(b) \/ GoToNextBuffer(b) \/ GoBack(b)
  BY <1>3, DropStep, MoveStep, GoToNextStep, GoBackStep
<1>4. CASE WriteEvent
  BY <1>4, WriteStep
<1>5. CASE UNCHANGED vars
  <2>1. buffer' = buffer /\ now' = now /\ call' = call
    BY <1>5 DEF vars
  <2>2. TypeOK' /\ CountersOK'
    BY <2>1 DEF IInv, TypeOK, CountersOK
  <2>3. LogOK'
    BY <2>1 DEF IInv, LogOK, Log, Firsts, Lasts, FirstTimes, LastTimes
  <2>4. CallOK'
    BY <2>1 DEF IInv, CallOK, Waiting, Firsts, FirstTimes, LastTimes
  <2> QED BY <2>2, <2>3, <2>4 DEF IInv
<1> QED BY <1>1, <1>2, <1>3, <1>4, <1>5 DEF Next

-----------------------------------------------------------------------------
(* The theorems about logging.                                             *)

\* Every state of the log, also half way through a call of LogEvent, is as the
\* inductive invariant says.
THEOREM InvariantHolds == Spec => []IInv
BY InitStep, NextStep, PTL DEF Spec

\* TypeOK: EnsureSpaceInCircularBuffer never lets a buffer hold more than it
\* has room for, and ConstructEvent's difference of times does not underflow,
\* for any number of buffers, any capacities that hold every event, any sizes.
THEOREM TypeCorrect == Spec => []TypeOK
<1>1. IInv => TypeOK
  BY DEF IInv
<1> QED BY <1>1, InvariantHolds, PTL

\* A step that drops: for the event that waits, and it does not fit.
LEMMA DropNeeded ==
    ASSUME IInv, NEW b \in Buffers, DropHead(b)
    PROVE  /\ buffer'[b].mFirstEventNumber = buffer[b].mFirstEventNumber + 1
           /\ Waiting(b).priority >= b
           /\ Waiting(b).size > AvailableDataLength(b)
<1>1. TypeOK /\ CallOK /\ MakingRoom(b) /\ b \in Nat /\ 1 <= b /\ b <= NumBuffers /\ NumBuffers \in Nat
  BY BufferFacts DEF IInv, DropHead
<1>2. call # NoCall /\ call \in Calls /\ call.eventBuffer = b /\ call.requiredSpace \in Sizes
  BY <1>1, FullNotEmpty
<1>3. Waiting(b).size = call.requiredSpace
  BY <1>1, <1>2 DEF CallOK
<1>4. Waiting(b).size > AvailableDataLength(b)
  <2>1. buffer[b].events \in Seq(Entries)
    BY <1>1, FullNotEmpty
  <2>2. AvailableDataLength(b) \in Int
    BY <2>1, LengthType, CapacityAssumption DEF AvailableDataLength
  <2>3. call.requiredSpace \in Int
    <3>1. \A k \in Sizes : k \in Int
      BY CapacityAssumption
    <3> QED BY <3>1, <1>2
  <2>4. ~(call.requiredSpace <= AvailableDataLength(b))
    BY <1>1 DEF MakingRoom, HasRoom
  <2> QED BY <2>2, <2>3, <2>4, <1>3
<1>5. Waiting(b).priority >= b
  <2>1. CASE b = 1
    BY <2>1, <1>2, CapacityAssumption DEF Waiting, Calls, Priorities
  <2>2. CASE b # 1
    <3>1. b - 1 \in 1 .. call.eventBuffer - 1 /\ b - 1 \in Buffers
      BY <2>2, <1>1, <1>2 DEF Buffers
    <3>2. PICK s \in Seq(Entries) : s = buffer[b - 1].events
      BY <3>1, <1>1, FieldTypes DEF TypeOK
    <3>3. s # <<>> /\ Head(s).priority > b - 1
      BY <3>1, <3>2, <1>1, <1>2 DEF CallOK
    <3>4. Head(s) \in Entries
      BY <3>3
    <3>5. Head(s).priority \in Nat
      BY <3>4, CapacityAssumption DEF Entries, Priorities
    <3>6. Head(s).priority >= b
      BY <3>3, <3>5, <1>1
    <3> QED BY <3>2, <3>6, <2>2 DEF Waiting
  <2> QED BY <2>1, <2>2
<1> QED BY <1>4, <1>5, DropBuffers

\* The steps of the other actions drop nothing.
LEMMA OthersDropNothing ==
    ASSUME IInv, [Next]_vars, \A b \in Buffers : ~DropHead(b)
    PROVE  \A c \in Buffers : buffer'[c].mFirstEventNumber = buffer[c].mFirstEventNumber
<1>1. TypeOK /\ buffer \in [Buffers -> CircularEventBuffers]
  BY DEF IInv, TypeOK
<1>2. ASSUME NEW p \in Priorities, now <= MaxTime
      PROVE  \A c \in Buffers : SetFirstTime(p)[c].mFirstEventNumber = buffer[c].mFirstEventNumber
  <2>1. p \in Buffers
    BY PriorityBuffer
  <2> QED BY <2>1, <1>1, <1>2, SetFirstTimeSets DEF FirstSet
<1>3. ASSUME NEW p \in Priorities, NEW size \in Sizes, LogEvent(p, size)
      PROVE  \A c \in Buffers : buffer'[c].mFirstEventNumber = buffer[c].mFirstEventNumber
  BY <1>2, <1>3, PriorityBuffer DEF LogEvent
<1>4. ASSUME NEW p \in Priorities, LogEventNoMemory(p)
      PROVE  \A c \in Buffers : buffer'[c].mFirstEventNumber = buffer[c].mFirstEventNumber
  <2>1. PICK B : B = SetFirstTime(p)
    OBVIOUS
  <2>2. buffer' = [B EXCEPT ![1] = buffer[1]] /\ now <= MaxTime /\ p \in Buffers
    BY <2>1, <1>4, PriorityBuffer DEF LogEventNoMemory
  <2>3. B \in [Buffers -> CircularEventBuffers] /\ 1 \in Buffers
    BY <2>1, <2>2, <1>1, SetFirstTimeSets, BufferFacts
  <2>4. \A c \in Buffers : B[c].mFirstEventNumber = buffer[c].mFirstEventNumber
    BY <1>2, <2>1, <2>2
  <2> QED BY <2>2, <2>3, <2>4
<1>5. ASSUME NEW b \in Buffers, MoveHead(b)
      PROVE  \A c \in Buffers : buffer'[c].mFirstEventNumber = buffer[c].mFirstEventNumber
  BY <1>5, MoveBuffers
<1>6. ASSUME NEW b \in Buffers, GoToNextBuffer(b)
      PROVE  \A c \in Buffers : buffer'[c].mFirstEventNumber = buffer[c].mFirstEventNumber
  <2>1. PICK r \in CircularEventBuffers : r = buffer[b]
    BY <1>1
  <2>2. PICK u : u = [r EXCEPT !.mRequiredSpaceForEvicted = call.requiredSpace]
    OBVIOUS
  <2>3. u.mFirstEventNumber = r.mFirstEventNumber
    BY <2>2 DEF CircularEventBuffers
  <2>4. buffer' = [buffer EXCEPT ![b] = u]
    BY <1>1, <1>6, <2>1, <2>2 DEF GoToNextBuffer
  <2> QED BY <1>1, <2>1, <2>3, <2>4
<1>7. ASSUME NEW b \in Buffers, GoBack(b) PROVE buffer' = buffer
  BY <1>7 DEF GoBack
<1>8. ASSUME WriteEvent
      PROVE  \A c \in Buffers : buffer'[c].mFirstEventNumber = buffer[c].mFirstEventNumber
  BY <1>8, WriteBuffers
<1>9. ASSUME UNCHANGED vars PROVE buffer' = buffer
  BY <1>9 DEF vars
<1> QED BY <1>3, <1>4, <1>5, <1>6, <1>7, <1>8, <1>9 DEF Next

\* NoNeedlessDrop: EvictEvent is only reached for an event that waits for the
\* buffer, is meant for it or a later one, and does not fit; whatever was
\* saved in mRequiredSpaceForEvicted on the way down the chain.
THEOREM DropsAreNeeded == Spec => NoNeedlessDrop
<1> DEFINE Needed ==
        \A b \in Buffers :
          buffer'[b].mFirstEventNumber # buffer[b].mFirstEventNumber =>
              /\ buffer'[b].mFirstEventNumber = buffer[b].mFirstEventNumber + 1
              /\ Waiting(b).priority >= b
              /\ Waiting(b).size > AvailableDataLength(b)
<1>1. IInv /\ [Next]_vars => [Needed]_vars
  <2> SUFFICES ASSUME IInv, [Next]_vars PROVE Needed
    OBVIOUS
  <2>1. CASE \A b \in Buffers : ~DropHead(b)
    BY <2>1, OthersDropNothing
  <2>2. ASSUME NEW c \in Buffers, DropHead(c) PROVE Needed
    <3>1. \A b \in Buffers : b # c => buffer'[b] = buffer[b]
      BY <2>2, DropBuffers
    <3> QED BY <3>1, <2>2, DropNeeded
  <2> QED BY <2>1, <2>2
<1> QED BY <1>1, InvariantHolds, PTL DEF Spec, NoNeedlessDrop

\* While EnsureSpaceInCircularBuffer makes room, the buffer it looks at has a
\* head to drop or to move, and where the head is to be moved there is a next
\* buffer: EvictHead never meets an empty buffer, and GetNextCircularEventBuffer
\* never a missing one.
THEOREM RoomCanBeMade ==
    Spec => [](\A b \in Buffers : MakingRoom(b) =>
                 /\ buffer[b].events # <<>>
                 /\ ~IsFinalDestinationForPriority(b, Head(buffer[b].events).priority)
                      => b + 1 \in Buffers)
<1>1. ASSUME IInv, NEW b \in Buffers, MakingRoom(b)
      PROVE  /\ buffer[b].events # <<>>
             /\ ~IsFinalDestinationForPriority(b, Head(buffer[b].events).priority)
                  => b + 1 \in Buffers
  <2>1. TypeOK
    BY <1>1 DEF IInv
  <2>2. buffer[b].events # <<>> /\ Head(buffer[b].events) \in Entries
    BY <1>1, <2>1, FullNotEmpty
  <2>3. Head(buffer[b].events).priority \in Priorities
    BY <2>2 DEF Entries
  <2> QED BY <2>2, <2>3, NotFinal
<1>2. IInv => \A b \in Buffers : MakingRoom(b) =>
                 /\ buffer[b].events # <<>>
                 /\ ~IsFinalDestinationForPriority(b, Head(buffer[b].events).priority)
                      => b + 1 \in Buffers
  BY <1>1
<1> QED BY <1>2, InvariantHolds, PTL

-----------------------------------------------------------------------------
(* Reading the log.                                                        *)

\* R[b]: what is read from buffer b on, down to the first one.
Readers(R, E) ==
    /\ R \in [0 .. NumBuffers -> Seq(Entries)]
    /\ R[0] = <<>>
    /\ \A b \in Buffers : R[b] = E[b] \o R[b - 1]

\* The recursive function that GetEventReader is defined with.
LEMMA ReaderReads ==
    ASSUME TypeOK, NEW p \in Priorities
    PROVE  \E R : Readers(R, Log) /\ GetEventReader(p) = R[p]
<1>1. PICK E \in Logs : E = Log
  BY StateTypes
<1> DEFINE n == NumBuffers
           V == Seq(Entries)
           st == [x \in V \X (Nat \ {0}) |-> IF x[2] \in Buffers THEN E[x[2]] \o x[1] ELSE <<>>]
           Is(h) == h = [b \in 0 .. n |-> IF b = 0 THEN <<>> ELSE E[b] \o h[b - 1]]
           IsReader(h) == h = [b \in 0 .. n |-> IF b = 0 THEN <<>> ELSE buffer[b].events \o h[b - 1]]
<1>2. n \in Nat /\ <<>> \in V /\ \A b \in 1 .. n : b \in Buffers /\ b \in Nat \ {0} /\ E[b] \in V
  BY BufferFacts DEF Logs, Buffers
<1>3. st \in [V \X (Nat \ {0}) -> V]
  BY <1>2 DEF Logs
<1> HIDE DEF st
<1>4. PICK f : IsSteps(f, V, <<>>, st, n)
  BY <1>2, <1>3, StepsExist
<1>5. ASSUME NEW b \in 1 .. n PROVE f[b] = E[b] \o f[b - 1]
  <2>1. f[b] = st[<<f[b - 1], b>>] /\ f[b - 1] \in V
    BY <1>2, <1>4 DEF IsSteps
  <2>2. <<f[b - 1], b>> \in V \X (Nat \ {0})
    BY <2>1, <1>2
  <2>3. st[<<f[b - 1], b>>] = E[b] \o f[b - 1]
    BY <2>2, <1>2 DEF st
  <2> QED BY <2>1, <2>3
<1>6. Is(f)
  <2>1. f = [b \in 0 .. n |-> f[b]]
    BY <1>4 DEF IsSteps
  <2>2. ASSUME NEW b \in 0 .. n PROVE f[b] = IF b = 0 THEN <<>> ELSE E[b] \o f[b - 1]
    <3>1. b = 0 \/ b \in 1 .. n
      BY <1>2
    <3> QED BY <3>1, <1>4, <1>5 DEF IsSteps
  <2> QED BY <2>1, <2>2
<1>7. PICK g : g = CHOOSE h : Is(h)
  OBVIOUS
<1>8. Is(g)
  BY <1>6, <1>7
<1>9. GetEventReader(p) = g[p]
  <2>1. \A b \in 1 .. n : E[b] = buffer[b].events
    BY <1>1, <1>2 DEF Log
  <2>2. ASSUME NEW h PROVE Is(h) <=> IsReader(h)
    <3>1. \A b \in 0 .. n : b = 0 \/ b \in 1 .. n
      BY <1>2
    <3>2. \A b \in 0 .. n : (IF b = 0 THEN <<>> ELSE E[b] \o h[b - 1])
                               = (IF b = 0 THEN <<>> ELSE buffer[b].events \o h[b - 1])
      BY <2>1, <3>1
    <3> QED BY <3>2
  <2> HIDE DEF Is, IsReader
  <2>3. (CHOOSE h : Is(h)) = (CHOOSE h : IsReader(h))
    BY <2>2
  <2>4. GetPriorityBuffer(p) = p
    BY PriorityBuffer
  <2> QED BY <1>7, <2>3, <2>4 DEF GetEventReader, IsReader
<1>10. g[0] = <<>> /\ \A b \in 1 .. n : g[b] = E[b] \o g[b - 1]
  <2>1. \A b \in 0 .. n : g[b] = IF b = 0 THEN <<>> ELSE E[b] \o g[b - 1]
    BY <1>8
  <2>2. 0 \in 0 .. n /\ \A b \in 1 .. n : b \in 0 .. n /\ b # 0
    BY <1>2
  <2>3. g[0] = <<>>
    BY <2>1, <2>2
  <2>4. ASSUME NEW b \in 1 .. n PROVE g[b] = E[b] \o g[b - 1]
    BY <2>1, <2>2
  <2> QED BY <2>3, <2>4
<1>11. g \in [0 .. n -> V]
  <2> DEFINE S == {k \in Nat : k <= n => g[k] \in V}
  <2>1. 0 \in S
    BY <1>2, <1>10
  <2>2. ASSUME NEW k \in Nat, k \in S PROVE k + 1 \in S
    <3> SUFFICES ASSUME k + 1 <= n PROVE g[k + 1] \in V
      OBVIOUS
    <3>1. k + 1 \in 1 .. n /\ (k + 1) - 1 = k /\ g[k] \in V
      BY <2>2, <1>2
    <3>2. g[k + 1] = E[k + 1] \o g[k] /\ E[k + 1] \in V
      BY <3>1, <1>2, <1>10
    <3> QED BY <3>1, <3>2
  <2> HIDE DEF S
  <2>3. \A k \in Nat : k \in S
    BY <2>1, <2>2, SetInduction
  <2>4. \A b \in 0 .. n : g[b] \in V
    BY <2>3, <1>2 DEF S
  <2>5. g = [b \in 0 .. n |-> g[b]]
    BY <1>8
  <2> QED BY <2>4, <2>5
<1> QED BY <1>1, <1>9, <1>10, <1>11 DEF Readers, Buffers

\* The i-th entry of s is the one at place I[i] of buffer B[i] in E; together
\* they are the entries of the first k buffers, from the last of these on.
Placed(s, E, k, B, I) ==
    /\ B \in [1 .. Len(s) -> 1 .. k] /\ I \in [1 .. Len(s) -> Nat]
    /\ \A i \in 1 .. Len(s) : I[i] \in 1 .. Len(E[B[i]]) /\ s[i] = E[B[i]][I[i]]
    /\ \A b \in 1 .. k : \A m \in 1 .. Len(E[b]) : \E i \in 1 .. Len(s) : B[i] = b /\ I[i] = m
    /\ \A i, j \in 1 .. Len(s) : i < j => B[i] > B[j] \/ (B[i] = B[j] /\ I[i] < I[j])

\* One more buffer in front.
LEMMA OneMoreBuffer ==
    ASSUME NEW k \in Nat, NEW E, NEW s \in Seq(Entries), NEW B, NEW I,
           E[k + 1] \in Seq(Entries), Placed(s, E, k, B, I)
    PROVE  \E C, J : Placed(E[k + 1] \o s, E, k + 1, C, J)
<1>1. PICK e \in Seq(Entries) : e = E[k + 1]
  OBVIOUS
<1>2. PICK l \in Nat, m \in Nat : l = Len(e) /\ m = Len(s)
  OBVIOUS
<1>3. PICK t \in Seq(Entries) : t = e \o s
  <2>1. e \o s \in Seq(Entries)
    OBVIOUS
  <2> QED BY <2>1
<1>4. /\ Len(t) = l + m /\ \A i \in 1 .. l : t[i] = e[i]
      /\ \A i \in l + 1 .. l + m : t[i] = s[i - l]
  BY <1>2, <1>3
<1>5. PICK C : C = [i \in 1 .. l + m |-> IF i <= l THEN k + 1 ELSE B[i - l]]
  OBVIOUS
<1>6. PICK J : J = [i \in 1 .. l + m |-> IF i <= l THEN i ELSE I[i - l]]
  OBVIOUS
<1>7. /\ B \in [1 .. m -> 1 .. k] /\ I \in [1 .. m -> Nat]
      /\ \A i \in 1 .. m : I[i] \in 1 .. Len(E[B[i]]) /\ s[i] = E[B[i]][I[i]]
      /\ \A b \in 1 .. k : \A q \in 1 .. Len(E[b]) : \E i \in 1 .. m : B[i] = b /\ I[i] = q
      /\ \A i, j \in 1 .. m : i < j => B[i] > B[j] \/ (B[i] = B[j] /\ I[i] < I[j])
  BY <1>2 DEF Placed
<1>8. \A i \in 1 .. l + m : i \in Nat /\ (i \in 1 .. l \/ (i \in l + 1 .. l + m /\ i - l \in 1 .. m))
  OBVIOUS
<1>9. \A i \in 1 .. l : C[i] = k + 1 /\ J[i] = i /\ i \in 1 .. l + m
  BY <1>5, <1>6
<1>10. \A i \in l + 1 .. l + m : C[i] = B[i - l] /\ J[i] = I[i - l] /\ i - l \in 1 .. m /\ i \in 1 .. l + m
  BY <1>5, <1>6
<1>11. C \in [1 .. l + m -> 1 .. k + 1] /\ J \in [1 .. l + m -> Nat]
  <2>1. ASSUME NEW i \in 1 .. l + m PROVE C[i] \in 1 .. k + 1 /\ J[i] \in Nat
    <3>1. CASE i \in 1 .. l
      BY <3>1, <1>9
    <3>2. CASE i \in l + 1 .. l + m
      <4>1. B[i - l] \in 1 .. k /\ I[i - l] \in Nat
        BY <3>2, <1>7, <1>10
      <4> QED BY <4>1, <3>2, <1>10
    <3> QED BY <3>1, <3>2, <1>8
  <2> QED BY <2>1, <1>5, <1>6
<1>12. ASSUME NEW i \in 1 .. l + m PROVE J[i] \in 1 .. Len(E[C[i]]) /\ t[i] = E[C[i]][J[i]]
  <2>1. CASE i \in 1 .. l
    BY <2>1, <1>1, <1>2, <1>4, <1>9
  <2>2. CASE i \in l + 1 .. l + m
    <3>1. PICK x \in 1 .. m : x = i - l
      BY <2>2, <1>10
    <3>2. C[i] = B[x] /\ J[i] = I[x] /\ t[i] = s[x]
      BY <2>2, <3>1, <1>4, <1>10
    <3>3. I[x] \in 1 .. Len(E[B[x]]) /\ s[x] = E[B[x]][I[x]]
      BY <1>7
    <3> QED BY <3>2, <3>3
  <2> QED BY <2>1, <2>2, <1>8
<1>13. ASSUME NEW b \in 1 .. k + 1, NEW q \in 1 .. Len(E[b])
       PROVE  \E i \in 1 .. l + m : C[i] = b /\ J[i] = q
  <2>1. CASE b = k + 1
    <3>1. q \in 1 .. l
      BY <2>1, <1>1, <1>2
    <3> QED BY <3>1, <2>1, <1>9
  <2>2. CASE b \in 1 .. k
    <3>1. PICK i \in 1 .. m : B[i] = b /\ I[i] = q
      BY <2>2, <1>7
    <3>2. i + l \in l + 1 .. l + m /\ (i + l) - l = i
      OBVIOUS
    <3> QED BY <3>1, <3>2, <1>10
  <2> QED BY <2>1, <2>2
<1>14. ASSUME NEW i \in 1 .. l + m, NEW j \in 1 .. l + m, i < j
       PROVE  C[i] > C[j] \/ (C[i] = C[j] /\ J[i] < J[j])
  <2>1. CASE i \in 1 .. l /\ j \in 1 .. l
    BY <2>1, <1>14, <1>9
  <2>2. CASE i \in 1 .. l /\ j \in l + 1 .. l + m
    <3>1. B[j - l] \in 1 .. k
      BY <2>2, <1>7, <1>10
    <3> QED BY <3>1, <2>2, <1>9, <1>10
  <2>3. CASE i \in l + 1 .. l + m /\ j \in l + 1 .. l + m
    <3>1. i - l \in 1 .. m /\ j - l \in 1 .. m /\ i - l < j - l
      BY <2>3, <1>14
    <3>2. B[i - l] > B[j - l] \/ (B[i - l] = B[j - l] /\ I[i - l] < I[j - l])
      BY <3>1, <1>7
    <3> QED BY <3>2, <2>3, <1>10
  <2> QED BY <2>1, <2>2, <2>3, <1>8, <1>14
<1>15. Placed(t, E, k + 1, C, J)
  <2>1. C \in [1 .. Len(t) -> 1 .. k + 1] /\ J \in [1 .. Len(t) -> Nat]
    BY <1>4, <1>11
  <2>2. \A i \in 1 .. Len(t) : J[i] \in 1 .. Len(E[C[i]]) /\ t[i] = E[C[i]][J[i]]
    BY <1>4, <1>12
  <2>3. \A b \in 1 .. k + 1 : \A q \in 1 .. Len(E[b]) :
           \E i \in 1 .. Len(t) : C[i] = b /\ J[i] = q
    BY <1>4, <1>13
  <2>4. \A i, j \in 1 .. Len(t) : i < j => C[i] > C[j] \/ (C[i] = C[j] /\ J[i] < J[j])
    BY <1>4, <1>14
  <2> QED BY <2>1, <2>2, <2>3, <2>4 DEF Placed
<1> QED BY <1>1, <1>3, <1>15

\* What is read for a priority is what is in the first buffers, up to the one
\* of the priority.
LEMMA ReaderPlaced ==
    ASSUME NEW E \in Logs, NEW R, Readers(R, E), NEW p \in Buffers
    PROVE  R[p] \in Seq(Entries) /\ \E B, I : Placed(R[p], E, p, B, I)
<1>1. NumBuffers \in Nat /\ p \in Nat /\ p <= NumBuffers
  BY BufferFacts
<1> DEFINE S == {k \in Nat : k <= NumBuffers => \E B, I : Placed(R[k], E, k, B, I)}
<1>2. 0 \in S
  <2>1. R[0] = <<>> /\ Len(R[0]) = 0
    BY DEF Readers
  <2>2. PICK N : N = [i \in 1 .. 0 |-> 0]
    OBVIOUS
  <2>3. N \in [1 .. 0 -> 1 .. 0] /\ N \in [1 .. 0 -> Nat]
    BY <2>2
  <2>4. Placed(R[0], E, 0, N, N)
    BY <2>1, <2>3 DEF Placed
  <2> QED BY <2>4
<1>3. ASSUME NEW k \in Nat, k \in S PROVE k + 1 \in S
  <2> SUFFICES ASSUME k + 1 <= NumBuffers PROVE \E B, I : Placed(R[k + 1], E, k + 1, B, I)
    OBVIOUS
  <2>1. k \in 0 .. NumBuffers /\ k + 1 \in Buffers /\ (k + 1) - 1 = k /\ k <= NumBuffers
    BY <1>1 DEF Buffers
  <2>2. PICK B, I : Placed(R[k], E, k, B, I)
    BY <1>3, <2>1
  <2>3. R[k + 1] = E[k + 1] \o R[k] /\ R[k] \in Seq(Entries) /\ E[k + 1] \in Seq(Entries)
    BY <2>1 DEF Readers, Logs
  <2>4. \E C, J : Placed(E[k + 1] \o R[k], E, k + 1, C, J)
    BY <2>2, <2>3, OneMoreBuffer
  <2> QED BY <2>3, <2>4
<1> HIDE DEF S
<1>4. p \in S
  BY <1>1, <1>2, <1>3, SetInduction
<1>5. p \in 0 .. NumBuffers
  BY <1>1
<1> QED BY <1>1, <1>4, <1>5 DEF S, Readers

\* What the reader of a priority comes across: each of its entries, in order.
Retained(s, p, F, L) ==
    /\ s \in Seq(Entries)
    /\ \A i \in 1 .. Len(s) : s[i].priority = p => s[i].number \in F[p] .. L[p]
    /\ \A n \in F[p] .. L[p] : \E i \in 1 .. Len(s) : s[i].priority = p /\ s[i].number = n
    /\ \A i, j \in 1 .. Len(s) :
          s[i].priority = p /\ s[j].priority = p /\ i < j => s[i].number < s[j].number

LEMMA ReaderRetains ==
    ASSUME IInv, NEW p \in Priorities
    PROVE  /\ Retained(GetEventReader(p), p, Firsts, Lasts)
           /\ \A i \in 1 .. Len(GetEventReader(p)) : GetEventReader(p)[i] \in Logged(Log)
           /\ \A e \in Logged(Log) : e.priority = p =>
                \E i \in 1 .. Len(GetEventReader(p)) : GetEventReader(p)[i] = e
<1>1. TypeOK /\ p \in Buffers /\ p \in Nat /\ 1 <= p /\ p <= NumBuffers /\ NumBuffers \in Nat
  BY PriorityBuffer, BufferFacts DEF IInv
<1>2. PICK E, F, L : E = Log /\ F = Firsts /\ L = Lasts
  OBVIOUS
<1>3. E \in Logs /\ F \in [Buffers -> Nat] /\ L \in [Buffers -> Nat] /\ Logged(E) \in SUBSET Entries
  BY <1>1, <1>2, StateTypes
<1>4. NotTooFar(E) /\ Ordered(E) /\ Numbered(Logged(E), F, L)
  BY <1>2 DEF IInv, LogOK
<1>5. PICK R : Readers(R, E) /\ GetEventReader(p) = R[p]
  BY <1>1, <1>2, ReaderReads
<1>6. PICK s \in Seq(Entries) : s = R[p]
  BY <1>1, <1>3, <1>5, ReaderPlaced
<1>7. PICK B, I : Placed(s, E, p, B, I)
  BY <1>1, <1>3, <1>5, <1>6, ReaderPlaced
<1>8. \A b \in 1 .. p : b \in Buffers /\ E[b] \in Seq(Entries) /\ DOMAIN E[b] = 1 .. Len(E[b])
  BY <1>1, <1>3 DEF Buffers, Logs
<1>9. ASSUME NEW i \in 1 .. Len(s)
      PROVE  /\ B[i] \in Buffers /\ I[i] \in DOMAIN E[B[i]] /\ s[i] = E[B[i]][I[i]]
             /\ s[i] \in Logged(E)
  <2>1. B[i] \in 1 .. p /\ I[i] \in 1 .. Len(E[B[i]]) /\ s[i] = E[B[i]][I[i]]
    BY <1>7 DEF Placed
  <2> QED BY <2>1, <1>8, PlaceLogged
<1>10. ASSUME NEW e \in Logged(E), e.priority = p PROVE \E i \in 1 .. Len(s) : s[i] = e
  <2>1. PICK b \in Buffers : \E m \in DOMAIN E[b] : e = E[b][m]
    BY LoggedPlace
  <2>2. PICK m \in DOMAIN E[b] : e = E[b][m]
    BY <2>1
  <2>3. p >= b /\ b \in 1 .. p
    <3>1. E[b][m].priority >= b /\ b \in Nat /\ 1 <= b
      BY <1>4, BufferFacts DEF NotTooFar
    <3> QED BY <3>1, <2>2, <1>10, <1>1
  <2>4. m \in 1 .. Len(E[b])
    BY <2>3, <1>8
  <2>5. PICK i \in 1 .. Len(s) : B[i] = b /\ I[i] = m
    BY <2>3, <2>4, <1>7 DEF Placed
  <2> QED BY <2>2, <2>5, <1>9
<1>11. ASSUME NEW i \in 1 .. Len(s), s[i].priority = p PROVE s[i].number \in F[p] .. L[p]
  BY <1>4, <1>9, <1>11 DEF Numbered
<1>12. ASSUME NEW n \in F[p] .. L[p] PROVE \E i \in 1 .. Len(s) : s[i].priority = p /\ s[i].number = n
  <2>1. PICK e \in Logged(E) : e.priority = p /\ e.number = n
    BY <1>4 DEF Numbered
  <2> QED BY <2>1, <1>10
<1>13. ASSUME NEW i \in 1 .. Len(s), NEW j \in 1 .. Len(s),
              s[i].priority = p, s[j].priority = p, i < j
       PROVE  s[i].number < s[j].number
  <2>1. B[i] > B[j] \/ (B[i] = B[j] /\ I[i] < I[j])
    BY <1>7, <1>13 DEF Placed
  <2>2. PICK b \in Buffers : b = B[i] /\ I[i] \in DOMAIN E[b] /\ s[i] = E[b][I[i]]
    BY <1>9
  <2>3. PICK c \in Buffers : c = B[j] /\ I[j] \in DOMAIN E[c] /\ s[j] = E[c][I[j]]
    BY <1>9
  <2>4. PICK x \in DOMAIN E[b] : x = I[i]
    BY <2>2
  <2>5. PICK y \in DOMAIN E[c] : y = I[j]
    BY <2>3
  <2>6. E[b][x].priority = E[c][y].priority /\ (b > c \/ (b = c /\ x < y))
    BY <2>1, <2>2, <2>3, <2>4, <2>5, <1>13
  <2>7. E[b][x].number < E[c][y].number
    BY <2>6, <1>4 DEF Ordered
  <2> QED BY <2>2, <2>3, <2>4, <2>5, <2>7
<1>14. Retained(s, p, F, L)
  BY <1>11, <1>12, <1>13 DEF Retained
<1> QED BY <1>2, <1>5, <1>6, <1>9, <1>10, <1>14

\* RetainedInOrder: reading back from GetPriorityBuffer comes across every
\* event of the priority from mFirstEventNumber to mLastEventNumber, in order,
\* whatever EnsureSpaceInCircularBuffer has moved and dropped, and also while
\* it is at work.
THEOREM ReaderSeesEventsInOrder == Spec => []RetainedInOrder
<1>1. ASSUME IInv PROVE RetainedInOrder
  <2> SUFFICES ASSUME NEW p \in Priorities
               PROVE  LET entries == GetEventReader(p)
                          places  == {i \in DOMAIN entries : entries[i].priority = p}
                          final   == buffer[GetPriorityBuffer(p)]
                      IN  /\ {entries[i].number : i \in places} =
                                final.mFirstEventNumber .. final.mLastEventNumber
                          /\ \A i, j \in places : i < j => entries[i].number < entries[j].number
    BY DEF RetainedInOrder
  <2>1. PICK s, F, L : s = GetEventReader(p) /\ F = Firsts[p] /\ L = Lasts[p]
    OBVIOUS
  <2>2. GetPriorityBuffer(p) = p /\ F = buffer[p].mFirstEventNumber /\ L = buffer[p].mLastEventNumber
    BY <2>1, PriorityBuffer DEF Firsts, Lasts
  <2>3. /\ s \in Seq(Entries)
        /\ \A i \in 1 .. Len(s) : s[i].priority = p => s[i].number \in F .. L
        /\ \A n \in F .. L : \E i \in 1 .. Len(s) : s[i].priority = p /\ s[i].number = n
        /\ \A i, j \in 1 .. Len(s) :
              s[i].priority = p /\ s[j].priority = p /\ i < j => s[i].number < s[j].number
    BY <1>1, <2>1, ReaderRetains DEF Retained
  <2>4. DOMAIN s = 1 .. Len(s)
    BY <2>3
  <2>5. {s[i].number : i \in {i \in DOMAIN s : s[i].priority = p}} = F .. L
    BY <2>3, <2>4
  <2> QED BY <2>1, <2>2, <2>3, <2>4, <2>5
<1> QED BY <1>1, InvariantHolds, PTL

\* The number that CopyEventsSince goes by, which counts the entries of other
\* priorities too, is never less than the number of the event.
LEMMA NumberNotTooLow ==
    ASSUME NEW s, NEW p \in Buffers, NEW F \in [Buffers -> Nat], NEW L \in [Buffers -> Nat],
           Retained(s, p, F, L)
    PROVE  \A i \in 1 .. Len(s) : s[i].priority = p => s[i].number <= F[p] + i - 1
<1>1. PICK f \in Nat, l \in Nat : f = F[p] /\ l = L[p]
  OBVIOUS
<1>2. /\ s \in Seq(Entries)
      /\ \A i \in 1 .. Len(s) : s[i].priority = p => s[i].number \in f .. l
      /\ \A n \in f .. l : \E i \in 1 .. Len(s) : s[i].priority = p /\ s[i].number = n
      /\ \A i, j \in 1 .. Len(s) :
            s[i].priority = p /\ s[j].priority = p /\ i < j => s[i].number < s[j].number
  BY <1>1 DEF Retained
<1> DEFINE S == {k \in Nat : \A i \in 1 .. k :
                    i <= Len(s) /\ s[i].priority = p => s[i].number <= f + i - 1}
<1>3. 0 \in S
  OBVIOUS
<1>4. ASSUME NEW k \in Nat, k \in S PROVE k + 1 \in S
  <2> SUFFICES ASSUME k + 1 <= Len(s), s[k + 1].priority = p
               PROVE  s[k + 1].number <= f + k
    <3>1. \A i \in 1 .. k + 1 : i \in 1 .. k \/ i = k + 1
      OBVIOUS
    <3>2. f + (k + 1) - 1 = f + k
      OBVIOUS
    <3> QED BY <1>4, <3>1, <3>2
  <2>1. k + 1 \in 1 .. Len(s)
    BY <1>2
  <2>2. PICK n \in f .. l : n = s[k + 1].number
    BY <2>1, <1>2
  <2>3. CASE n = f
    BY <2>2, <2>3
  <2>4. CASE n # f
    <3>1. n - 1 \in f .. l /\ n \in Nat
      BY <2>4
    <3>2. PICK j \in 1 .. Len(s) : s[j].priority = p /\ s[j].number = n - 1
      BY <3>1, <1>2
    <3>3. j < k + 1
      <4>1. ~(k + 1 < j)
        <5> SUFFICES ASSUME k + 1 < j PROVE FALSE
          OBVIOUS
        <5>1. n < n - 1
          BY <2>1, <2>2, <3>2, <1>2
        <5> QED BY <5>1, <3>1
      <4>2. j # k + 1
        BY <2>2, <3>1, <3>2
      <4>3. j \in Nat
        OBVIOUS
      <4> QED BY <4>1, <4>2, <4>3
    <3>4. j \in 1 .. k /\ j <= Len(s) /\ Len(s) \in Nat
      BY <3>3, <1>2
    <3>5. n - 1 <= f + j - 1
      BY <3>2, <3>4, <1>4
    <3>6. n <= f + k
      BY <3>1, <3>4, <3>5
    <3> QED BY <2>2, <3>6
  <2> QED BY <2>3, <2>4
<1> HIDE DEF S
<1>5. \A k \in Nat : k \in S
  BY <1>3, <1>4, SetInduction
<1>6. ASSUME NEW i \in 1 .. Len(s), s[i].priority = p PROVE s[i].number <= f + i - 1
  <2>1. Len(s) \in Nat
    BY <1>2
  <2>2. i \in Nat /\ i \in 1 .. i /\ i <= Len(s) /\ i \in S
    BY <2>1, <1>5
  <2> QED BY <2>2, <1>6 DEF S
<1> QED BY <1>1, <1>6

\* T[i]: the time that CopyEventsSince has reached after i entries.
Times(T, s, p, x) ==
    /\ T[0] = x
    /\ \A i \in 1 .. Len(s) :
          T[i] = IF s[i].priority = p THEN T[i - 1] + s[i].delta ELSE T[i - 1]

\* The recursive function that Visited is defined with.
LEMMA VisitedTimes ==
    ASSUME TypeOK, NEW p \in Priorities, NEW s \in Seq(Entries), s = GetEventReader(p)
    PROVE  \E T : /\ Times(T, s, p, FirstTimes[p])
                  /\ Visited(p) = [i \in 1 .. Len(s) |->
                         [event |-> s[i], number |-> Firsts[p] + i - 1, time |-> T[i]]]
<1>1. GetPriorityBuffer(p) = p /\ p \in Buffers
  BY PriorityBuffer
<1>2. PICK x \in Nat : x = FirstTimes[p] /\ x = buffer[p].mFirstEventSystemTimestamp
  BY <1>1, StateTypes DEF FirstTimes
<1> DEFINE n == Len(s)
           st == [y \in Nat \X (Nat \ {0}) |->
                    IF y[2] \in 1 .. n
                    THEN IF s[y[2]].priority = p THEN y[1] + s[y[2]].delta ELSE y[1]
                    ELSE 0]
           Is(h) == h = [i \in 0 .. n |->
                            IF i = 0 THEN x
                            ELSE IF s[i].priority = p THEN h[i - 1] + s[i].delta
                            ELSE h[i - 1]]
<1>3. ASSUME NEW i \in 1 .. n PROVE s[i].delta \in Nat
  <2>1. s[i] \in Entries
    OBVIOUS
  <2>2. s[i].delta \in 0 .. MaxTime
    BY <2>1 DEF Entries
  <2> QED BY <2>2, CapacityAssumption
<1>4. st \in [Nat \X (Nat \ {0}) -> Nat]
  BY <1>3
<1> HIDE DEF st
<1>5. n \in Nat
  OBVIOUS
<1>6. PICK f : IsSteps(f, Nat, x, st, n)
  BY <1>4, <1>5, StepsExist
<1>7. ASSUME NEW i \in 1 .. n
      PROVE  f[i] = IF s[i].priority = p THEN f[i - 1] + s[i].delta ELSE f[i - 1]
  <2>1. f[i] = st[<<f[i - 1], i>>] /\ f[i - 1] \in Nat
    BY <1>6 DEF IsSteps
  <2>2. <<f[i - 1], i>> \in Nat \X (Nat \ {0})
    BY <2>1
  <2>3. st[<<f[i - 1], i>>] = IF s[i].priority = p THEN f[i - 1] + s[i].delta ELSE f[i - 1]
    BY <2>2 DEF st
  <2> QED BY <2>1, <2>3
<1>8. Is(f)
  <2>1. f = [i \in 0 .. n |-> f[i]]
    BY <1>6 DEF IsSteps
  <2>2. ASSUME NEW i \in 0 .. n
        PROVE  f[i] = IF i = 0 THEN x
                      ELSE IF s[i].priority = p THEN f[i - 1] + s[i].delta ELSE f[i - 1]
    BY <1>6, <1>7 DEF IsSteps
  <2> QED BY <2>1, <2>2
<1>9. PICK g : g = CHOOSE h : Is(h)
  OBVIOUS
<1>10. Is(g)
  BY <1>8, <1>9
<1>11. Visited(p) = [i \in 1 .. n |->
            [event |-> s[i], number |-> buffer[p].mFirstEventNumber + i - 1, time |-> g[i]]]
  BY <1>1, <1>2, <1>9 DEF Visited
<1>12. Firsts[p] = buffer[p].mFirstEventNumber
  BY <1>1 DEF Firsts
<1>13. Times(g, s, p, x)
  <2>1. 0 \in 0 .. n /\ \A i \in 1 .. n : i \in 0 .. n /\ i # 0
    BY <1>5
  <2>2. \A i \in 0 .. n : g[i] = IF i = 0 THEN x
                                 ELSE IF s[i].priority = p THEN g[i - 1] + s[i].delta
                                 ELSE g[i - 1]
    BY <1>10
  <2> QED BY <2>1, <2>2 DEF Times
<1> QED BY <1>2, <1>11, <1>12, <1>13

\* FetchMissesNothing: FetchEventsSince and CopyEventsSince pass over no event
\* of the priority that has the number asked for or a later one, for any
\* number of buffers and any mixture of priorities in them.
THEOREM FetchFindsEverything == Spec => []FetchMissesNothing
<1>1. ASSUME IInv PROVE FetchMissesNothing
  <2> SUFFICES ASSUME NEW p \in Priorities, NEW start \in 1 .. MaxTime,
                      NEW b \in Buffers, NEW i \in DOMAIN buffer[b].events,
                      buffer[b].events[i].priority = p, buffer[b].events[i].number >= start
               PROVE  buffer[b].events[i] \in {v.event : v \in FetchEventsSince(p, start)}
    BY DEF FetchMissesNothing
  <2>1. PICK e : e = buffer[b].events[i]
    OBVIOUS
  <2>2. TypeOK /\ p \in Buffers /\ Logged(Log) \in SUBSET Entries
        /\ Firsts \in [Buffers -> Nat] /\ Lasts \in [Buffers -> Nat]
    BY <1>1, PriorityBuffer, StateTypes DEF IInv
  <2>3. e \in Logged(Log) /\ e.priority = p /\ e.number >= start
    <3>1. Log[b] = buffer[b].events
      BY DEF Log
    <3> QED BY <3>1, <2>1, PlaceLogged
  <2>4. e.number \in Nat /\ start \in Nat
    BY <2>2, <2>3, NumberType, CapacityAssumption
  <2>5. PICK s : s = GetEventReader(p)
    OBVIOUS
  <2>6. Retained(s, p, Firsts, Lasts) /\ \E j \in 1 .. Len(s) : s[j] = e
    BY <1>1, <2>3, <2>5, ReaderRetains
  <2>7. s \in Seq(Entries)
    BY <2>6 DEF Retained
  <2>8. PICK j \in 1 .. Len(s) : s[j] = e
    BY <2>6
  <2>9. s[j].number <= Firsts[p] + j - 1
    BY <2>2, <2>3, <2>6, <2>8, NumberNotTooLow
  <2>10. PICK T : /\ Times(T, s, p, FirstTimes[p])
                  /\ Visited(p) = [k \in 1 .. Len(s) |->
                         [event |-> s[k], number |-> Firsts[p] + k - 1, time |-> T[k]]]
    BY <2>2, <2>5, <2>7, VisitedTimes
  <2>11. PICK v : v = [event |-> e, number |-> Firsts[p] + j - 1, time |-> T[j]]
    OBVIOUS
  <2>12. v.event = e /\ v.number = Firsts[p] + j - 1
    BY <2>11
  <2>13. v = Visited(p)[j] /\ j \in DOMAIN Visited(p)
    BY <2>8, <2>10, <2>11
  <2>14. v.number >= start
    BY <2>2, <2>3, <2>4, <2>8, <2>9, <2>12
  <2>15. v \in FetchEventsSince(p, start)
    BY <2>3, <2>12, <2>13, <2>14 DEF FetchEventsSince
  <2> QED BY <2>1, <2>12, <2>15
<1> QED BY <1>1, InvariantHolds, PTL

\* The differences stored in the entries of a priority add up from x on.
AddUp(s, p, x) ==
    /\ \A i \in 1 .. Len(s) :
          s[i].priority = p /\ s[i].number = 1 => s[i].time = x + s[i].delta
    /\ \A i, j \in 1 .. Len(s) :
          s[i].priority = p /\ s[j].priority = p /\ s[j].number = s[i].number + 1
            => s[j].time = s[i].time + s[j].delta

\* The times reached are those of the entries of the priority passed last.
LEMMA TimesAddUp ==
    ASSUME NEW s, NEW p \in Buffers, NEW F \in [Buffers -> Nat], NEW L \in [Buffers -> Nat],
           Retained(s, p, F, L), F[p] = 1, NEW T, NEW x, Times(T, s, p, x), AddUp(s, p, x)
    PROVE  \A i \in 1 .. Len(s) : s[i].priority = p => T[i] = s[i].time
<1>1. PICK l \in Nat : l = L[p]
  OBVIOUS
<1>2. /\ s \in Seq(Entries)
      /\ \A i \in 1 .. Len(s) : s[i].priority = p => s[i].number \in 1 .. l
      /\ \A n \in 1 .. l : \E i \in 1 .. Len(s) : s[i].priority = p /\ s[i].number = n
      /\ \A i, j \in 1 .. Len(s) :
            s[i].priority = p /\ s[j].priority = p /\ i < j => s[i].number < s[j].number
  BY <1>1 DEF Retained
<1>3. Len(s) \in Nat
  BY <1>2
<1> DEFINE LastTimeIs(k) ==
               /\ \A j \in 1 .. k : s[j].priority = p /\ (\A m \in j + 1 .. k : s[m].priority # p)
                                      => T[k] = s[j].time
               /\ (\A j \in 1 .. k : s[j].priority # p) => T[k] = x
           S == {k \in Nat : k <= Len(s) => LastTimeIs(k)}
<1>4. 0 \in S
  BY DEF Times
<1>5. ASSUME NEW k \in Nat, k \in S, k + 1 <= Len(s), s[k + 1].priority = p
      PROVE  T[k + 1] = s[k + 1].time
  <2>1. k + 1 \in 1 .. Len(s) /\ k <= Len(s) /\ (k + 1) - 1 = k
    BY <1>3, <1>5
  <2>2. T[k + 1] = T[k] + s[k + 1].delta
    BY <2>1, <1>5 DEF Times
  <2>3. LastTimeIs(k)
    BY <2>1, <1>5
  <2>4. PICK n \in 1 .. l : n = s[k + 1].number
    BY <2>1, <1>2, <1>5
  <2>5. \A j \in 1 .. k : j \in 1 .. Len(s) /\ j < k + 1
    BY <1>3, <2>1
  <2>6. ASSUME NEW j \in 1 .. k, s[j].priority = p
        PROVE  s[j].number \in 1 .. l /\ s[j].number < n
    BY <2>1, <2>4, <2>5, <2>6, <1>2, <1>5
  <2>7. CASE n = 1
    <3>1. \A j \in 1 .. k : s[j].priority # p
      <4> SUFFICES ASSUME NEW j \in 1 .. k, s[j].priority = p PROVE FALSE
        OBVIOUS
      <4>1. PICK q \in 1 .. l : q = s[j].number /\ q < n
        BY <2>6
      <4> QED BY <4>1, <2>7
    <3>2. T[k] = x
      BY <3>1, <2>3
    <3>3. s[k + 1].time = x + s[k + 1].delta
      BY <2>1, <2>4, <2>7, <1>5 DEF AddUp
    <3> QED BY <2>2, <3>2, <3>3
  <2>8. CASE n # 1
    <3>1. n - 1 \in 1 .. l /\ n \in Nat
      BY <2>8
    <3>2. PICK j \in 1 .. Len(s) : s[j].priority = p /\ s[j].number = n - 1
      BY <3>1, <1>2
    <3>3. j \in 1 .. k
      <4>1. ~(k + 1 < j)
        <5> SUFFICES ASSUME k + 1 < j PROVE FALSE
          OBVIOUS
        <5>1. n < n - 1
          BY <2>1, <2>4, <3>2, <1>2, <1>5
        <5> QED BY <5>1, <3>1
      <4>2. j # k + 1
        BY <2>4, <3>1, <3>2
      <4>3. j \in Nat /\ 1 <= j
        BY <1>3
      <4> QED BY <4>1, <4>2, <4>3
    <3>4. \A m \in j + 1 .. k : s[m].priority # p
      <4> SUFFICES ASSUME NEW m \in j + 1 .. k, s[m].priority = p PROVE FALSE
        OBVIOUS
      <4>1. m \in 1 .. k /\ j < m /\ m \in 1 .. Len(s)
        BY <3>3, <1>3, <2>1
      <4>2. PICK q \in 1 .. l : q = s[m].number /\ q < n
        BY <4>1, <2>6
      <4>3. n - 1 < q
        BY <4>1, <4>2, <3>2, <1>2
      <4> QED BY <4>2, <4>3, <3>1
    <3>5. T[k] = s[j].time
      BY <2>3, <3>2, <3>3, <3>4
    <3>6. s[k + 1].number = s[j].number + 1
      BY <2>4, <3>1, <3>2
    <3>7. s[k + 1].time = s[j].time + s[k + 1].delta
      BY <2>1, <3>2, <3>6, <1>5 DEF AddUp
    <3> QED BY <2>2, <3>5, <3>7
  <2> QED BY <2>7, <2>8
<1>6. ASSUME NEW k \in Nat, k \in S PROVE k + 1 \in S
  <2> SUFFICES ASSUME k + 1 <= Len(s) PROVE LastTimeIs(k + 1)
    OBVIOUS
  <2>1. k + 1 \in 1 .. Len(s) /\ k <= Len(s) /\ (k + 1) - 1 = k
    BY <1>3
  <2>2. LastTimeIs(k)
    BY <2>1, <1>6
  <2>3. CASE s[k + 1].priority = p
    <3>1. T[k + 1] = s[k + 1].time
      BY <2>3, <1>5, <1>6
    <3>2. \A j \in 1 .. k + 1 : j = k + 1 \/ k + 1 \in j + 1 .. k + 1
      OBVIOUS
    <3>3. k + 1 \in 1 .. k + 1
      OBVIOUS
    <3> QED BY <2>3, <3>1, <3>2, <3>3
  <2>4. CASE s[k + 1].priority # p
    <3>1. T[k + 1] = T[k]
      BY <2>1, <2>4 DEF Times
    <3>2. \A j \in 1 .. k + 1 : j = k + 1 \/ j \in 1 .. k
      OBVIOUS
    <3>3. \A j \in 1 .. k : j \in 1 .. k + 1 /\ \A m \in j + 1 .. k : m \in j + 1 .. k + 1
      OBVIOUS
    <3> QED BY <2>2, <2>4, <3>1, <3>2, <3>3
  <2> QED BY <2>3, <2>4
<1> HIDE DEF S
<1>7. \A k \in Nat : k \in S
  BY <1>4, <1>6, SetInduction
<1>8. ASSUME NEW i \in 1 .. Len(s), s[i].priority = p PROVE T[i] = s[i].time
  <2>1. i - 1 \in Nat /\ (i - 1) + 1 = i /\ (i - 1) + 1 <= Len(s) /\ i - 1 \in S
    BY <1>3, <1>7
  <2> QED BY <2>1, <1>5, <1>8
<1> QED BY <1>8

\* FetchedTimesAreTrue: as long as EvictEvent has dropped no event of a
\* priority, the time that CopyEventsSince adds up for each of its events is
\* the time at which the event was logged.
THEOREM FetchedTimesTrue == Spec => []FetchedTimesAreTrue
<1>1. ASSUME IInv PROVE FetchedTimesAreTrue
  <2> SUFFICES ASSUME NEW p \in Priorities, buffer[GetPriorityBuffer(p)].mFirstEventNumber = 1,
                      NEW v \in FetchEventsSince(p, 1)
               PROVE  v.time = v.event.time
    BY DEF FetchedTimesAreTrue
  <2>1. TypeOK /\ p \in Buffers /\ GetPriorityBuffer(p) = p
    BY <1>1, PriorityBuffer DEF IInv
  <2>2. PICK S, F, L, X, Y : /\ S = Logged(Log) /\ F = Firsts /\ L = Lasts
                             /\ X = FirstTimes /\ Y = LastTimes
    OBVIOUS
  <2>3. /\ S \in SUBSET Entries /\ F \in [Buffers -> Nat] /\ L \in [Buffers -> Nat]
        /\ Chained(S, F, L, X, Y)
    BY <1>1, <2>1, <2>2, StateTypes DEF IInv, LogOK
  <2>4. F[p] = 1
    BY <2>1, <2>2 DEF Firsts
  <2>5. PICK s : s = GetEventReader(p)
    OBVIOUS
  <2>6. Retained(s, p, F, L) /\ \A i \in 1 .. Len(s) : s[i] \in S
    BY <1>1, <2>2, <2>5, ReaderRetains
  <2>7. s \in Seq(Entries)
    BY <2>6 DEF Retained
  <2>8. PICK T : /\ Times(T, s, p, FirstTimes[p])
                 /\ Visited(p) = [k \in 1 .. Len(s) |->
                        [event |-> s[k], number |-> Firsts[p] + k - 1, time |-> T[k]]]
    BY <2>1, <2>5, <2>7, VisitedTimes
  <2>9. AddUp(s, p, X[p])
    BY <2>3, <2>4, <2>6 DEF Chained, AddUp
  <2>10. Times(T, s, p, X[p])
    BY <2>2, <2>8
  <2>11. \A i \in 1 .. Len(s) : s[i].priority = p => T[i] = s[i].time
    BY <2>1, <2>3, <2>4, <2>6, <2>9, <2>10, TimesAddUp
  <2>12. PICK i \in 1 .. Len(s) : v = Visited(p)[i] /\ v.event.priority = p
    BY <2>8 DEF FetchEventsSince
  <2>13. v = [event |-> s[i], number |-> Firsts[p] + i - 1, time |-> T[i]]
    BY <2>8, <2>12
  <2>14. v.event = s[i] /\ v.time = T[i]
    BY <2>13
  <2> QED BY <2>11, <2>12, <2>14
<1> QED BY <1>1, InvariantHolds, PTL
=============================================================================

---------------------------- MODULE FlushQueueProofs ----------------------------
(* The flush queue covers exactly what was queued, for every capacity. *)
EXTENDS FlushQueue, FiniteSetTheorems, NaturalsInduction, WellFoundedInduction, TLAPS

\* swap_remove leaves every other range in place, but for the last.
LEMMA SwapRemove ==
  ASSUME TypeOK, NEW i \in Pending
  PROVE  /\ swap_remove(i) \in Seq(FlushRanges)
         /\ Len(swap_remove(i)) = Len(pending_flushes) - 1
         /\ DOMAIN swap_remove(i) = 1..Len(pending_flushes) - 1
         /\ \A j \in 1..Len(pending_flushes) - 1 :
              swap_remove(i)[j] = pending_flushes[IF j = i THEN Len(pending_flushes) ELSE j]
<1>1. /\ pending_flushes \in Seq(FlushRanges)
      /\ Len(pending_flushes) \in Nat
      /\ Pending = 1..Len(pending_flushes)
  BY DEF TypeOK, Pending
<1>2. \A j \in 1..Len(pending_flushes) : pending_flushes[j] \in FlushRanges
  BY <1>1
<1>3. swap_remove(i) \in [1..Len(pending_flushes) - 1 -> FlushRanges]
  BY <1>1, <1>2 DEF swap_remove
<1>4. Len(pending_flushes) - 1 \in Nat
  BY <1>1
<1>5. swap_remove(i) \in Seq(FlushRanges) /\ Len(swap_remove(i)) = Len(pending_flushes) - 1
  BY <1>3, <1>4
<1>. QED  BY <1>1, <1>3, <1>5 DEF swap_remove

\* What is left in the queue: the ranges with another index.
LEMMA RemoveQueued ==
  ASSUME TypeOK, NEW i \in Pending, pending_flushes' = swap_remove(i)
  PROVE  /\ Queued \subseteq Queued' \cup PagesOf(pending_flushes[i])
         /\ Queued' \subseteq Queued
         /\ RangesApart => RangesApart' /\ Queued' \cap PagesOf(pending_flushes[i]) = {}
<1>. DEFINE n == Len(pending_flushes)
            old(j) == IF j = i THEN n ELSE j
<1>1. /\ Pending = 1..n /\ n \in Nat
      /\ \A j \in Pending : pending_flushes[j] \in FlushRanges
  BY DEF TypeOK, Pending
<1>2. /\ Pending' = 1..n-1
      /\ \A j \in 1..n-1 : pending_flushes'[j] = pending_flushes[old(j)]
  BY SwapRemove DEF Pending
<1>3. \A j \in 1..n-1 : old(j) \in Pending /\ old(j) # i
  BY <1>1
<1>4. \A j, k \in 1..n-1 : j # k => old(j) # old(k)
  BY <1>1
<1>5. \A k \in Pending : k # i => \E j \in 1..n-1 : old(j) = k
  <2>. SUFFICES ASSUME NEW k \in Pending, k # i PROVE \E j \in 1..n-1 : old(j) = k
    OBVIOUS
  <2>1. CASE k = n
    <3>1. i \in 1..n-1 /\ old(i) = k
      BY <1>1, <2>1
    <3>. QED  BY <3>1
  <2>2. CASE k # n
    <3>1. k \in 1..n-1 /\ old(k) = k
      BY <1>1, <2>2
    <3>. QED  BY <3>1
  <2>. QED  BY <2>1, <2>2
<1>. HIDE DEF n, old
<1>6. \A v : v \in Queued <=> \E k \in Pending : v \in PagesOf(pending_flushes[k])
  BY DEF Queued
<1>7. \A v : v \in Queued' <=> \E j \in 1..n-1 : v \in PagesOf(pending_flushes[old(j)])
  BY <1>2 DEF Queued, PagesOf, range_end
<1>8. Queued \subseteq Queued' \cup PagesOf(pending_flushes[i])
  BY <1>5, <1>6, <1>7
<1>9. Queued' \subseteq Queued
  BY <1>3, <1>6, <1>7
<1>10. ASSUME RangesApart
       PROVE  RangesApart' /\ Queued' \cap PagesOf(pending_flushes[i]) = {}
  <2>1. RangesApart'
    BY <1>2, <1>3, <1>4, <1>10 DEF RangesApart, range_end
  <2>2. \A k \in Pending : k # i => PagesOf(pending_flushes[k]) \cap PagesOf(pending_flushes[i]) = {}
    <3>. SUFFICES ASSUME NEW k \in Pending, k # i, NEW v \in PagesOf(pending_flushes[k]),
                         v \in PagesOf(pending_flushes[i])
                  PROVE  FALSE
      OBVIOUS
    <3>1. \/ range_end(pending_flushes[k]) < pending_flushes[i].start
          \/ range_end(pending_flushes[i]) < pending_flushes[k].start
      BY <1>10 DEF RangesApart
    <3>2. /\ pending_flushes[k].start \in Nat /\ pending_flushes[i].start \in Nat
          /\ pending_flushes[k].pages \in Nat /\ pending_flushes[i].pages \in Nat
      BY <1>1 DEF FlushRanges
    <3>. QED  BY <3>1, <3>2 DEF PagesOf, range_end
  <2>. QED  BY <1>3, <1>7, <2>1, <2>2
<1>. QED  BY <1>8, <1>9, <1>10

-------------------------------------------------------------------------------
\* An empty queue holds no page.
LEMMA EmptyQueue ==
  /\ <<>> \in Seq(FlushRanges) /\ Len(<<>>) = 0
  /\ pending_flushes = <<>> => Pending = {} /\ Queued = {}
  BY DEF Pending, Queued

\* The invariant holds of a new cursor.
LEMMA InitIInv == Init => IInv
<1>. SUFFICES ASSUME Init PROVE IInv
  OBVIOUS
<1>1. TypeOK
  <2>1. pending_flushes \in Seq(FlushRanges) /\ Len(pending_flushes) <= FLUSH_RANGE_CAP
    BY EmptyQueue, QueueAssumption DEF Init
  <2>2. needs_full_flush \in BOOLEAN /\ pc = "idle"
    BY DEF Init
  <2>3. stale \subseteq 0..UMAX-2
    BY Zenon DEF Init
  <2>4. idx \in Nat \ {0} /\ start \in 0..UMAX-1 /\ end \in 0..UMAX-1
    BY QueueAssumption DEF Init
  <2>. QED  BY <2>1, <2>2, <2>3, <2>4 DEF TypeOK
<1>2. QueueIsExact /\ RangesApart /\ WindowInv
  BY EmptyQueue DEF Init, QueueIsExact, RangesApart, WindowInv
<1>. QED  BY <1>1, <1>2 DEF IInv

\* A range to be queued becomes the window.
LEMMA QueueStep ==
  ASSUME IInv, NEW from \in 0..UMAX-1, NEW to \in 0..UMAX-1, Queue(from, to)
  PROVE  IInv'
<1>. USE DEF IInv, Queue
<1>1. TypeOK' /\ RangesApart' /\ Pending' = Pending /\ Queued' = Queued
  BY QueueAssumption DEF TypeOK, RangesApart, Pending, Queued, PagesOf, range_end
<1>2. pc = "idle" /\ start = 0 /\ end = 0
  BY DEF WindowInv
<1>3. CASE needs_full_flush \/ from = to
  BY <1>1, <1>2, <1>3 DEF WindowInv, QueueIsExact
<1>4. CASE ~(needs_full_flush \/ from = to)
  <2>1. from < to /\ start' = from /\ end' = to /\ idx' = 1 /\ pc' = "merge"
    BY <1>4
  <2>2. WindowInv'
    BY <1>1, <1>4, <2>1 DEF WindowInv, TypeOK, Pending
  <2>3. QueueIsExact'
    BY <1>1, <1>2, <1>4, <2>1 DEF QueueIsExact
  <2>. QED  BY <1>1, <2>2, <2>3
<1>. QED  BY <1>3, <1>4

\* A range apart from the window is passed: it stays apart, as ranges are from each other.
LEMMA SkipStep == IInv /\ Skip => IInv'
<1>. SUFFICES ASSUME IInv, Skip PROVE IInv'
  OBVIOUS
<1>. USE DEF IInv, Skip
<1>1. TypeOK' /\ RangesApart' /\ QueueIsExact'
  BY DEF TypeOK, RangesApart, QueueIsExact, Pending, Queued, PagesOf, range_end
<1>2. WindowInv'
  BY DEF WindowInv, Pending, Apart, range_end, TypeOK
<1>. QED  BY <1>1, <1>2

\* The window and the range it absorbs touch, so their hull is their union, and a
\* range apart from both is apart from the hull.
LEMMA AbsorbStep == IInv /\ Absorb => IInv'
<1>. SUFFICES ASSUME IInv, Absorb PROVE IInv'
  OBVIOUS
<1>. USE DEF IInv
<1>. DEFINE r == pending_flushes[idx]
            n == Len(pending_flushes)
<1>1. /\ TypeOK /\ RangesApart /\ idx \in Pending /\ pending_flushes' = swap_remove(idx)
      /\ Pending = 1..n /\ n \in Nat /\ r \in FlushRanges /\ ~Apart(r)
      /\ \A j \in Pending : pending_flushes[j] \in FlushRanges
      /\ start' = IF r.start < start THEN r.start ELSE start
      /\ end' = IF range_end(r) > end THEN range_end(r) ELSE end
      /\ start \in 0..UMAX-1 /\ end \in 0..UMAX-1 /\ start < end /\ ~needs_full_flush
      /\ UMAX \in Nat
  BY QueueAssumption DEF Absorb, TypeOK, Pending, WindowInv
<1>2. /\ pending_flushes' \in Seq(FlushRanges) /\ Len(pending_flushes') = n - 1
      /\ Pending' = 1..n-1
      /\ \A j \in 1..n-1 : pending_flushes'[j] = pending_flushes[IF j = idx THEN n ELSE j]
  BY <1>1, SwapRemove DEF Pending
<1>3. range_end(r) \in 1..UMAX-1
  <2>1. PagesOf(r) \subseteq stale
    BY <1>1 DEF QueueIsExact, Queued
  <2>2. r.start \in Nat /\ r.pages \in Nat \ {0} /\ range_end(r) = r.start + r.pages
    BY <1>1 DEF range_end, FlushRanges
  <2>3. range_end(r) - 1 \in PagesOf(r)
    BY <2>2 DEF PagesOf
  <2>4. range_end(r) - 1 \in 0..UMAX-2
    BY <2>1, <2>3 DEF TypeOK
  <2>. QED  BY <1>1, <2>2, <2>4
<1>4. TypeOK'
  <2>1. start' \in 0..UMAX-1 /\ end' \in 0..UMAX-1
    BY <1>1, <1>3 DEF FlushRanges
  <2>2. Len(pending_flushes') <= FLUSH_RANGE_CAP
    BY <1>1, <1>2, QueueAssumption DEF TypeOK
  <2>. QED  BY <1>2, <2>1, <2>2 DEF Absorb, TypeOK
<1>5. start'..end'-1 = (start..end-1) \cup PagesOf(r)
  BY <1>1, <1>3 DEF PagesOf, Apart, range_end, FlushRanges
<1>6. RangesApart' /\ QueueIsExact'
  <2>1. /\ Queued \subseteq Queued' \cup PagesOf(r) /\ Queued' \subseteq Queued
        /\ RangesApart'
    BY <1>1, RemoveQueued
  <2>2. PagesOf(r) \subseteq Queued
    BY <1>1 DEF Queued
  <2>3. stale = Queued \cup start..end-1 /\ stale' = stale
    BY <1>1 DEF QueueIsExact, Absorb
  <2>4. stale' = Queued' \cup start'..end'-1
    BY <1>5, <2>1, <2>2, <2>3
  <2>. QED  BY <2>1, <2>4 DEF QueueIsExact
<1>7. \A j \in Pending : j # idx /\ Apart(pending_flushes[j]) =>
        end' < pending_flushes[j].start \/ range_end(pending_flushes[j]) < start'
  BY <1>1, <1>3 DEF RangesApart, Apart, range_end, FlushRanges
<1>8. WindowInv'
  <2>1. start' < end'
    BY <1>1, <1>3 DEF FlushRanges, range_end
  <2>2. idx' <= Len(pending_flushes') + 1
    BY <1>1, <1>2 DEF Absorb
  <2>3. ASSUME NEW j \in Pending', j < idx'
        PROVE  Apart(pending_flushes[j])'
    <3>1. j \in Pending /\ j # idx /\ j < idx /\ pending_flushes'[j] = pending_flushes[j]
      BY <1>1, <1>2, <2>3 DEF Absorb
    <3>2. Apart(pending_flushes[j])
      BY <3>1 DEF WindowInv, Absorb
    <3>. QED  BY <1>7, <3>1, <3>2 DEF Apart, range_end
  <2>. QED  BY <2>1, <2>2, <2>3 DEF WindowInv, Absorb
<1>. QED  BY <1>4, <1>6, <1>8

\* The grown window is apart from all ranges, and is added, or the queue is given up.
LEMMA PushStep == IInv /\ Push => IInv'
<1>. SUFFICES ASSUME IInv, Push PROVE IInv'
  OBVIOUS
<1>. USE DEF IInv
<1>. DEFINE n == Len(pending_flushes)
            new == [start |-> start, pages |-> end - start]
<1>1. /\ Pending = 1..n /\ n \in Nat /\ idx = n + 1
      /\ start \in 0..UMAX-1 /\ end \in 0..UMAX-1 /\ start < end /\ ~needs_full_flush
      /\ \A i \in Pending : Apart(pending_flushes[i])
      /\ \A i \in Pending : pending_flushes[i] \in FlushRanges
      /\ new \in FlushRanges /\ range_end(new) = end
  <2>1. Pending = 1..n /\ n \in Nat /\ \A i \in Pending : pending_flushes[i] \in FlushRanges
    BY DEF TypeOK, Pending
  <2>2. /\ idx \in Nat \ {0} /\ idx \notin Pending /\ idx <= n + 1
        /\ start \in 0..UMAX-1 /\ end \in 0..UMAX-1 /\ start < end /\ UMAX \in Nat
        /\ \A i \in Pending : i < idx => Apart(pending_flushes[i])
    BY QueueAssumption DEF Push, TypeOK, WindowInv
  <2>3. idx = n + 1 /\ \A i \in Pending : Apart(pending_flushes[i])
    BY <2>1, <2>2
  <2>4. new \in FlushRanges /\ range_end(new) = end
    BY <2>2 DEF FlushRanges, range_end
  <2>5. ~needs_full_flush
    BY DEF Push, WindowInv
  <2>. QED  BY <2>1, <2>2, <2>3, <2>4, <2>5
<1>2. /\ pc' = "idle" /\ start' = 0 /\ end' = 0 /\ idx' = 1 /\ stale' = stale
  BY DEF Push
<1>3. CASE n < FLUSH_RANGE_CAP
  <2>1. pending_flushes' = Append(pending_flushes, new) /\ UNCHANGED needs_full_flush
    BY <1>3 DEF Push
  <2>2. /\ pending_flushes' \in Seq(FlushRanges) /\ Len(pending_flushes') = n + 1
        /\ Pending' = 1..n+1
        /\ \A j \in 1..n : pending_flushes'[j] = pending_flushes[j]
        /\ pending_flushes'[n+1] = new
    BY <1>1, <2>1 DEF TypeOK, Pending
  <2>3. TypeOK'
    BY <1>1, <1>2, <1>3, <2>1, <2>2, QueueAssumption DEF TypeOK
  <2>4. Queued' = Queued \cup PagesOf(new)
    <3>1. \A v : v \in Queued <=> \E k \in 1..n : v \in PagesOf(pending_flushes[k])
      BY <1>1 DEF Queued
    <3>2. \A v : v \in Queued' <=> \E k \in 1..n+1 : v \in PagesOf(pending_flushes'[k])
      BY <2>2 DEF Queued, PagesOf, range_end
    <3>3. 1..n+1 = 1..n \cup {n+1}
      BY <1>1
    <3>. HIDE DEF new
    <3>. QED  BY <2>2, <3>1, <3>2, <3>3
  <2>5. QueueIsExact'
    <3>1. PagesOf(new) = start..end-1
      BY <1>1 DEF PagesOf
    <3>. QED  BY <1>1, <1>2, <2>1, <2>4, <3>1 DEF QueueIsExact
  <2>6. RangesApart'
    <3>1. \A i, j \in Pending : i # j =>
            \/ range_end(pending_flushes[i]) < pending_flushes[j].start
            \/ range_end(pending_flushes[j]) < pending_flushes[i].start
      BY DEF RangesApart
    <3>2. \A i \in Pending : \/ range_end(new) < pending_flushes[i].start
                             \/ range_end(pending_flushes[i]) < new.start
      BY <1>1 DEF Apart
    <3>3. Pending' = Pending \cup {n+1}
      BY <1>1, <2>2
    <3>. HIDE DEF new
    <3>. QED  BY <1>1, <2>2, <3>1, <3>2, <3>3 DEF RangesApart, range_end
  <2>. QED  BY <1>1, <1>2, <2>1, <2>3, <2>5, <2>6 DEF WindowInv
<1>4. CASE ~(n < FLUSH_RANGE_CAP)
  <2>1. pending_flushes' = <<>> /\ needs_full_flush' = TRUE
    BY <1>4 DEF Push
  <2>. QED  BY <1>2, <2>1, QueueAssumption
            DEF TypeOK, QueueIsExact, RangesApart, WindowInv, Pending
<1>. QED  BY <1>3, <1>4

\* A full flush leaves nothing pending.
LEMMA FlushAllStep == IInv /\ FlushAll => IInv'
<1>. SUFFICES ASSUME IInv, FlushAll PROVE IInv'
  OBVIOUS
<1>1. /\ stale' = {} /\ pending_flushes' = <<>> /\ needs_full_flush' = FALSE
      /\ pc = "idle" /\ start = 0 /\ end = 0 /\ UNCHANGED <<pc, start, end, idx>>
  BY DEF FlushAll, IInv, WindowInv
<1>2. Pending' = {} /\ Queued' = {}
  BY <1>1 DEF Pending, Queued
<1>3. TypeOK'
  <2>1. pending_flushes' \in Seq(FlushRanges) /\ Len(pending_flushes') <= FLUSH_RANGE_CAP
    BY <1>1, EmptyQueue, QueueAssumption
  <2>. QED  BY <1>1, <2>1 DEF IInv, TypeOK
<1>4. QueueIsExact' /\ RangesApart' /\ WindowInv'
  BY <1>1, <1>2 DEF QueueIsExact, RangesApart, WindowInv
<1>. QED  BY <1>3, <1>4 DEF IInv

\* A flush by ranges begins with the whole queue.
LEMMA FlushRangesStartStep == IInv /\ FlushRangesStart => IInv'
  BY DEF IInv, FlushRangesStart, TypeOK, QueueIsExact, RangesApart, WindowInv, Queued, Pending,
         PagesOf, range_end

\* The range with the least start is flushed and leaves the queue.
LEMMA FlushRangeStep == IInv /\ FlushRange => IInv'
<1>. SUFFICES ASSUME IInv, FlushRange PROVE IInv'
  OBVIOUS
<1>. USE DEF IInv
<1>1. PICK i \in Pending : /\ stale' = stale \ PagesOf(pending_flushes[i])
                           /\ pending_flushes' = swap_remove(i)
  BY DEF FlushRange
<1>2. pc = "emit" /\ ~needs_full_flush /\ start = 0 /\ end = 0
      /\ UNCHANGED <<needs_full_flush, pc, start, end, idx>>
  BY DEF FlushRange, WindowInv
<1>3. TypeOK'
  <2>1. /\ pending_flushes' \in Seq(FlushRanges)
        /\ Len(pending_flushes') = Len(pending_flushes) - 1
    BY <1>1, SwapRemove
  <2>2. Len(pending_flushes) \in Nat
    BY DEF TypeOK
  <2>3. Len(pending_flushes') <= FLUSH_RANGE_CAP
    BY <2>1, <2>2, QueueAssumption DEF TypeOK
  <2>. QED  BY <1>1, <1>2, <2>1, <2>3 DEF TypeOK
<1>4. RangesApart' /\ QueueIsExact'
  BY <1>1, <1>2, RemoveQueued DEF QueueIsExact
<1>5. WindowInv'
  BY <1>2 DEF WindowInv
<1>. QED  BY <1>3, <1>4, <1>5

\* It ends when the queue is empty.
LEMMA FlushRangesEndStep == IInv /\ FlushRangesEnd => IInv'
  BY DEF IInv, FlushRangesEnd, TypeOK, QueueIsExact, RangesApart, WindowInv, Queued, Pending,
         PagesOf, range_end

\* IInv is an inductive invariant of the flush queue.
THEOREM IInvInductive == IInv /\ [Next]_vars => IInv'
<1>. SUFFICES ASSUME IInv, [Next]_vars PROVE IInv'
  OBVIOUS
<1>1. ASSUME NEW from \in 0..UMAX-1, NEW to \in 0..UMAX-1, Queue(from, to) PROVE IInv'
  BY <1>1, QueueStep
<1>2. CASE UNCHANGED vars
  BY <1>2 DEF vars, IInv, TypeOK, QueueIsExact, RangesApart, WindowInv, Queued, Pending,
              PagesOf, range_end, Apart
<1>. QED  BY <1>1, <1>2, SkipStep, AbsorbStep, PushStep, FlushAllStep, FlushRangesStartStep,
             FlushRangeStep, FlushRangesEndStep DEF Next, Step

\* So the invariant always holds.
LEMMA InvariantHolds == Spec => []IInv
  BY InitIInv, IInvInductive, PTL DEF Spec

\* The queue keeps its types and its capacity in every behaviour: the index of the
\* scan stays inside it and no range ends before it starts.
THEOREM QueueTyped == Spec => []TypeOK
BY InvariantHolds, PTL DEF IInv

\* What will be flushed is exactly what has changed (queue_flush_range).
THEOREM AlwaysExact == Spec => []QueueIsExact
  BY InvariantHolds, PTL DEF IInv

\* Pending ranges never overlap or touch (queue_flush_range): the single pass over
\* a queue that swap_remove reorders is enough.
THEOREM AlwaysApart == Spec => []RangesApart
  BY InvariantHolds, PTL DEF IInv

\* When flush_pending has ended, nothing that changed before it is left unflushed.
THEOREM FlushCompletes == Spec => FlushCoversAll
<1>1. IInv /\ [Next]_vars => [FlushAll \/ FlushRangesEnd => stale' = {}]_vars
  <2>. SUFFICES ASSUME IInv, FlushAll \/ FlushRangesEnd PROVE stale' = {}
    OBVIOUS
  <2>. QED  BY DEF IInv, FlushAll, FlushRangesEnd, QueueIsExact, WindowInv, Queued
<1>. QED  BY <1>1, InvariantHolds, PTL DEF Spec, FlushCoversAll

\* There are finitely many runs of changed pages.
LEMMA RunsFinite ==
  ASSUME TypeOK
  PROVE  IsFiniteSet(Runs(stale)) /\ Cardinality(Runs(stale)) \in Nat
<1>1. 0 \in Int /\ UMAX - 2 \in Int
  BY QueueAssumption
<1>2. IsFiniteSet(0..UMAX-2)
  BY <1>1, FS_Interval
<1>3. Runs(stale) \in SUBSET (0..UMAX-2)
  BY DEF TypeOK, Runs
<1>4. IsFiniteSet(Runs(stale))
  BY <1>2, <1>3, FS_Subset
<1>. QED  BY <1>4, FS_CardinalityType

\* At the push, the window and each pending range begin a run of their own.
LEMMA StartsAreRuns ==
  ASSUME IInv, pc = "merge", idx \notin Pending
  PROVE  Cardinality(Runs(stale)) > Len(pending_flushes)
<1>. DEFINE n == Len(pending_flushes)
            first == [i \in 1..n+1 |-> IF i \in Pending THEN pending_flushes[i].start ELSE start]
<1>. USE DEF IInv
<1>1. /\ Pending = 1..n /\ n \in Nat
      /\ idx \in Nat \ {0} /\ idx <= n + 1
      /\ \A i \in Pending : i < idx => Apart(pending_flushes[i])
      /\ start \in 0..UMAX-1 /\ end \in 0..UMAX-1 /\ start < end /\ UMAX \in Nat
      /\ stale = Queued \cup start..end-1
  BY QueueAssumption DEF TypeOK, WindowInv, Pending, QueueIsExact
<1>2. \A i \in Pending :
        /\ pending_flushes[i].start \in Nat /\ pending_flushes[i].pages \in Nat \ {0}
        /\ \/ end < pending_flushes[i].start
           \/ pending_flushes[i].start + pending_flushes[i].pages < start
  <2>1. \A i \in Pending : pending_flushes[i] \in FlushRanges
    BY <1>1 DEF TypeOK
  <2>2. \A i \in Pending : Apart(pending_flushes[i])
    BY <1>1
  <2>. QED  BY <2>1, <2>2 DEF FlushRanges, Apart, range_end
<1>3. \A i, j \in Pending : i # j =>
        \/ pending_flushes[i].start + pending_flushes[i].pages < pending_flushes[j].start
        \/ pending_flushes[j].start + pending_flushes[j].pages < pending_flushes[i].start
  BY DEF RangesApart, range_end
<1>4. \A v : v \in stale <=>
        \/ \E i \in Pending : v \in pending_flushes[i].start ..
                                    (pending_flushes[i].start + pending_flushes[i].pages) - 1
        \/ v \in start..end-1
  <2>1. \A v : v \in Queued <=>
          \E i \in Pending : v \in pending_flushes[i].start ..
                                  (pending_flushes[i].start + pending_flushes[i].pages) - 1
    <3>1. \A v : v \in Queued <=> \E i \in Pending : v \in PagesOf(pending_flushes[i])
      BY DEF Queued
    <3>. QED  BY <3>1, Zenon DEF PagesOf, range_end
  <2>. QED  BY <1>1, <2>1
<1>5. start \in Runs(stale)
  <2>1. start \in stale
    BY <1>1, <1>4
  <2>2. start - 1 \notin stale
    <3>1. start - 1 \notin start..end-1
      BY <1>1
    <3>2. ASSUME NEW i \in Pending,
                 start - 1 \in pending_flushes[i].start ..
                               (pending_flushes[i].start + pending_flushes[i].pages) - 1
          PROVE  FALSE
      BY <1>1, <1>2, <3>2
    <3>. QED  BY <1>4, <3>1, <3>2
  <2>. QED  BY <2>1, <2>2 DEF Runs
<1>6. ASSUME NEW i \in Pending
      PROVE  pending_flushes[i].start \in Runs(stale)
  <2>1. pending_flushes[i].start \in stale
    BY <1>2, <1>4
  <2>2. pending_flushes[i].start - 1 \notin stale
    <3>. DEFINE v == pending_flushes[i].start - 1
    <3>1. v \notin start..end-1
      BY <1>1, <1>2
    <3>2. ASSUME NEW j \in Pending,
                 v \in pending_flushes[j].start ..
                       (pending_flushes[j].start + pending_flushes[j].pages) - 1
          PROVE  FALSE
      BY <1>2, <1>3, <3>2
    <3>. QED  BY <1>4, <3>1, <3>2
  <2>. QED  BY <2>1, <2>2 DEF Runs
<1>7. first \in [1..n+1 -> Runs(stale)]
  BY <1>5, <1>6
<1>8. \A i, j \in 1..n+1 : first[i] = first[j] => i = j
  <2>1. \A i \in 1..n+1 : i \notin Pending => i = n + 1
    BY <1>1
  <2>2. \A i \in Pending : pending_flushes[i].start # start
    BY <1>1, <1>2
  <2>3. \A i, j \in Pending : i # j => pending_flushes[i].start # pending_flushes[j].start
    BY <1>2, <1>3
  <2>. QED  BY <2>1, <2>2, <2>3
<1>. HIDE DEF first
<1>9. first \in Injection(1..n+1, Runs(stale))
  BY <1>7, <1>8 DEF Injection, IsInjective
<1>10. IsFiniteSet(Runs(stale))
  BY RunsFinite
<1>11. Cardinality(1..n+1) <= Cardinality(Runs(stale)) /\ Cardinality(1..n+1) = n + 1
  BY <1>1, <1>9, <1>10, FS_Injection, FS_Interval
<1>12. Cardinality(Runs(stale)) \in Nat
  BY <1>10, FS_CardinalityType
<1>. QED  BY <1>1, <1>11, <1>12

\* queue_flush_range turns to a full flush only for more separate ranges than the
\* queue holds, in whatever order they were queued.
THEOREM EscalationJustified == Spec => EscalatesOnlyOnOverflow
<1>1. IInv /\ [Next]_vars =>
        [~needs_full_flush /\ needs_full_flush' =>
           Cardinality(Runs(stale)) > FLUSH_RANGE_CAP]_vars
  <2>. SUFFICES ASSUME IInv, Next, ~needs_full_flush, needs_full_flush'
                PROVE  Cardinality(Runs(stale)) > FLUSH_RANGE_CAP
    OBVIOUS
  <2>1. Push
    BY DEF Next, Step, Queue, Skip, Absorb, FlushAll, FlushRangesStart, FlushRange,
           FlushRangesEnd
  <2>2. pc = "merge" /\ idx \notin Pending /\ ~(Len(pending_flushes) < FLUSH_RANGE_CAP)
    BY <2>1 DEF Push
  <2>3. Cardinality(Runs(stale)) > Len(pending_flushes)
    BY <2>2, StartsAreRuns
  <2>4. Len(pending_flushes) \in Nat /\ Cardinality(Runs(stale)) \in Nat
    BY RunsFinite DEF IInv, TypeOK
  <2>. QED  BY <2>2, <2>3, <2>4, QueueAssumption
<1>. QED  BY <1>1, InvariantHolds, PTL DEF Spec, EscalatesOnlyOnOverflow

-------------------------------------------------------------------------------
(* The number of pages that the policy is asked about. *)

\* A set of numbers has a least one.
LEMMA LeastElement ==
  ASSUME NEW T \in SUBSET Nat, NEW x \in T
  PROVE  \E y \in T : \A z \in T : y <= z
<1>1. IsWellFoundedOn(OpToRel(<, Nat), Nat)
  BY NatLessThanWellFounded
<1>2. PICK y \in T : \A z \in T : ~(<<z, y>> \in OpToRel(<, Nat))
  BY <1>1, WFMin
<1>3. \A z \in T : ~(z < y)
  BY <1>2 DEF OpToRel
<1> QED
  BY <1>3

\* The sums of count, when the sum before the last range is s[k-1].
SumFrom(s, q, n) == [k \in 0..n |-> IF k = 0 THEN 0 ELSE s[k-1] + q[k].pages]

\* count is defined by recursion on the number of ranges: the sums exist.
LEMMA SumsExist ==
  ASSUME NEW q, Len(q) \in Nat
  PROVE  \E s : s = SumFrom(s, q, Len(q))
<1> DEFINE T == {n \in 0..Len(q) : ~\E s : s = SumFrom(s, q, n)}
<1> SUFFICES ASSUME Len(q) \in T
             PROVE  FALSE
  OBVIOUS
<1>1. PICK n \in T : \A k \in T : n <= k
  <2>1. T \in SUBSET Nat
    OBVIOUS
  <2> HIDE DEF T
  <2> QED
    BY <2>1, LeastElement
<1>2. n \in 0..Len(q) /\ ~\E s : s = SumFrom(s, q, n)
  BY <1>1
<1>3. CASE n = 0
  <2> DEFINE s == [k \in 0..0 |-> 0]
  <2>1. s = SumFrom(s, q, 0)
    BY DEF SumFrom
  <2> QED
    BY <1>2, <1>3, <2>1
<1>4. CASE n # 0
  <2>1. n - 1 \in 0..Len(q) /\ n - 1 \notin T
    BY <1>1, <1>2, <1>4
  <2>2. PICK s : s = SumFrom(s, q, n - 1)
    BY <2>1
  <2> DEFINE t == [k \in 0..n |-> IF k = n THEN s[n-1] + q[n].pages ELSE s[k]]
  <2>3. ASSUME NEW k \in 0..n
        PROVE  t[k] = SumFrom(t, q, n)[k]
    <3>1. CASE k = n
      <4>1. t[n-1] = s[n-1] /\ t[k] = s[n-1] + q[n].pages
        BY <1>2, <1>4, <3>1
      <4> HIDE DEF t
      <4> QED
        BY <1>4, <3>1, <4>1 DEF SumFrom
    <3>2. CASE k # n
      <4>1. k \in 0..n-1 /\ t[k] = s[k] /\ (k # 0 => t[k-1] = s[k-1])
        BY <1>2, <3>2
      <4>2. s[k] = SumFrom(s, q, n - 1)[k]
        BY <2>2
      <4> HIDE DEF t
      <4> QED
        BY <4>1, <4>2 DEF SumFrom
    <3> QED
      BY <3>1, <3>2
  <2>4. t = SumFrom(t, q, n)
    <3>1. SumFrom(t, q, n) = [k \in 0..n |-> SumFrom(t, q, n)[k]]
      BY DEF SumFrom
    <3>2. t = [k \in 0..n |-> t[k]]
      OBVIOUS
    <3> HIDE DEF t
    <3> QED
      BY <2>3, <3>1, <3>2
  <2> QED
    BY <1>2, <2>4
<1> QED
  BY <1>3, <1>4

\* count is the last of the sums.
LEMMA CountIsSum ==
  ASSUME Len(pending_flushes) \in Nat
  PROVE  \E t : /\ t = SumFrom(t, pending_flushes, Len(pending_flushes))
               /\ count = t[Len(pending_flushes)]
<1> DEFINE t == CHOOSE r : r = [k \in 0..Len(pending_flushes) |->
                  IF k = 0 THEN 0 ELSE r[k-1] + pending_flushes[k].pages]
<1>1. t = SumFrom(t, pending_flushes, Len(pending_flushes))
  <2>1. PICK s : s = SumFrom(s, pending_flushes, Len(pending_flushes))
    BY SumsExist
  <2> QED
    BY Zenon, <2>1 DEF SumFrom
<1>2. count = t[Len(pending_flushes)]
  BY Zenon DEF count
<1> QED
  BY <1>1, <1>2

\* The pages of the first n ranges.
Front(n) == UNION {PagesOf(pending_flushes[i]) : i \in 1..n}

\* Ranges that are apart have no page in common, so a range more is so many pages more.
LEMMA FrontGrows ==
  ASSUME TypeOK, RangesApart, NEW n \in 1..Len(pending_flushes), IsFiniteSet(Front(n - 1))
  PROVE  /\ IsFiniteSet(Front(n))
         /\ Cardinality(Front(n)) = Cardinality(Front(n - 1)) + pending_flushes[n].pages
<1> DEFINE r == pending_flushes[n]
           P == PagesOf(r)
<1>1. /\ Len(pending_flushes) \in Nat /\ Pending = 1..Len(pending_flushes)
      /\ \A i \in Pending : /\ pending_flushes[i].start \in Int
                           /\ pending_flushes[i].pages \in Nat /\ pending_flushes[i].pages >= 1
  <2>1. Len(pending_flushes) \in Nat /\ Pending = 1..Len(pending_flushes)
    BY DEF TypeOK, Pending
  <2>2. \A i \in Pending : pending_flushes[i] \in FlushRanges
    BY DEF TypeOK, Pending
  <2>3. \A x \in FlushRanges : x.start \in Int /\ x.pages \in Nat /\ x.pages >= 1
    BY QueueAssumption DEF FlushRanges
  <2> QED
    BY <2>1, <2>2, <2>3
<1>2. r.start \in Int /\ r.pages \in Nat /\ r.pages >= 1
  BY <1>1
<1>3. IsFiniteSet(P) /\ Cardinality(P) = r.pages
  <2> DEFINE a == r.start
             c == r.pages
  <2>1. P = a..(a + c - 1)
    BY <1>2 DEF PagesOf, range_end
  <2>2. a \in Int /\ c \in Nat /\ c >= 1
    BY <1>2
  <2> HIDE DEF a, c, P
  <2>3. IsFiniteSet(P) /\ Cardinality(P) = IF a > a + c - 1 THEN 0 ELSE (a + c - 1) - a + 1
    BY <2>1, <2>2, FS_Interval
  <2> QED
    BY <2>2, <2>3 DEF c
<1>4. Front(n) = Front(n - 1) \cup P
  <2>1. 1..n = (1..n-1) \cup {n}
    BY <1>1
  <2> QED
    BY <2>1 DEF Front
<1>5. Front(n - 1) \cap P = {}
  <2> SUFFICES ASSUME NEW i \in 1..n-1, NEW v \in PagesOf(pending_flushes[i]), v \in P
               PROVE  FALSE
    BY DEF Front
  <2>1. i \in Pending /\ n \in Pending /\ i # n
    BY <1>1
  <2>2. \/ range_end(pending_flushes[i]) < pending_flushes[n].start
        \/ range_end(pending_flushes[n]) < pending_flushes[i].start
    BY <2>1 DEF RangesApart
  <2> DEFINE q == pending_flushes[i]
  <2>3. /\ q.start \in Int /\ q.pages \in Nat /\ r.start \in Int /\ r.pages \in Nat
        /\ v \in q.start .. (q.start + q.pages - 1) /\ v \in r.start .. (r.start + r.pages - 1)
        /\ q.start + q.pages < r.start \/ r.start + r.pages < q.start
    BY <1>1, <1>2, <2>1, <2>2 DEF PagesOf, range_end
  <2> HIDE DEF q, r
  <2> QED
    BY <2>3
<1> HIDE DEF P, r
<1>6. /\ IsFiniteSet(Front(n))
      /\ Cardinality(Front(n)) = Cardinality(Front(n - 1)) + Cardinality(P) - Cardinality({})
  BY <1>3, <1>4, <1>5, FS_Union
<1> QED
  BY <1>2, <1>3, <1>6, FS_EmptySet, FS_CardinalityType DEF r

\* What is pending, added up, is the number of pages in the queue.
LEMMA CountIsQueued ==
  ASSUME TypeOK, RangesApart
  PROVE  count = Cardinality(Queued)
<1> DEFINE L == Len(pending_flushes)
<1>1. L \in Nat /\ Pending = 1..L
  BY DEF TypeOK, Pending
<1>2. PICK t : t = SumFrom(t, pending_flushes, L) /\ count = t[L]
  BY <1>1, CountIsSum
<1>3. t[0] = 0 /\ \A k \in 1..L : t[k] = t[k-1] + pending_flushes[k].pages
  <2>1. \A k \in 0..L : SumFrom(t, pending_flushes, L)[k] =
                          IF k = 0 THEN 0 ELSE t[k-1] + pending_flushes[k].pages
    BY Zenon DEF SumFrom
  <2>2. \A k \in 0..L : t[k] = IF k = 0 THEN 0 ELSE t[k-1] + pending_flushes[k].pages
    BY <1>2, <2>1
  <2> HIDE DEF L
  <2> QED
    BY <1>1, <2>2
<1> DEFINE Good(k) == IsFiniteSet(Front(k)) /\ t[k] = Cardinality(Front(k))
           T == {k \in 0..L : ~Good(k)}
<1>4. Good(0)
  BY <1>3, FS_EmptySet DEF Front
<1>5. ASSUME NEW k \in 1..L, Good(k - 1)
      PROVE  Good(k)
  BY <1>3, <1>5, FrontGrows
<1>6. T = {}
  <2> SUFFICES ASSUME T # {}
               PROVE  FALSE
    OBVIOUS
  <2> HIDE DEF Good, L
  <2>1. PICK k \in T : \A j \in T : k <= j
    <3>1. T \in SUBSET Nat
      OBVIOUS
    <3> HIDE DEF T
    <3> QED
      BY <3>1, LeastElement
  <2>2. k \in 0..L /\ ~Good(k) /\ k # 0
    BY <1>4, <2>1
  <2>3. k \in 1..L /\ k - 1 \in 0..L /\ k - 1 \notin T
    BY <1>1, <2>1, <2>2
  <2> QED
    BY <1>5, <2>2, <2>3
<1>7. Good(L)
  BY <1>1, <1>6
<1>8. Front(L) = Queued
  BY <1>1 DEF Front, Queued
<1> QED
  BY <1>2, <1>7, <1>8

\* prefer_full_flush is asked about the number of pages that changed, each counted
\* once: no two ranges share a page, and together they are what changed.
THEOREM CountTellsChanges == Spec => []CountIsExact
<1>1. IInv => CountIsExact
  <2> SUFFICES ASSUME IInv, pc = "idle", ~needs_full_flush
               PROVE  count = Cardinality(stale)
    BY DEF CountIsExact
  <2>1. count = Cardinality(Queued)
    BY CountIsQueued DEF IInv
  <2>2. stale = Queued
    BY DEF IInv, QueueIsExact, WindowInv
  <2> QED
    BY <2>1, <2>2
<1> QED
  BY <1>1, InvariantHolds, PTL

===============================================================================

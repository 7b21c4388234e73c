------------------------------ MODULE FlushQueue ------------------------------
(***************************************************************************)
(* The flush queue of PageTableCursor in src/walker.rs: the ranges whose   *)
(* translations a batch has changed, to be flushed together when the       *)
(* cursor finishes or is dropped.                                          *)
(*                                                                         *)
(* Unit: base pages.  The end of a range that is queued is an address, so  *)
(* the branches for an end that is not representable are never taken.      *)
(***************************************************************************)
EXTENDS Integers, Sequences, FiniteSetsExt

CONSTANTS
  UMAX,             \* number of values of the address type, in base pages
  FLUSH_RANGE_CAP,  \* capacity of the queue
  FullThreshold     \* prefer_full_flush: above this many pages, flush everything

ASSUME QueueAssumption ==
  /\ UMAX \in Nat \ {0}
  /\ FLUSH_RANGE_CAP \in Nat
  /\ FullThreshold \in Nat

VARIABLES
  pending_flushes,   \* disjoint ranges [start, pages], in no order
  needs_full_flush,  \* the ranges did not fit
  pc,                \* "idle", "merge" in queue_flush_range, "emit" in flush_pending
  start, end,        \* the range being queued, grown by what it has absorbed
  idx,               \* next pending range to compare it with (from 1)
  stale              \* history: changed pages that no flush has covered yet

vars == <<pending_flushes, needs_full_flush, pc, start, end, idx, stale>>

FlushRanges == [start: 0..UMAX-1, pages: 1..UMAX]

range_end(r) == r.start + r.pages

PagesOf(r) == r.start .. range_end(r) - 1

Pending == DOMAIN pending_flushes

Queued == UNION {PagesOf(pending_flushes[i]) : i \in Pending}

\* The last element takes the place of the one removed.
swap_remove(i) ==
  [j \in 1..Len(pending_flushes)-1 |->
     IF j = i THEN pending_flushes[Len(pending_flushes)] ELSE pending_flushes[j]]

Init ==
  /\ pending_flushes = <<>> /\ needs_full_flush = FALSE
  /\ pc = "idle" /\ start = 0 /\ end = 0 /\ idx = 1
  /\ stale = {}

-------------------------------------------------------------------------------
(* queue_flush_range, after the leaf over from..to-1 has changed. *)

Queue(from, to) ==
  /\ pc = "idle" /\ from <= to
  /\ stale' = stale \cup from..to-1
  /\ IF needs_full_flush \/ from = to
     THEN UNCHANGED <<pc, start, end, idx>>
     ELSE pc' = "merge" /\ start' = from /\ end' = to /\ idx' = 1
  /\ UNCHANGED <<pending_flushes, needs_full_flush>>

\* Mutant: adjacent ranges are not joined.
ApartTight(r) == end <= r.start \/ range_end(r) <= start

Apart(r) == end < r.start \/ range_end(r) < start

Skip ==
  /\ pc = "merge" /\ idx \in Pending
  /\ Apart(pending_flushes[idx])
  /\ idx' = idx + 1
  /\ UNCHANGED <<pending_flushes, needs_full_flush, pc, start, end, stale>>

\* Mutant: the window keeps its own end.
AbsorbStart ==
  /\ pc = "merge" /\ idx \in Pending
  /\ LET r == pending_flushes[idx] IN
     /\ ~Apart(r)
     /\ start' = IF r.start < start THEN r.start ELSE start
  /\ pending_flushes' = swap_remove(idx)
  /\ UNCHANGED <<needs_full_flush, pc, end, idx, stale>>

\* Mutant: the absorbed range stays in the queue.
AbsorbKeep ==
  /\ pc = "merge" /\ idx \in Pending
  /\ LET r == pending_flushes[idx] IN
     /\ ~Apart(r)
     /\ start' = IF r.start < start THEN r.start ELSE start
     /\ end' = IF range_end(r) > end THEN range_end(r) ELSE end
  /\ UNCHANGED <<pending_flushes, needs_full_flush, pc, idx, stale>>

\* Mutant: steps over the range that swap_remove has moved to idx.
AbsorbAdvance ==
  /\ pc = "merge" /\ idx \in Pending
  /\ LET r == pending_flushes[idx] IN
     /\ ~Apart(r)
     /\ start' = IF r.start < start THEN r.start ELSE start
     /\ end' = IF range_end(r) > end THEN range_end(r) ELSE end
  /\ pending_flushes' = swap_remove(idx)
  /\ idx' = idx + 1
  /\ UNCHANGED <<needs_full_flush, pc, stale>>

\* idx stays: swap_remove has put another range there.
Absorb ==
  /\ pc = "merge" /\ idx \in Pending
  /\ LET r == pending_flushes[idx] IN
     /\ ~Apart(r)
     /\ start' = IF r.start < start THEN r.start ELSE start
     /\ end' = IF range_end(r) > end THEN range_end(r) ELSE end
  /\ pending_flushes' = swap_remove(idx)
  /\ UNCHANGED <<needs_full_flush, pc, idx, stale>>

\* Mutant: the push is not checked.
PushUnchecked ==
  /\ pc = "merge" /\ idx \notin Pending
  /\ pending_flushes' = Append(pending_flushes, [start |-> start, pages |-> end - start])
  /\ pc' = "idle"
  /\ start' = 0 /\ end' = 0 /\ idx' = 1
  /\ UNCHANGED <<needs_full_flush, stale>>

\* Mutant: a full queue drops the range.
PushDrop ==
  /\ pc = "merge" /\ idx \notin Pending
  /\ IF Len(pending_flushes) < FLUSH_RANGE_CAP
     THEN /\ pending_flushes' =
               Append(pending_flushes, [start |-> start, pages |-> end - start])
          /\ UNCHANGED needs_full_flush
     ELSE UNCHANGED <<pending_flushes, needs_full_flush>>
  /\ pc' = "idle"
  /\ start' = 0 /\ end' = 0 /\ idx' = 1
  /\ UNCHANGED stale

Push ==
  /\ pc = "merge" /\ idx \notin Pending
  /\ IF Len(pending_flushes) < FLUSH_RANGE_CAP
     THEN /\ pending_flushes' =
               Append(pending_flushes, [start |-> start, pages |-> end - start])
          /\ UNCHANGED needs_full_flush
     ELSE pending_flushes' = <<>> /\ needs_full_flush' = TRUE
  /\ pc' = "idle"
  /\ start' = 0 /\ end' = 0 /\ idx' = 1
  /\ UNCHANGED stale

-------------------------------------------------------------------------------
(* flush_pending, called by finish and again by Drop. *)

count ==
  LET sum[k \in 0..Len(pending_flushes)] ==
        IF k = 0 THEN 0 ELSE sum[k-1] + pending_flushes[k].pages
  IN sum[Len(pending_flushes)]

prefer_full_flush(pages) == pages > FullThreshold

FlushAll ==
  /\ pc = "idle"
  /\ needs_full_flush \/ (count # 0 /\ prefer_full_flush(count))
  /\ stale' = {}
  /\ pending_flushes' = <<>> /\ needs_full_flush' = FALSE
  /\ UNCHANGED <<pc, start, end, idx>>

FlushRangesStart ==
  /\ pc = "idle" /\ ~needs_full_flush
  /\ count # 0 /\ ~prefer_full_flush(count)
  /\ pc' = "emit"
  /\ UNCHANGED <<pending_flushes, needs_full_flush, start, end, idx, stale>>

\* One flush_tlb_range_local per range, in the order of their starts.  The range
\* leaves the queue here; the code clears the queue after the last.
FlushRange ==
  /\ pc = "emit"
  /\ \E i \in Pending :
       /\ \A j \in Pending : pending_flushes[i].start <= pending_flushes[j].start
       /\ stale' = stale \ PagesOf(pending_flushes[i])
       /\ pending_flushes' = swap_remove(i)
  /\ UNCHANGED <<needs_full_flush, pc, start, end, idx>>

FlushRangesEnd ==
  /\ pc = "emit" /\ Pending = {}
  /\ pc' = "idle"
  /\ UNCHANGED <<pending_flushes, needs_full_flush, start, end, idx, stale>>

\* The steps of the two functions, as opposed to the cursor's calls of them.
Step == Skip \/ Absorb \/ Push \/ FlushRange \/ FlushRangesEnd

Next ==
  \/ \E from, to \in 0..UMAX-1 : Queue(from, to)
  \/ FlushAll \/ FlushRangesStart
  \/ Step

\* The code is sequential: a function that has begun runs on.
Spec == Init /\ [][Next]_vars /\ WF_vars(Step)

-------------------------------------------------------------------------------
(* Properties. *)

TypeOK ==
  /\ pending_flushes \in Seq(FlushRanges)
  /\ Len(pending_flushes) <= FLUSH_RANGE_CAP
  /\ needs_full_flush \in BOOLEAN
  /\ pc \in {"idle", "merge", "emit"}
  /\ start \in 0..UMAX-1 /\ end \in 0..UMAX-1 /\ idx \in Nat \ {0}
  /\ stale \subseteq 0..UMAX-2

\* What the queue will flush is what has changed and was not flushed yet, no page
\* more and no page less, whatever the order in which ranges came, absorbed one
\* another and were moved by swap_remove.
QueueIsExact ==
  ~needs_full_flush => stale = Queued \cup start..end-1

\* No two pending ranges overlap or touch, although a range that grows while the
\* queue is scanned is not compared again with those it has passed.
RangesApart ==
  \A i, j \in Pending : i # j =>
    \/ range_end(pending_flushes[i]) < pending_flushes[j].start
    \/ range_end(pending_flushes[j]) < pending_flushes[i].start

\* Starts of the maximal runs of adjacent pages in S.
Runs(S) == {v \in S : v - 1 \notin S}

\* "If the fragmented range set exceeds FLUSH_RANGE_CAP, escalate": the queue never
\* gives up ranges that would fit once joined, in whatever order they came.
EscalatesOnlyOnOverflow ==
  [][~needs_full_flush /\ needs_full_flush' => Cardinality(Runs(stale)) > FLUSH_RANGE_CAP]_vars

\* A flush that ends has covered every page that changed before it.
FlushCoversAll ==
  [][FlushAll \/ FlushRangesEnd => stale' = {}]_vars

\* The policy is asked about the number of pages that changed, each counted once.
CountIsExact ==
  pc = "idle" /\ ~needs_full_flush => count = Cardinality(stale)

\* Both functions end: the scan of the queue although the queue changes under it,
\* and the emission.
CallsEnd == (pc # "idle") ~> (pc = "idle")

-------------------------------------------------------------------------------
(* The inductive invariant. *)

\* The range being queued touches none of those already passed; there is one only
\* while the queue is scanned, and nothing is queued behind a full flush.
WindowInv ==
  /\ pc = "merge" =>
       /\ start < end /\ idx <= Len(pending_flushes) + 1
       /\ \A i \in Pending : i < idx => Apart(pending_flushes[i])
  /\ pc # "merge" => start = 0 /\ end = 0
  /\ needs_full_flush => pending_flushes = <<>> /\ pc = "idle"

IInv == TypeOK /\ QueueIsExact /\ RangesApart /\ WindowInv

===============================================================================

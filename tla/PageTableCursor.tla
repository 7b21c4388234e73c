---------------------------- MODULE PageTableCursor ----------------------------
(***************************************************************************)
(* PageTableCursor of src/walker.rs on top of the walker it borrows: maps  *)
(* of several leaves, the cached descent, and the flushes it puts off.     *)
(*                                                                         *)
(* A step of a cursor call is the walker's step with what it does to the   *)
(* cursor's own fields.  The flush queue is the set of pages it covers:    *)
(* module FlushQueue shows that the queue is exact.                        *)
(***************************************************************************)
EXTENDS PageTableWalker, Sequences, FiniteSetsExt

CONSTANTS
  NoPage,   \* not an address
  Batches   \* calls of map: [start, end, extents, scattered, granule, fl]

ASSUME CursorAssumption ==
  /\ NoPage \notin 0..UMAX-1
  /\ 1 \in LeafLevels   \* BASE_PAGE_SIZE is a leaf size

\* A call of map: a range, a backing that is one physical range or a list of them,
\* and flags.
ASSUME BatchAssumption ==
  \A b \in Batches :
    /\ b.start \in 0..UMAX-1 /\ b.end \in b.start..UMAX-1
    /\ b.extents \in Seq([pa: Nat, size: Nat])
    /\ b.scattered \in BOOLEAN /\ (~b.scattered => Len(b.extents) = 1)
    /\ b.granule \in Nat /\ b.fl \in Flags

VARIABLES
  open,        \* a cursor borrows the walker
  descent,     \* descent[l]: the table of level l on the path of last_vaddr
  last_vaddr,  \* the address mapped last
  batch,       \* the call of map in progress: [of, next, at]; at is in extent next
  queued,      \* pages in the flush queue
  changed      \* history: pages whose translation changed since the cursor was opened

cache == <<descent, last_vaddr>>
cvars == <<vars, open, cache, batch, queued, changed>>

NoDescent == [l \in 1..LEVELS-1 |-> NoFrame]
NoBatch == [at |-> NoPage]

CursorInit ==
  /\ Init
  /\ open = FALSE /\ descent = NoDescent /\ last_vaddr = NoPage
  /\ batch = NoBatch /\ queued = {} /\ changed = {}

new ==
  /\ pc = "idle" /\ root # NoFrame /\ ~open
  /\ open' = TRUE /\ descent' = NoDescent /\ last_vaddr' = NoPage
  /\ UNCHANGED <<vars, batch, queued>>

\* finish and Drop, also when a call has failed: flush_pending.
finish ==
  /\ pc = "idle" /\ open /\ batch = NoBatch
  /\ open' = FALSE /\ queued' = {}
  /\ descent' = NoDescent /\ last_vaddr' = NoPage
  /\ UNCHANGED <<vars, batch>>

-------------------------------------------------------------------------------
(* map: the checks of a call.  An extent is a physical range [pa, size];   *)
(* granule is 0 for MappingContiguity::Contiguous.                         *)

check_scatter_segment(x, granule) ==
  x.size # 0 /\ x.pa % granule = 0 /\ x.size % granule = 0

\* The first n extents together: the offset at which extent n + 1 begins.
SizeOf(extents, n) ==
  LET sum[k \in 0..Len(extents)] == IF k = 0 THEN 0 ELSE sum[k-1] + extents[k].size
  IN sum[n]

BatchCheck(b) ==
  LET Covered == SizeOf(b.extents, Len(b.extents)) = Size(b) IN
  IF b.granule = 0
  THEN IF b.scattered \/ b.start = b.end \/ ~Covered THEN "InvalidMappingShape" ELSE "Ok"
  ELSE IF b.start = b.end \/ Size(b) % b.granule # 0 THEN "InvalidMappingShape"
  ELSE IF ~size_is_supported(b.granule) THEN "UnsupportedSize"
  ELSE IF /\ \A i \in DOMAIN b.extents : check_scatter_segment(b.extents[i], b.granule)
          /\ Covered
       THEN "Ok" ELSE "InvalidMappingShape"

\* A refused call fails at once; an accepted one maps leaf after leaf.
map(b) ==
  /\ pc = "idle" /\ open /\ batch = NoBatch
  /\ batch' = [of |-> b, next |-> 1, at |-> b.start]
  /\ IF BatchCheck(b) = "Ok" THEN UNCHANGED <<pc, ret>> ELSE Finish(BatchCheck(b))
  /\ UNCHANGED <<memory, ghosts, req, locals, untidy, open, cache, queued>>

-------------------------------------------------------------------------------
(* map_contiguous: the next leaf of the batch. *)

\* Where extent n begins, and so extent n - 1 ends.
Begin(n) == batch.of.start + SizeOf(batch.of.extents, n - 1)

\* Mutant: a later leaf does not move on in physical memory.
RestStill ==
  [pa |-> batch.of.extents[batch.next].pa, size |-> Begin(batch.next + 1) - batch.at]

\* What is left of the extent in progress.
Rest ==
  [pa |-> batch.of.extents[batch.next].pa + (batch.at - Begin(batch.next)),
   size |-> Begin(batch.next + 1) - batch.at]

\* Mutant: the granule is ignored.
leaf_sizeGreedy ==
  Max({s \in {Span[l] : l \in LeafLevels} :
         s <= Rest.size /\ batch.at % s = 0 /\ Rest.pa % s = 0})

\* An extent that is one leaf of a named size is taken whole, and otherwise cut
\* into granules or into the largest leaves that fit (best_leaf_size).  What is
\* left of an extent is always a multiple of the granule.
leaf_size ==
  IF batch.at = Begin(batch.next) /\ Rest.size \in NamedSizes /\ batch.of.granule \in {0, Rest.size}
  THEN Rest.size
  ELSE IF batch.of.granule # 0 THEN batch.of.granule
  ELSE Max({s \in {Span[l] : l \in LeafLevels} :
              s <= Rest.size /\ batch.at % s = 0 /\ Rest.pa % s = 0})

NextLeaf ==
  [op |-> "map", start |-> batch.at, end |-> batch.at + leaf_size, pa |-> Rest.pa, fl |-> batch.of.fl]

\* Mutant: the level of the first difference is taken for the level below it.
reusable_levelLow(v) ==
  IF last_vaddr = NoPage THEN LEVELS
  ELSE Max({1} \cup {l - 1 : l \in {k \in 2..LEVELS : index_at(k, last_vaddr) # index_at(k, v)}})

\* The level of the deepest table that serves both the last address and v.
reusable_level(v) ==
  IF last_vaddr = NoPage THEN LEVELS
  ELSE Max({1} \cup {l \in 1..LEVELS : index_at(l, last_vaddr) # index_at(l, v)})

invalidate_below(level) == [l \in 1..LEVELS-1 |-> IF l < level THEN NoFrame ELSE descent[l]]

\* The walk starts at the deepest cached table that can be reached from the root
\* through cached ones, and not below the leaf's level.
StartLevel(v, target) ==
  Min({l \in Max({reusable_level(v), target})..LEVELS :
         \A k \in l..LEVELS-1 : descent[k] # NoFrame})

\* The range of a leaf must be one that can be represented.
LeafArgs ==
  IF batch.at + leaf_size >= UMAX THEN "AddressOutOfRange" ELSE exact_leaf_size(NextLeaf, Rest.pa)

map_leaf ==
  /\ pc = "idle" /\ batch # NoBatch /\ batch.next \in DOMAIN batch.of.extents
  /\ LET start == StartLevel(batch.at, size_to_level(leaf_size))
         check == LeafArgs IN
     /\ req' = NextLeaf
     /\ IF check = "Ok"
        THEN /\ descent' = invalidate_below(reusable_level(batch.at))
             /\ pc' = "walk" /\ lvl' = start
             /\ cur' = IF start = LEVELS THEN root ELSE descent[start]
             /\ UNCHANGED ret
        ELSE Finish(check) /\ UNCHANGED <<cur, lvl, descent>>
  /\ UNCHANGED <<memory, ghosts, path, pos, child, untidy, open, last_vaddr, batch, queued>>

CacheTable ==
  /\ descent' = [descent EXCEPT ![lvl-1] = cur']
  /\ UNCHANGED <<open, last_vaddr, batch, queued>>

CursorDescend == open /\ (MapDescend \/ \E f \in Frames : MapGrow(f)) /\ CacheTable

\* An entry of no legal kind leaves through `?`, without the reset.
CursorRefuse ==
  /\ open
  /\ MapRefuse \/ \E e \in AllocErrors : MapStarve(e)
  /\ last_vaddr' = IF ret' = "InvalidEntryKind" THEN last_vaddr ELSE NoPage
  /\ UNCHANGED <<open, descent, batch, queued>>

CursorInstall ==
  /\ open /\ MapInstall
  /\ last_vaddr' = req.start
  /\ queued' = queued \cup Pages(req)
  /\ UNCHANGED <<open, descent, batch>>

LeafDone ==
  /\ open /\ pc = "flush" /\ batch # NoBatch
  /\ batch' = [batch EXCEPT
       !.at = req.end, !.next = IF req.end = Begin(@ + 1) THEN @ + 1 ELSE @]
  /\ pc' = "idle" /\ req' = NoReq
  /\ cur' = NoFrame /\ lvl' = 0
  /\ UNCHANGED <<memory, ghosts, path, pos, child, ret, untidy, open, cache, queued>>

BatchDone ==
  /\ pc = "idle" /\ batch # NoBatch /\ batch.next \notin DOMAIN batch.of.extents
  /\ Finish("Ok")
  /\ UNCHANGED <<memory, ghosts, req, locals, untidy, open, cache, batch, queued>>

CursorReturn ==
  /\ open /\ Return
  /\ batch' = NoBatch
  /\ UNCHANGED <<open, cache, queued>>

-------------------------------------------------------------------------------
(* unmap, protect and remap of the cursor: the walker's, without its flush. *)

\* Mutant: unmap keeps the descent.
CursorCallKeep(r) ==
  /\ open /\ batch = NoBatch
  /\ r.op \in {"unmap", "protect", "remap"}
  /\ Call(r)
  /\ UNCHANGED <<open, cache, batch, queued>>

CursorCall(r) ==
  /\ open /\ batch = NoBatch
  /\ r.op \in {"unmap", "protect", "remap"}
  /\ Call(r)
  /\ IF r.op = "unmap" THEN descent' = NoDescent /\ last_vaddr' = NoPage ELSE UNCHANGED cache
  /\ UNCHANGED <<open, batch, queued>>

CursorStep ==
  /\ open
  /\ \/ ExactDescend \/ ExactRefuse \/ Rewrite
     \/ UnmapClear \/ ReclaimStop \/ ReclaimUnlink \/ ReclaimFree
  /\ UNCHANGED <<open, cache, batch, queued>>

\* Mutant: protect and remap leave the flush to nobody.
CursorQueueUnmaps ==
  /\ open /\ pc = "flush" /\ batch = NoBatch
  /\ Finish("Ok")
  /\ queued' = IF req.op = "unmap" THEN queued \cup Pages(req) ELSE queued
  /\ UNCHANGED <<memory, ghosts, req, locals, untidy, open, cache, batch>>

CursorQueue ==
  /\ open /\ pc = "flush" /\ batch = NoBatch
  /\ Finish("Ok")
  /\ queued' = queued \cup Pages(req)
  /\ UNCHANGED <<memory, ghosts, req, locals, untidy, open, cache, batch>>

-------------------------------------------------------------------------------
\* What the table makes of page v, as query answers it.
Unmapped == [pa |-> -1]

PageAt(v) ==
  LET q == query(v) IN
  IF "error" \in DOMAIN q THEN Unmapped ELSE [pa |-> q.pa + (v - Min(q.pages)), fl |-> q.fl]

CursorNext ==
  /\ \/ ~open /\ Next /\ UNCHANGED <<open, cache, batch, queued>>
     \/ new \/ finish
     \/ \E b \in Batches : map(b)
     \/ map_leaf \/ CursorDescend \/ CursorRefuse \/ CursorInstall \/ LeafDone \/ BatchDone
     \/ \E r \in Requests : CursorCall(r)
     \/ CursorStep \/ CursorQueue \/ CursorReturn
  /\ changed' = IF open /\ open'
                THEN changed \cup {v \in ValidPages : PageAt(v)' # PageAt(v)} ELSE {}

CursorSpec == CursorInit /\ [][CursorNext]_cvars

-------------------------------------------------------------------------------
(* Properties. *)

\* "The cached descent stays valid": each cached table is a linked one of its
\* level that serves the last address; whatever shares that address's indices
\* above a level goes through it.
DescentCorrect ==
  last_vaddr # NoPage =>
    \A l \in 1..LEVELS-1 : descent[l] # NoFrame =>
      /\ descent[l] \in Linked /\ lev[descent[l]] = l
      /\ pc # "walk" => last_vaddr \in cover[descent[l]]

\* When a call of the cursor has ended, every page whose translation changed is
\* queued; finish or Drop will flush it, although the call that changed it failed.
QueuedCoversChanges ==
  pc \in {"idle", "return"} => changed \subseteq queued

\* The page that backs v: the extents follow one another without a gap.
Backing(b, v) ==
  LET i == CHOOSE n \in DOMAIN b.extents :
             SizeOf(b.extents, n-1) <= v - b.start /\ v - b.start < SizeOf(b.extents, n)
  IN [pa |-> b.extents[i].pa + (v - b.start) - SizeOf(b.extents, i-1), fl |-> b.fl]

\* A batch maps its range from the front: what it has passed is backed as the call
\* says, so that all of the range is when it returns Ok.
PrefixMapped ==
  batch # NoBatch /\ pc \in {"idle", "return"} =>
    /\ \A v \in batch.of.start..batch.at-1 : PageAt(v) = Backing(batch.of, v)
    /\ ret = "Ok" => batch.at = batch.of.end

\* A batch changes no page that was mapped before, and none outside its range.
BatchMapsFreshPages ==
  [][\A v \in ValidPages : batch # NoBatch /\ PageAt(v)' # PageAt(v) =>
       PageAt(v) = Unmapped /\ v \in Pages(batch.of)]_cvars

\* "Every mapped leaf uses this granule exactly" (src/mapping.rs).
GranuleExact ==
  batch # NoBatch /\ batch.of.granule # 0 =>
    \A m \in Leaves : m.pages \cap batch.of.start..batch.at-1 # {} =>
      Cardinality(m.pages) = batch.of.granule

-------------------------------------------------------------------------------
(* The inductive invariant: what each step of the cursor may rely on. *)

Serves(f, l, v) == f \in Linked /\ lev[f] = l /\ v \in cover[f]

\* The cached tables are on the path of the address mapped last, or of the leaf that
\* is being mapped; a walker whose tables are being freed has no such address.
CacheInv ==
  /\ open \in BOOLEAN /\ descent \in [1..LEVELS-1 -> Frames \cup {NoFrame}]
  /\ last_vaddr \in ValidPages \cup {NoPage}
  /\ open => root # NoFrame /\ pc # "drop"
  /\ batch # NoBatch \/ last_vaddr # NoPage => open
  /\ open /\ Mapping =>
       \A l \in 1..LEVELS-1 : descent[l] # NoFrame => Serves(descent[l], l, req.start)
  /\ last_vaddr # NoPage /\ ~Mapping =>
       \A l \in 1..LEVELS-1 : descent[l] # NoFrame => Serves(descent[l], l, last_vaddr)
  /\ last_vaddr # NoPage =>
       pc \notin {"reclaim", "release", "swap"} /\ (pc = "walk" => req.op # "unmap")

\* A call that is accepted is inside its extent number next, a whole number of
\* granules from where that extent begins; its leaf is the next one.
AcceptedInv ==
  LET last == Len(batch.of.extents) IN
  /\ batch.next \in 1..last+1 /\ Begin(batch.next) <= batch.at
  /\ IF batch.next <= last THEN batch.at < Begin(batch.next + 1) ELSE batch.at = batch.of.end
  /\ batch.of.granule # 0 => (batch.at - Begin(batch.next)) % batch.of.granule = 0
  /\ pc \in {"walk", "flush"} => batch.next <= last /\ LeafArgs = "Ok" /\ req = NextLeaf
  /\ pc = "return" /\ ret = "Ok" => batch.next = last + 1

BatchInv ==
  batch # NoBatch =>
    /\ batch \in [of: Batches, next: Nat, at: 0..UMAX-1]
    /\ pc \in {"idle", "walk", "flush", "return"}
    /\ IF BatchCheck(batch.of) = "Ok" THEN AcceptedInv
       ELSE pc = "return" /\ ret # "Ok" /\ batch.at = batch.of.start

\* The pages that the call has mapped so far.
Done == batch.of.start .. (IF pc = "flush" THEN req.end ELSE batch.at) - 1

DoneInv ==
  batch # NoBatch =>
    /\ \A v \in Done : PageAt(v) = Backing(batch.of, v)
    /\ batch.of.granule # 0 =>
         \A m \in Leaves : m.pages \cap Done # {} => Cardinality(m.pages) = batch.of.granule

\* A leaf of map is queued as it is stored, another change at the end of the call that
\* makes it, unless the allocator ends that call: it refuses no table it has given out.
QueueInv ==
  BootFrames = {} =>
    changed \subseteq queued \cup
      (IF batch = NoBatch /\ pc \in {"reclaim", "release", "flush"} THEN Pages(req) ELSE {})

\* An answer is there when a call has ended, and is taken before the next begins.
AnswerInv == pc # "return" => ret = "none"

\* The tree is sound, a descent is never resumed from a table that does not serve
\* the address, and a batch maps its range leaf after leaf without a gap.
CursorInv ==
  IInv /\ ContentInv /\ CacheInv /\ BatchInv /\ AnswerInv /\ DoneInv /\ QueueInv

===============================================================================

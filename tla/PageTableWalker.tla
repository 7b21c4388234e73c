---------------------------- MODULE PageTableWalker ----------------------------
(***************************************************************************)
(* PageTableWalker of src/walker.rs, with the frame allocator it calls.    *)
(*                                                                         *)
(* A page table is a tree of table frames held in mem.  Every operation is *)
(* a sequence of small steps - one level of a descent, one store, one      *)
(* allocator call, one flush - so that another agent (the MMU, module      *)
(* WalkerMmu) can look at memory between any two of them.  The walker      *)
(* itself is sequential: &mut self admits one operation at a time.         *)
(***************************************************************************)
EXTENDS PagingGeometry

CONSTANTS
  Frames,      \* page-table frames
  NoFrame,     \* not a frame
  Flags,       \* leaf flag bundles
  Requests,    \* the calls the consumer may make
  BootFrames,  \* frames of a table the kernel already owns; unknown to the allocator
  BootTree     \* that table: [root, mem, lev, cover]; used when BootFrames # {}

ASSUME FrameAssumption ==
  /\ NoFrame \notin Frames
  /\ BootFrames \subseteq Frames

ExactOps == {"remap", "protect", "unmap", "split_at"}
Ops == {"map", "merge_at"} \cup ExactOps

\* A call: its operation and its arguments.
Calls == [op: Ops, start: 0..UMAX-1, end: 0..UMAX-1, pa: Nat, fl: Flags]

ASSUME RequestAssumption == Requests \subseteq Calls

VARIABLES
  mem,     \* mem[f][i]: entry i of frame f
  owner,   \* whom the allocator has given each frame to
  root,    \* PageTableWalker::root; NoFrame when there is no walker
  req,     \* the call in progress
  pc,      \* its next step
  cur,     \* the table under examination ...
  lvl,     \* ... and its level
  path,    \* path[l]: the table of level l above cur (parents of unmap; drop's stack)
  pos,     \* pos[l]: next entry of path[l] that drop_subtree examines
  child,   \* a table that is allocated and not (or no longer) linked
  ret,     \* what the call returns
  untidy,  \* history: tables may be empty, a call having failed half-way or adopt
           \* having been given such a tree
  lev,     \* history: level of each table frame, 0 when it is not a table
  cover    \* history: the pages whose translation goes through each table

memory == <<mem, owner, root>>
ghosts == <<lev, cover>>
locals == <<cur, lvl, path, pos, child>>
vars == <<memory, req, pc, locals, ret, untidy, ghosts>>

-------------------------------------------------------------------------------
(* Entries: what PageTableEntry promises of an encoding. *)

Unused == [kind |-> "none"]
Invalid == [kind |-> "invalid"]
Table(f) == [kind |-> "table", to |-> f]
Leaf(p, fl) == [kind |-> "leaf", pa |-> p, fl |-> fl]

Entries ==
  {Unused, Invalid} \cup [kind: {"table"}, to: Frames] \cup [kind: {"leaf"}, pa: Nat, fl: Flags]

is_present(e) == e.kind # "none"

ZeroTable == [i \in Slots |-> Unused]

is_table_empty(f) == \A i \in Slots : ~is_present(mem[f][i])

SlotCover(f, i) == {v \in cover[f] : index_at(lev[f], v) = i}

\* What the caller of adopt asserts: the table it hands over is a tree of tables
\* in which each table serves the pages of the one entry that points at it, and its
\* leaves are such as the format has.
BootCover(f, i) == {v \in BootTree.cover[f] : index_at(BootTree.lev[f], v) = i}

BootLinks(f, i) == f \in BootFrames /\ BootTree.mem[f][i].kind = "table"

ASSUME BootAssumption ==
  BootFrames # {} =>
    /\ BootTree.root \in BootFrames
    /\ BootTree.mem \in [BootFrames -> [Slots -> Entries]]
    /\ BootTree.lev \in [BootFrames -> 1..LEVELS]
    /\ BootTree.cover \in [BootFrames -> (SUBSET ValidPages) \ {{}}]
    /\ BootTree.lev[BootTree.root] = LEVELS /\ BootTree.cover[BootTree.root] = ValidPages
    /\ \A f \in BootFrames, i \in Slots : BootLinks(f, i) =>
         LET t == BootTree.mem[f][i].to IN
         /\ t \in BootFrames \ {BootTree.root}
         /\ BootTree.lev[t] = BootTree.lev[f] - 1
         /\ BootTree.cover[t] = BootCover(f, i)
    /\ \A t \in BootFrames \ {BootTree.root} :
         \E f \in BootFrames, i \in Slots : BootLinks(f, i) /\ BootTree.mem[f][i].to = t
    /\ \A f, g \in BootFrames : \A v \in BootTree.cover[f] \cap BootTree.cover[g] :
         /\ BootTree.lev[f] = BootTree.lev[g] => f = g
         /\ BootTree.lev[f] < BootTree.lev[g] => BootLinks(g, index_at(BootTree.lev[g], v))
    /\ \A f \in BootFrames, i \in Slots : BootTree.mem[f][i].kind = "leaf" =>
         /\ BootTree.lev[f] \in LeafLevels /\ BootCover(f, i) # {}
         /\ BootTree.mem[f][i].pa % Span[BootTree.lev[f]] = 0
         /\ paddr_is_valid(BootTree.mem[f][i].pa)

\* What the table handed over may nevertheless have: entries that are no legal kind,
\* and tables below the root without a present entry.
Damaged == \E f \in BootFrames, i \in Slots : BootTree.mem[f][i] = Invalid

Loose ==
  \E f \in BootFrames \ {BootTree.root} : \A i \in Slots : ~is_present(BootTree.mem[f][i])

-------------------------------------------------------------------------------
(* The allocator (external): allocate gives a zeroed frame or fails;       *)
(* deallocate refuses a frame that it did not give out.                    *)

\* OutOfMemory from allocate, or NotAligned for a range of the wrong shape,
\* which alloc_table_frame gives straight back.
AllocErrors == {"OutOfMemory", "NotAligned"}

alloc_table_frame(f, level, pages) ==
  /\ owner[f] = "free"
  /\ owner' = [owner EXCEPT ![f] = "walker"]
  /\ lev' = [lev EXCEPT ![f] = level]
  /\ cover' = [cover EXCEPT ![f] = pages]

CanFree(f) == owner[f] = "walker"

\* Frees f; the contents of a free frame are whatever allocate zeroes.
dealloc_table_frame(f) ==
  /\ IF CanFree(f)
     THEN /\ owner' = [owner EXCEPT ![f] = "free"]
          /\ mem' = [mem EXCEPT ![f] = ZeroTable]
     ELSE UNCHANGED <<owner, mem>>
  /\ lev' = [lev EXCEPT ![f] = 0]
  /\ cover' = [cover EXCEPT ![f] = {}]

-------------------------------------------------------------------------------
NoReq == [op |-> "none"]
NoPath == [l \in 1..LEVELS |-> NoFrame]
NoPos == [l \in 1..LEVELS |-> 0]

Init ==
  /\ mem = [f \in Frames |-> IF f \in BootFrames THEN BootTree.mem[f] ELSE ZeroTable]
  /\ owner = [f \in Frames |-> IF f \in BootFrames THEN "boot" ELSE "free"]
  /\ root = NoFrame
  /\ req = NoReq /\ pc = "idle" /\ ret = "none"
  /\ cur = NoFrame /\ lvl = 0 /\ path = NoPath /\ pos = NoPos /\ child = NoFrame
  /\ untidy = FALSE
  /\ lev = [f \in Frames |-> 0]
  /\ cover = [f \in Frames |-> {}]

\* What a call returns: Ok, a PagingError, or what deallocate answered.
Results ==
  {"none", "Ok", "OutOfMemory", "NotAligned", "NotMapped", "AlreadyMapped", "AddressOutOfRange",
   "UnsupportedSize", "NotCoalescable", "InvalidMappingShape", "InvalidEntryKind", "DeallocRefused"}

Finish(r) ==
  /\ pc' = "return"
  /\ ret' = r

Fail(e) ==
  /\ Finish(e)
  /\ UNCHANGED <<memory, ghosts, req, locals, untidy>>

Return ==
  /\ pc = "return"
  /\ pc' = "idle" /\ ret' = "none" /\ req' = NoReq
  /\ cur' = NoFrame /\ lvl' = 0 /\ path' = NoPath /\ pos' = NoPos /\ child' = NoFrame
  /\ UNCHANGED <<memory, ghosts, untidy>>

-------------------------------------------------------------------------------
(* Constructors and calls. *)

try_new(f) ==
  /\ pc = "idle" /\ root = NoFrame
  /\ alloc_table_frame(f, LEVELS, ValidPages)
  /\ root' = f
  /\ mem' = [mem EXCEPT ![f] = ZeroTable]
  /\ UNCHANGED <<req, pc, locals, ret, untidy>>

\* A constructor that gets no frame returns the error and changes nothing.
adopt ==
  /\ pc = "idle" /\ root = NoFrame
  /\ BootFrames # {} /\ \A f \in BootFrames : owner[f] = "boot"
  /\ owner' = [f \in Frames |-> IF f \in BootFrames THEN "adopted" ELSE owner[f]]
  /\ root' = BootTree.root
  /\ lev' = [f \in Frames |-> IF f \in BootFrames THEN BootTree.lev[f] ELSE 0]
  /\ cover' = [f \in Frames |-> IF f \in BootFrames THEN BootTree.cover[f] ELSE {}]
  /\ untidy' = Loose
  /\ UNCHANGED <<mem, req, pc, locals, ret>>

\* The checks each operation makes before it reads the table.
ArgCheck(r) ==
  CASE r.op = "map" ->
         IF r.start = r.end THEN "InvalidMappingShape" ELSE exact_leaf_size(r, r.pa)
    [] r.op = "remap" ->
         IF paddr_is_valid(r.pa) /\ vaddr_is_valid(r.start) THEN "Ok" ELSE "AddressOutOfRange"
    [] r.op \in {"protect", "unmap", "split_at"} ->
         IF vaddr_is_valid(r.start) THEN "Ok" ELSE "AddressOutOfRange"
    [] r.op = "merge_at" ->
         IF check_leaf_range(r) # "Ok" THEN check_leaf_range(r)
         ELSE IF ~size_is_supported(Size(r)) THEN "UnsupportedSize"
         ELSE IF size_to_level(Size(r)) = 1 THEN "NotCoalescable"
         ELSE "Ok"

\* A map whose range is not one named leaf goes through the batching cursor.
NeedsCursor(r) == r.op = "map" /\ ArgCheck(r) = "None"

Call(r) ==
  /\ pc = "idle" /\ root # NoFrame
  /\ ~NeedsCursor(r)
  /\ req' = r
  /\ IF ArgCheck(r) = "Ok"
     THEN /\ pc' = "walk" /\ cur' = root /\ lvl' = LEVELS
          /\ UNCHANGED ret
     ELSE /\ Finish(ArgCheck(r))
          /\ UNCHANGED <<cur, lvl>>
  /\ UNCHANGED <<memory, ghosts, path, pos, child, untidy>>

-------------------------------------------------------------------------------
(* Steps common to the descents. *)

Idx == index_at(lvl, req.start)
Slot == mem[cur][Idx]

TargetLevel == size_to_level(Size(req))

\* Next iteration of the loop, in the table the entry points at.
StepDown ==
  /\ Slot.kind = "table"
  /\ cur' = Slot.to
  /\ lvl' = lvl - 1
  /\ path' = IF req.op = "unmap" THEN [path EXCEPT ![lvl] = cur] ELSE path
  /\ UNCHANGED <<memory, ghosts, req, pc, pos, child, ret, untidy>>

WriteSlot(e) == mem' = [mem EXCEPT ![cur][Idx] = e]

-------------------------------------------------------------------------------
(* map: map_leaf_direct_sized_no_flush, then flush_leaf_range. *)

Mapping == pc = "walk" /\ req.op = "map"

MapDescend == Mapping /\ lvl > TargetLevel /\ StepDown

MapRefuse ==
  /\ Mapping
  /\ \/ lvl > TargetLevel /\ Slot.kind = "leaf" /\ Fail("AlreadyMapped")
     \/ lvl > TargetLevel /\ Slot.kind = "invalid" /\ Fail("InvalidEntryKind")
     \/ lvl = TargetLevel /\ is_present(Slot) /\ Fail("AlreadyMapped")

\* A missing table: allocate a zeroed frame, link it, descend into it.
MapGrow(f) ==
  /\ Mapping /\ lvl > TargetLevel /\ ~is_present(Slot)
  /\ alloc_table_frame(f, lvl - 1, SlotCover(cur, Idx))
  /\ mem' = [mem EXCEPT ![f] = ZeroTable, ![cur][Idx] = Table(f)]
  /\ cur' = f /\ lvl' = lvl - 1
  /\ UNCHANGED <<root, req, pc, path, pos, child, ret, untidy>>

\* No frame: the tables this call already linked stay behind.
MapStarve(e) ==
  /\ Mapping /\ lvl > TargetLevel /\ ~is_present(Slot)
  /\ Finish(e)
  /\ untidy' = TRUE
  /\ UNCHANGED <<memory, ghosts, req, locals>>

\* Mutant: the slot is not checked before the store.
MapInstallUnchecked ==
  /\ Mapping /\ lvl = TargetLevel
  /\ WriteSlot(Leaf(req.pa, req.fl))
  /\ pc' = "flush"
  /\ UNCHANGED <<owner, root, ghosts, req, locals, ret, untidy>>

MapInstall ==
  /\ Mapping /\ lvl = TargetLevel /\ ~is_present(Slot)
  /\ WriteSlot(Leaf(req.pa, req.fl))
  /\ pc' = "flush"
  /\ UNCHANGED <<owner, root, ghosts, req, locals, ret, untidy>>

-------------------------------------------------------------------------------
(* remap, protect, unmap, split_at: descend to the leaf that covers the    *)
(* start of the range; it must be exactly the range.                       *)

Exact == pc = "walk" /\ req.op \in ExactOps

ExactDescend == Exact /\ StepDown

\* Mutant: a leaf that merely covers the range is accepted.
LeafCheckLoose ==
  IF req.op = "split_at" /\ lvl = 1 THEN "NotMapped"
  ELSE IF req.op = "remap" /\ req.pa % Span[lvl] # 0 THEN "NotAligned"
  ELSE "Ok"

\* Mutant: remap does not check the new physical address.
LeafCheckNoAlign ==
  IF req.op = "split_at" /\ lvl = 1 THEN "NotMapped"
  ELSE IF ~leaf_range_exists(req.start, lvl) THEN "AddressOutOfRange"
  ELSE IF leaf_range(req.start, lvl) # [start |-> req.start, end |-> req.end] THEN "NotMapped"
  ELSE "Ok"

\* What the operation thinks of the leaf it found.
LeafCheck ==
  IF req.op = "split_at" /\ lvl = 1 THEN "NotMapped"
  ELSE IF Span[lvl] \notin NamedSizes THEN "UnsupportedSize"
  ELSE IF ~leaf_range_exists(req.start, lvl) THEN "AddressOutOfRange"
  ELSE IF leaf_range(req.start, lvl) # [start |-> req.start, end |-> req.end] THEN "NotMapped"
  ELSE IF req.op = "remap" /\ req.pa % Span[lvl] # 0 THEN "NotAligned"
  ELSE IF req.op = "split_at" /\ Span[lvl-1] \notin NamedSizes THEN "UnsupportedSize"
  ELSE "Ok"

ExactRefuse ==
  /\ Exact
  /\ \/ ~is_present(Slot) /\ Fail("NotMapped")
     \/ Slot.kind = "invalid" /\ Fail("InvalidEntryKind")
     \/ Slot.kind = "leaf" /\ LeafCheck # "Ok" /\ Fail(LeafCheck)

AtLeaf(op) ==
  /\ Exact /\ req.op = op
  /\ Slot.kind = "leaf" /\ LeafCheck = "Ok"

Rewrite ==
  /\ \/ AtLeaf("remap") /\ WriteSlot(Leaf(req.pa, req.fl))
     \/ AtLeaf("protect") /\ WriteSlot(Leaf(Slot.pa, req.fl))
  /\ pc' = "flush"
  /\ UNCHANGED <<owner, root, ghosts, req, locals, ret, untidy>>

UnmapClear ==
  /\ AtLeaf("unmap")
  /\ WriteSlot(Unused)
  /\ pc' = "reclaim"
  /\ UNCHANGED <<owner, root, ghosts, req, locals, ret, untidy>>

\* Mutant: only the innermost table is ever reclaimed.
ReclaimOnce == lvl > 1 \/ lvl = LEVELS \/ ~is_table_empty(cur)

\* Walk back up: a table with a present entry, or the root, ends it.
ReclaimDone == lvl = LEVELS \/ ~is_table_empty(cur)

\* Mutant: no flush when there is nothing to reclaim.
ReclaimStopUnflushed ==
  /\ pc = "reclaim" /\ ReclaimDone
  /\ Finish("Ok")
  /\ UNCHANGED <<memory, ghosts, req, locals, untidy>>

ReclaimStop ==
  /\ pc = "reclaim" /\ ReclaimDone
  /\ pc' = "flush"
  /\ UNCHANGED <<memory, ghosts, req, locals, ret, untidy>>

\* Mutant: the parent keeps its pointer to the freed table.
ReclaimKeepLink ==
  /\ pc = "reclaim" /\ ~ReclaimDone
  /\ child' = cur
  /\ pc' = "release"
  /\ UNCHANGED <<memory, ghosts, req, cur, lvl, path, pos, ret, untidy>>

ReclaimUnlink ==
  /\ pc = "reclaim" /\ ~ReclaimDone
  /\ mem' = [mem EXCEPT ![path[lvl+1]][index_at(lvl + 1, req.start)] = Unused]
  /\ child' = cur
  /\ pc' = "release"
  /\ UNCHANGED <<owner, root, ghosts, req, cur, lvl, path, pos, ret, untidy>>

\* Mutant: the parent is looked up one slot too low.
ReclaimFreeOffByOne ==
  /\ pc = "release" /\ req.op = "unmap"
  /\ dealloc_table_frame(child)
  /\ cur' = path[lvl] /\ lvl' = lvl + 1 /\ child' = NoFrame
  /\ IF CanFree(child)
     THEN pc' = "reclaim" /\ UNCHANGED <<ret, untidy>>
     ELSE Finish("DeallocRefused") /\ untidy' = TRUE
  /\ UNCHANGED <<root, req, path, pos>>

\* An error of the allocator ends the call before its flush.
ReclaimFree ==
  /\ pc = "release" /\ req.op = "unmap"
  /\ dealloc_table_frame(child)
  /\ cur' = path[lvl+1] /\ lvl' = lvl + 1 /\ child' = NoFrame
  /\ IF CanFree(child)
     THEN pc' = "reclaim" /\ UNCHANGED <<ret, untidy>>
     ELSE Finish("DeallocRefused") /\ untidy' = TRUE
  /\ UNCHANGED <<root, req, path, pos>>

-------------------------------------------------------------------------------
(* split_at: fill a fresh table with finer leaves, then swap it in. *)

SplitBuild(f) ==
  /\ AtLeaf("split_at")
  /\ alloc_table_frame(f, lvl - 1, SlotCover(cur, Idx))
  /\ mem' = [mem EXCEPT ![f] = [i \in Slots |-> Leaf(Slot.pa + i * Span[lvl-1], Slot.fl)]]
  /\ child' = f
  /\ pc' = "swap"
  /\ UNCHANGED <<root, req, cur, lvl, path, pos, ret, untidy>>

SplitStarve(e) == AtLeaf("split_at") /\ Fail(e)

SplitSwap ==
  /\ pc = "swap"
  /\ WriteSlot(Table(child))
  /\ child' = NoFrame
  /\ pc' = "flush"
  /\ UNCHANGED <<owner, root, ghosts, req, cur, lvl, path, pos, ret, untidy>>

-------------------------------------------------------------------------------
(* merge_at: verify the children, replace the table by a leaf, free it. *)

Merging == pc = "walk" /\ req.op = "merge_at"

MergeDescend == Merging /\ lvl > TargetLevel /\ StepDown

\* Mutant: the flags of the children are not compared.
MergeCheckNoFlags(t) ==
  LET first == mem[t][0] IN
  IF /\ first.kind = "leaf" /\ first.pa % Span[lvl] = 0
     /\ \A i \in Slots : mem[t][i].kind = "leaf" /\ mem[t][i].pa = first.pa + i * Span[lvl-1]
  THEN "Ok" ELSE "NotCoalescable"

\* The verification loop over the entries of table t, one level below lvl.
MergeCheck(t) ==
  LET first == mem[t][0]
      Differs(i) ==
        mem[t][i] # Leaf(first.pa + i * Span[lvl-1], first.fl)
      worst == CHOOSE i \in Slots : Differs(i) /\ \A j \in Slots : Differs(j) => i <= j
  IN IF Span[lvl-1] \notin NamedSizes THEN "UnsupportedSize"
     ELSE IF first.kind = "invalid" THEN "InvalidEntryKind"
     ELSE IF first.kind # "leaf" THEN "NotCoalescable"
     ELSE IF first.pa % Span[lvl] # 0 THEN "NotCoalescable"
     ELSE IF \A i \in Slots : ~Differs(i) THEN "Ok"
     ELSE IF mem[t][worst].kind = "invalid" THEN "InvalidEntryKind"
     ELSE "NotCoalescable"

MergeRefuse ==
  /\ Merging
  /\ \/ ~is_present(Slot) /\ Fail("NotMapped")
     \/ Slot.kind = "invalid" /\ Fail("InvalidEntryKind")
     \/ lvl > TargetLevel /\ Slot.kind = "leaf" /\ Fail("NotMapped")
     \/ lvl = TargetLevel /\ Slot.kind = "table" /\ MergeCheck(Slot.to) # "Ok"
          /\ Fail(MergeCheck(Slot.to))

\* Already one leaf of this size.
MergeNothing == Merging /\ lvl = TargetLevel /\ Slot.kind = "leaf" /\ Fail("Ok")

\* Mutant: the child table is not freed.
MergeWriteLeaky ==
  /\ Merging /\ lvl = TargetLevel
  /\ Slot.kind = "table" /\ MergeCheck(Slot.to) = "Ok"
  /\ WriteSlot(Leaf(mem[Slot.to][0].pa, mem[Slot.to][0].fl))
  /\ pc' = "flush"
  /\ UNCHANGED <<owner, root, ghosts, req, locals, ret, untidy>>

MergeWrite ==
  /\ Merging /\ lvl = TargetLevel
  /\ Slot.kind = "table" /\ MergeCheck(Slot.to) = "Ok"
  /\ WriteSlot(Leaf(mem[Slot.to][0].pa, mem[Slot.to][0].fl))
  /\ child' = Slot.to
  /\ pc' = "release"
  /\ UNCHANGED <<owner, root, ghosts, req, cur, lvl, path, pos, ret, untidy>>

\* Mutant: no flush, since the merged leaf translates as its pieces did.
MergeFreeUnflushed ==
  /\ pc = "release" /\ req.op = "merge_at"
  /\ dealloc_table_frame(child)
  /\ child' = NoFrame
  /\ Finish("Ok")
  /\ UNCHANGED <<root, req, cur, lvl, path, pos, untidy>>

MergeFree ==
  /\ pc = "release" /\ req.op = "merge_at"
  /\ dealloc_table_frame(child)
  /\ child' = NoFrame
  /\ IF CanFree(child)
     THEN pc' = "flush" /\ UNCHANGED <<ret, untidy>>
     ELSE Finish("DeallocRefused") /\ untidy' = TRUE
  /\ UNCHANGED <<root, req, cur, lvl, path, pos>>

-------------------------------------------------------------------------------
\* flush_leaf_range; what it does to the TLB is in WalkerMmu.
Flush ==
  /\ pc = "flush"
  /\ Finish("Ok")
  /\ UNCHANGED <<memory, ghosts, req, locals, untidy>>

-------------------------------------------------------------------------------
(* Drop: drop_subtree, its recursion kept in path and pos. *)

DropStart ==
  /\ pc = "idle" /\ root # NoFrame
  /\ pc' = "drop"
  /\ cur' = root /\ lvl' = LEVELS
  /\ path' = [path EXCEPT ![LEVELS] = root]
  /\ UNCHANGED <<memory, ghosts, req, pos, child, ret, untidy>>

\* Mutant: the loop does not advance past an entry that is no table.
DropScanStuck ==
  /\ pc = "drop" /\ lvl > 1 /\ pos[lvl] < E
  /\ LET e == mem[cur][pos[lvl]] IN
     IF e.kind = "table"
     THEN /\ cur' = e.to /\ lvl' = lvl - 1
          /\ path' = [path EXCEPT ![lvl-1] = e.to]
          /\ pos' = [pos EXCEPT ![lvl] = @ + 1, ![lvl-1] = 0]
     ELSE UNCHANGED <<cur, lvl, path, pos>>
  /\ UNCHANGED <<memory, ghosts, req, pc, child, ret, untidy>>

DropScan ==
  /\ pc = "drop" /\ lvl > 1 /\ pos[lvl] < E
  /\ LET e == mem[cur][pos[lvl]] IN
     IF e.kind = "table"
     THEN /\ cur' = e.to /\ lvl' = lvl - 1
          /\ path' = [path EXCEPT ![lvl-1] = e.to]
          /\ pos' = [pos EXCEPT ![lvl] = @ + 1, ![lvl-1] = 0]
     ELSE /\ pos' = [pos EXCEPT ![lvl] = @ + 1]
          /\ UNCHANGED <<cur, lvl, path>>
  /\ UNCHANGED <<memory, ghosts, req, pc, child, ret, untidy>>

\* Mutant: the last entry of a table is not examined.
DropEarly == lvl = 1 \/ pos[lvl] >= E - 1

DropScanned == lvl = 1 \/ pos[lvl] = E

\* An error of the allocator is ignored.
DropFree ==
  /\ pc = "drop" /\ DropScanned
  /\ dealloc_table_frame(cur)
  /\ IF lvl = LEVELS
     THEN /\ root' = NoFrame /\ pc' = "idle" /\ untidy' = FALSE
          /\ cur' = NoFrame /\ lvl' = 0 /\ path' = NoPath /\ pos' = NoPos
     ELSE /\ cur' = path[lvl+1] /\ lvl' = lvl + 1
          /\ path' = [path EXCEPT ![lvl] = NoFrame]
          /\ pos' = [pos EXCEPT ![lvl] = 0]
          /\ UNCHANGED <<root, pc, untidy>>
  /\ UNCHANGED <<req, child, ret>>

-------------------------------------------------------------------------------
\* Steps of a call, as opposed to the consumer's decisions to make one.
Step ==
  \/ MapDescend \/ MapRefuse \/ MapInstall
  \/ \E f \in Frames : MapGrow(f) \/ SplitBuild(f)
  \/ \E e \in AllocErrors : MapStarve(e) \/ SplitStarve(e)
  \/ ExactDescend \/ ExactRefuse \/ Rewrite
  \/ UnmapClear \/ ReclaimStop \/ ReclaimUnlink \/ ReclaimFree
  \/ SplitSwap
  \/ MergeDescend \/ MergeRefuse \/ MergeNothing \/ MergeWrite \/ MergeFree
  \/ Flush \/ Return
  \/ DropScan \/ DropFree

Next ==
  \/ \E f \in Frames : try_new(f)
  \/ adopt
  \/ \E r \in Requests : Call(r)
  \/ DropStart
  \/ Step

\* The code is sequential and takes no lock: a call that has begun runs on.
Spec == Init /\ [][Next]_vars /\ WF_vars(Step)

-------------------------------------------------------------------------------
(* Properties. *)

\* The state stays in its types: table indices in range, levels never below 1
\* in a descent, entries well-formed.
TypeOK ==
  /\ mem \in [Frames -> [Slots -> Entries]]
  /\ owner \in [Frames -> {"free", "walker", "boot", "adopted"}]
  /\ root \in Frames \cup {NoFrame}
  /\ req \in Calls \cup {NoReq}
  /\ pc \in {"idle", "walk", "reclaim", "release", "swap", "flush", "return", "drop"}
  /\ cur \in Frames \cup {NoFrame}
  /\ lvl \in 0..LEVELS
  /\ path \in [1..LEVELS -> Frames \cup {NoFrame}]
  /\ pos \in [1..LEVELS -> 0..E]
  /\ child \in Frames \cup {NoFrame}
  /\ ret \in Results
  /\ untidy \in BOOLEAN
  /\ lev \in [Frames -> 0..LEVELS]
  /\ cover \in [Frames -> SUBSET ValidPages]
  /\ pc \in {"walk", "reclaim", "release", "swap", "drop"} => cur \in Frames /\ lvl \in 1..LEVELS

Tables == {f \in Frames : lev[f] > 0}

\* The tables translation may go through: all but the one in transit.
Linked == Tables \ {child}

\* Entry i of f was left behind by drop_subtree: its subtree is freed.
Scanned(f, i) ==
  /\ pc = "drop" /\ lev[f] >= lvl /\ path[lev[f]] = f
  /\ i < pos[lev[f]] /\ (lev[f] > lvl => i # pos[lev[f]] - 1)

Links(f, i) == f \in Linked /\ mem[f][i].kind = "table" /\ ~Scanned(f, i)

\* Every table entry that translation can reach leads to a table the walker
\* still holds, one level down, that translates exactly the pages of that entry:
\* no step of any call, however it ends, leaves a pointer to a freed frame.
NoDanglingTable ==
  \A f \in Frames, i \in Slots : Links(f, i) =>
    LET t == mem[f][i].to IN
    /\ t \in Linked \ {root}
    /\ lev[t] = lev[f] - 1
    /\ cover[t] = SlotCover(f, i)

\* Every frame taken from the allocator and not given back is a table of the
\* tree: the root, the one in transit, or linked from a table one level up.
\* Nothing is lost by a refused call, a reclaim, a merge, or Drop.
NoLostFrame ==
  /\ \A f \in Frames : owner[f] = "walker" => f \in Tables
  /\ \A f \in Tables : owner[f] \in {"walker", "adopted"}
  /\ \A t \in Tables \ {root, child} :
       \E f \in Frames, i \in Slots : Links(f, i) /\ mem[f][i].to = t

\* A page is translated along one path only: two tables that translate the same
\* page are the same or one is below the entry the other has for that page.
OnePath ==
  \A f, g \in Linked : \A v \in cover[f] \cap cover[g] :
    /\ lev[f] = lev[g] => f = g
    /\ lev[f] < lev[g] => Links(g, index_at(lev[g], v))

\* The tight tree of unmap's comment: unless a call failed half-way, or the table
\* adopted was not tight, no table but the root is left without a present entry.
TightTree ==
  pc = "idle" /\ ~untidy => \A f \in Tables \ {root} : ~is_table_empty(f)

\* A leaf entry is one the format has: at a level that supports leaves, with a
\* physical base aligned to what the entry covers and inside the address field.
LeavesEncodable ==
  \A f \in Tables : \A i \in Slots : mem[f][i].kind = "leaf" =>
    /\ lev[f] \in LeafLevels
    /\ mem[f][i].pa % Span[lev[f]] = 0 /\ paddr_is_valid(mem[f][i].pa)

-------------------------------------------------------------------------------
(* The inductive invariant: what each step of a call may rely on. *)

RootInv ==
  IF root = NoFrame THEN Tables = {} /\ pc = "idle"
  ELSE root \in Linked /\ lev[root] = LEVELS /\ cover[root] = ValidPages

CoverInv == \A f \in Tables : cover[f] # {}

BootInv ==
  \A f \in Frames : owner[f] = "boot" => f \in BootFrames /\ mem[f] = BootTree.mem[f]

\* The descent is at the table of its level that serves the start of the range.
AtTable == cur \in Linked /\ lev[cur] = lvl /\ req.start \in cover[cur]

Above(l) == path[l] \in Linked /\ lev[path[l]] = l /\ req.start \in cover[path[l]]

WalkInv ==
  /\ pc \in {"walk", "reclaim", "swap"} => AtTable
  /\ pc = "walk" /\ req.op \in {"map", "merge_at"} => size_is_supported(Size(req))
  /\ pc \in {"walk", "reclaim", "release"} /\ req.op = "unmap" => \A l \in lvl+1..LEVELS : Above(l)
  /\ pc = "reclaim" => req.op = "unmap"

\* The table in transit: emptied by unmap, merged away, or built by split_at.
ChildInv ==
  /\ child # NoFrame => pc \in {"release", "swap"}
  /\ pc \in {"release", "swap"} => child \in Tables \ {root}
  /\ pc = "release" /\ req.op = "unmap" => cur = child /\ lev[child] = lvl /\ lvl < LEVELS
  /\ pc = "swap" =>
       /\ owner[child] = "walker" /\ lev[child] = lvl - 1 /\ cover[child] = SlotCover(cur, Idx)
       /\ Slot.kind = "leaf" /\ \A i \in Slots : mem[child][i].kind = "leaf"

\* The recursion of drop_subtree: path[l] is being scanned, and the entry before
\* pos[l] is the one it has descended into.
DropInv ==
  /\ pc # "drop" => pos = NoPos
  /\ pc = "drop" =>
       /\ path[LEVELS] = root /\ cur = path[lvl]
       /\ \A l \in lvl..LEVELS : path[l] \in Linked /\ lev[path[l]] = l
       /\ \A l \in lvl+1..LEVELS : pos[l] > 0 /\ mem[path[l]][pos[l]-1] = Table(path[l-1])

\* The tree is sound and every step of a call stands where it believes to stand:
\* what TypeOK, NoDanglingTable, NoLostFrame and OnePath need to be inductive.
IInv ==
  /\ TypeOK /\ NoDanglingTable /\ NoLostFrame /\ OnePath
  /\ RootInv /\ CoverInv /\ BootInv /\ WalkInv /\ ChildInv /\ DropInv

-------------------------------------------------------------------------------
(* The inductive invariant about contents, on top of IInv. *)

\* A table below the root serves an aligned block of pages, what one entry of its
\* parent spans.
BlockInv ==
  \A f \in Tables : lev[f] < LEVELS =>
    \A v \in cover[f], w \in ValidPages :
      w \in cover[f] <=> w \div Span[lev[f]+1] = v \div Span[lev[f]+1]

\* A leaf maps something: it is in an entry that the table has pages for.
UsedInv ==
  \A f \in Tables, i \in Slots : mem[f][i].kind = "leaf" => SlotCover(f, i) # {}

\* The frames that the allocator does not know are those of the table adopted.
ForeignInv ==
  \A f \in Frames : owner[f] \in {"boot", "adopted"} => f \in BootFrames

\* Nobody writes an entry of no legal kind.
DamageInv == \A f \in Frames, i \in Slots : mem[f][i] = Invalid => Damaged

\* Where a table may be without a present entry: at the end of a map's descent, and
\* on unmap's way back up.
TightInv ==
  ~untidy => \A f \in Tables \ {root} : is_table_empty(f) =>
    \/ pc = "walk" /\ req.op = "map" /\ f = cur
    \/ pc = "reclaim" /\ f = cur
    \/ pc = "release" /\ req.op = "unmap" /\ f \in {child, path[lvl+1]}

\* What a call has checked stays true to its end; split_at's table is complete when
\* it is linked.
CallInv ==
  /\ pc \in {"walk", "swap", "reclaim", "release"} => ArgCheck(req) = "Ok"
  /\ pc = "walk" /\ req.op \in {"map", "merge_at"} => lvl >= TargetLevel
  /\ pc = "release" => req.op \in {"unmap", "merge_at"}
  /\ pc = "return" => ret # "none"
  /\ pc = "swap" =>
       /\ req.op = "split_at" /\ LeafCheck = "Ok"
       /\ \A i \in Slots : mem[child][i] = Leaf(Slot.pa + i * Span[lvl-1], Slot.fl)

\* The entries say what the calls asked for, in a tree without needless tables: what
\* TightTree, LeavesEncodable, QueryIsExact and ImplementsContract rest on.
ContentInv ==
  /\ BlockInv /\ LeavesEncodable /\ UsedInv
  /\ ForeignInv /\ DamageInv /\ TightInv /\ CallInv

-------------------------------------------------------------------------------
(* query, as the code computes it: a descent through memory. *)

\* walk[l]: the table of level l on the path to v, if the path gets there.
TablesOnPath(v) ==
  LET walk[l \in 1..LEVELS] ==
        IF l = LEVELS THEN root
        ELSE IF walk[l+1] = NoFrame THEN NoFrame
        ELSE LET e == mem[walk[l+1]][index_at(l + 1, v)]
             IN IF e.kind = "table" THEN e.to ELSE NoFrame
  IN walk

Err(e) == [error |-> e]

\* Mutant: the address is not checked first.
queryUnchecked(v) ==
  LET walk == TablesOnPath(v)
      l == CHOOSE k \in 1..LEVELS :
             walk[k] # NoFrame /\ (k > 1 => walk[k-1] = NoFrame)
      e == mem[walk[l]][index_at(l, v)]
  IN IF e.kind # "leaf" THEN Err("NotMapped")
     ELSE [pages |-> Pages(leaf_range(v, l)), pa |-> e.pa, fl |-> e.fl]

query(v) ==
  IF ~vaddr_is_valid(v) THEN Err("AddressOutOfRange")
  ELSE LET walk == TablesOnPath(v)
           l == CHOOSE k \in 1..LEVELS :
                  walk[k] # NoFrame /\ (k > 1 => walk[k-1] = NoFrame)
           e == mem[walk[l]][index_at(l, v)]
       IN IF e.kind = "none" THEN Err("NotMapped")
          ELSE IF e.kind = "invalid" THEN Err("InvalidEntryKind")
          ELSE IF Span[l] \notin NamedSizes THEN Err("UnsupportedSize")
          ELSE IF ~leaf_range_exists(v, l) THEN Err("AddressOutOfRange")
          ELSE [pages |-> Pages(leaf_range(v, l)), pa |-> e.pa, fl |-> e.fl]

\* The mappings the memory holds: one per leaf entry of a linked table.
Leaves ==
  {[pages |-> SlotCover(s[1], s[2]), pa |-> mem[s[1]][s[2]].pa, fl |-> mem[s[1]][s[2]].fl] :
     s \in {x \in Linked \X Slots : mem[x[1]][x[2]].kind = "leaf"}}

\* query agrees with the mappings: it returns the one leaf that covers the page,
\* its whole range included, and an error exactly when none can be returned.
QueryIsExact ==
  pc = "idle" /\ root # NoFrame =>
    \A v \in 0..UMAX-1 :
      LET found == {m \in Leaves : v \in m.pages} IN
      IF found = {}
      THEN query(v) \in {Err("NotMapped"), Err("AddressOutOfRange"), Err("InvalidEntryKind")}
      ELSE \/ found = {query(v)}
           \/ query(v) = Err("AddressOutOfRange") /\ \E m \in found : UMAX - 1 \in m.pages

-------------------------------------------------------------------------------
(* The walker implements the address space its trait promises. *)

BootMaps ==
  IF BootFrames = {} THEN {}
  ELSE {[pages |-> {v \in BootTree.cover[s[1]] : index_at(BootTree.lev[s[1]], v) = s[2]},
         pa |-> BootTree.mem[s[1]][s[2]].pa, fl |-> BootTree.mem[s[1]][s[2]].fl] :
          s \in {x \in BootFrames \X Slots : BootTree.mem[x[1]][x[2]].kind = "leaf"}}

Outcome ==
  CASE pc \in {"idle", "drop"} -> "none"
    [] pc \in {"walk", "swap"} -> "pending"
    [] pc = "return" -> ret
    [] OTHER -> "Ok"

Contract == INSTANCE AddressSpace WITH
  BootMaps <- BootMaps,
  Foreign <- BootFrames # {},
  Damaged <- Damaged,
  Loose <- Loose,
  open <- root # NoFrame /\ pc # "drop",
  maps <- IF pc = "drop" THEN {} ELSE Leaves,
  call <- req,
  outcome <- Outcome,
  untidy <- untidy /\ pc # "drop"

\* Every step of the walker is a step of AddressSpace or invisible there: a call
\* takes effect at once and completely, or not at all with an error that the
\* mappings justify, whatever the order of its stores and allocator calls.
ImplementsContract == Contract!ASSpec

\* A map refused with AlreadyMapped finds something mapped in its range: "Mapping
\* already present where a fresh one was requested" (src/error.rs).
AlreadyMappedMeansMapped ==
  pc = "return" /\ ret = "AlreadyMapped" =>
    \E m \in Leaves : m.pages \cap Pages(req) # {}

\* A map of one contiguous range names no page size, the walker takes "the largest
\* legal leaf size at each aligned span" (src/mapping.rs): it cannot fail because a
\* "Requested page size" (src/error.rs) has no level.
SizesAreChosenLegal ==
  pc = "return" /\ req.op = "map" => ret # "UnsupportedSize"

\* merge_at's comment: "Any failure -> NotCoalescable with the tree unmodified".
\* After a refused merge the range is not one leaf (it would have returned Ok).
RefusedMergeChangesNothing ==
  pc = "return" /\ req.op = "merge_at" /\ ret # "Ok" =>
    ~\E m \in Leaves : m.pages = Pages(req)

\* Every call, and Drop, comes to its end: the loops of the descent, of the
\* reclaim and of drop_subtree terminate.
CallsReturn == (pc # "idle") ~> (pc = "idle")

===============================================================================

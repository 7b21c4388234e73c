-------------------------- MODULE WalkerContractProofs --------------------------
(***************************************************************************)
(* The walker implements the address space that its trait promises: every  *)
(* step of PageTableWalker is a step of AddressSpace or changes nothing    *)
(* there.                                                                  *)
(***************************************************************************)
EXTENDS WalkerContentProofs, WellFoundedInduction

(* The state of AddressSpace that a state of the walker stands for. *)

Open == root # NoFrame /\ pc # "drop"

Maps == IF pc = "drop" THEN {} ELSE Leaves

Untidy == untidy /\ pc # "drop"

AbstractStep == [Contract!ASNext]_(Contract!asvars)

\* The arithmetic of AddressSpace is that of the walker.
LEMMA SameOps ==
  /\ Contract!Slots = Slots
  /\ \A r : /\ Contract!Pages(r) = Pages(r) /\ Contract!Size(r) = Size(r)
            /\ Contract!check_leaf_range(r) = check_leaf_range(r)
            /\ \A p : Contract!exact_leaf_size(r, p) = exact_leaf_size(r, p)
  /\ \A n : Contract!size_is_supported(n) <=> size_is_supported(n)
  /\ \A v : Contract!vaddr_is_valid(v) <=> vaddr_is_valid(v)
  /\ \A p : Contract!paddr_is_valid(p) <=> paddr_is_valid(p)
<1>1. Contract!Slots = Slots
  BY DEF Contract!Slots, Slots
<1>2. \A v : Contract!vaddr_is_valid(v) <=> vaddr_is_valid(v)
  BY DEF Contract!vaddr_is_valid, vaddr_is_valid, Contract!VaSize, VaSize
<1>3. \A p : Contract!paddr_is_valid(p) <=> paddr_is_valid(p)
  BY DEF Contract!paddr_is_valid, paddr_is_valid
<1>4. \A n : Contract!size_is_supported(n) <=> size_is_supported(n)
  BY DEF Contract!size_is_supported, size_is_supported
<1>5. \A r : Contract!Pages(r) = Pages(r) /\ Contract!Size(r) = Size(r)
  BY DEF Contract!Pages, Pages, Contract!Size, Size
<1>6. \A r : Contract!check_leaf_range(r) = check_leaf_range(r)
  BY <1>2, <1>5 DEF Contract!check_leaf_range, check_leaf_range
<1>7. \A r, p : Contract!exact_leaf_size(r, p) = exact_leaf_size(r, p)
  BY <1>3, <1>4, <1>5, <1>6 DEF Contract!exact_leaf_size, exact_leaf_size
<1> QED
  BY <1>1, <1>2, <1>3, <1>4, <1>5, <1>6, <1>7

\* The three kinds of steps inside a call: invisible, ...
LEMMA Invisible ==
  ASSUME UNCHANGED <<Open, Maps, req, Outcome, Untidy>>
  PROVE  AbstractStep
BY DEF AbstractStep, Contract!asvars, Open, Maps, Untidy

\* ... its effect, ...
LEMMA TakesEffect ==
  ASSUME Outcome = "pending", Outcome' = "Ok", Maps' \in Contract!Effects(req),
         UNCHANGED <<Open, req, Untidy>>
  PROVE  AbstractStep
<1>1. Contract!Succeed
  BY DEF Contract!Succeed, Open, Maps, Untidy
<1> QED
  BY <1>1 DEF AbstractStep, Contract!ASNext

\* ... or its refusal.
LEMMA IsRefused ==
  ASSUME NEW e \in Contract!Errors, Outcome = "pending", Outcome' = e,
         Contract!MayRefuse(req, e), UNCHANGED <<Open, Maps, req>>,
         Untidy' = (Untidy \/ (req.op = "map" /\ e \in {"OutOfMemory", "NotAligned"}))
  PROVE  AbstractStep
<1>1. Contract!Refuse(e)
  BY DEF Contract!Refuse, Open, Maps, Untidy
<1> QED
  BY <1>1 DEF AbstractStep, Contract!ASNext

-------------------------------------------------------------------------------
(* How the steps change the mappings. *)

\* LeafAt(f, i) after a step.
LeafAfter(f, i) ==
  [pages |-> {v \in cover'[f] : index_at(lev'[f], v) = i}, pa |-> mem'[f][i].pa, fl |-> mem'[f][i].fl]

\* There is a leaf in entry i of f, and translation can reach it.
IsLeaf(f, i) == f \in Linked /\ i \in Slots /\ mem[f][i].kind = "leaf"

LEMMA LeavesOf == \A m : m \in Leaves <=> \E f, i : IsLeaf(f, i) /\ m = LeafAt(f, i)
BY LeavesAre DEF IsLeaf

\* Leaves are disjoint: a page is in the leaf of one entry only.
LEMMA DistinctLeaves ==
  ASSUME IInv, pc # "drop", NEW f, NEW i, NEW g, NEW j, IsLeaf(f, i), IsLeaf(g, j),
         NEW v, v \in SlotCover(f, i), v \in SlotCover(g, j)
  PROVE  f = g /\ i = j
<1>1. f \in Linked /\ g \in Linked /\ i \in Slots /\ j \in Slots /\ f \in Frames /\ g \in Frames
  BY DEF IsLeaf, Linked, Tables
<1>2. v \in cover[f] /\ v \in cover[g] /\ index_at(lev[f], v) = i /\ index_at(lev[g], v) = j
  BY DEF SlotCover
<1>3. ~Links(f, i) /\ ~Links(g, j)
  BY DEF IsLeaf, Links
<1>4. lev[f] \in Int /\ lev[g] \in Int
  BY <1>1 DEF IInv, TypeOK
<1>5. lev[f] = lev[g]
  BY <1>1, <1>2, <1>3, <1>4 DEF IInv, OnePath
<1> QED
  BY <1>1, <1>2, <1>5 DEF IInv, OnePath

\* A step takes the leaves of the entries I of g away, puts leaves into the entries J
\* of a, and leaves the others alone.
Moves(g, I, a, J) ==
  /\ \A i \in I : IsLeaf(g, i)
  /\ \A f, i : f \in Linked' /\ i \in Slots /\ mem'[f][i].kind = "leaf" <=>
                 (IsLeaf(f, i) /\ ~(f = g /\ i \in I)) \/ (f = a /\ i \in J)
  /\ \A f, i : IsLeaf(f, i) /\ ~(f = g /\ i \in I) =>
                 mem'[f][i] = mem[f][i] /\ lev'[f] = lev[f] /\ cover'[f] = cover[f]

\* Such a step does so to the mappings.
LEMMA LeavesAfter ==
  ASSUME IInv, UsedInv, pc # "drop", NEW g, NEW I, NEW a, NEW J, Moves(g, I, a, J)
  PROVE  \A m : m \in Leaves' <=>
           \/ m \in Leaves /\ \A i \in I : m # LeafAt(g, i)
           \/ \E j \in J : m = LeafAfter(a, j)
<1>1. \A m : m \in Leaves <=> \E f, i : IsLeaf(f, i) /\ m = LeafAt(f, i)
  BY LeavesOf
<1>2. \A m : m \in Leaves' <=>
        \E f, i : f \in Linked' /\ i \in Slots /\ mem'[f][i].kind = "leaf" /\ m = LeafAfter(f, i)
  <2>1. (\A m : m \in Leaves <=> \E f, i : IsLeaf(f, i) /\ m = LeafAt(f, i))'
    BY LeavesOf, PTL
  <2> QED
    BY <2>1 DEF IsLeaf, LeafAt, LeafAfter, SlotCover
<1>3. \A f, i : IsLeaf(f, i) /\ ~(f = g /\ i \in I) => LeafAfter(f, i) = LeafAt(f, i)
  BY DEF Moves, LeafAt, LeafAfter, SlotCover
<1>4. ASSUME NEW f, NEW i, IsLeaf(f, i), NEW j \in I, LeafAt(f, i) = LeafAt(g, j)
      PROVE  f = g /\ i \in I
  <2>1. IsLeaf(g, j)
    BY <1>4 DEF Moves
  <2>2. SlotCover(f, i) = SlotCover(g, j)
    BY <1>4 DEF LeafAt
  <2>3. PICK v : v \in SlotCover(g, j)
    BY <2>1 DEF UsedInv, IsLeaf, Linked
  <2> QED
    BY <1>4, <2>1, <2>2, <2>3, DistinctLeaves
<1>5. ASSUME NEW m, m \in Leaves'
      PROVE  (m \in Leaves /\ \A i \in I : m # LeafAt(g, i)) \/ \E j \in J : m = LeafAfter(a, j)
  <2>1. PICK f, i : f \in Linked' /\ i \in Slots /\ mem'[f][i].kind = "leaf" /\ m = LeafAfter(f, i)
    BY <1>2, <1>5
  <2>2. CASE f = a /\ i \in J
    BY <2>1, <2>2
  <2>3. CASE IsLeaf(f, i) /\ ~(f = g /\ i \in I)
    BY <1>1, <1>3, <1>4, <2>1, <2>3
  <2> QED
    BY <2>1, <2>2, <2>3 DEF Moves
<1>6. ASSUME NEW m \in Leaves, \A i \in I : m # LeafAt(g, i)
      PROVE  m \in Leaves'
  <2>1. PICK f, i : IsLeaf(f, i) /\ m = LeafAt(f, i)
    BY <1>1
  <2>2. ~(f = g /\ i \in I)
    BY <1>6, <2>1
  <2>3. f \in Linked' /\ i \in Slots /\ mem'[f][i].kind = "leaf" /\ m = LeafAfter(f, i)
    BY <1>3, <2>1, <2>2 DEF Moves
  <2> QED
    BY <1>2, <2>3
<1>7. ASSUME NEW j \in J
      PROVE  LeafAfter(a, j) \in Leaves'
  BY <1>2 DEF Moves
<1>8. \A m : m \in Leaves' <=>
        (m \in Leaves /\ \A i \in I : m # LeafAt(g, i)) \/ \E j \in J : m = LeafAfter(a, j)
  BY <1>5, <1>6, <1>7
<1> QED
  BY <1>8

LEMMA LeavesSame ==
  ASSUME UNCHANGED <<mem, lev, cover, child>>
  PROVE  Leaves' = Leaves
BY DEF Leaves, Linked, Tables, SlotCover

\* A store to a slot that holds no table.
LEMMA LeavesWritten ==
  ASSUME IInv, UsedInv, pc = "walk", Slot.kind # "table", NEW e, e.kind # "table",
         WriteSlot(e), UNCHANGED <<lev, cover, child>>
  PROVE  Leaves' = (Leaves \ (IF Slot.kind = "leaf" THEN {LeafAt(cur, Idx)} ELSE {})) \cup
                   (IF e.kind = "leaf" THEN {[pages |-> SlotCover(cur, Idx), pa |-> e.pa, fl |-> e.fl]}
                    ELSE {})
<1> DEFINE I == IF Slot.kind = "leaf" THEN {Idx} ELSE {}
           J == IF e.kind = "leaf" THEN {Idx} ELSE {}
<1>1. /\ cur \in Frames /\ Idx \in Slots /\ cur \in Linked /\ mem[cur][Idx] = Slot
      /\ Linked' = Linked /\ I \in SUBSET Slots /\ J \in SUBSET Slots
  BY AtSlot DEF Slot, Linked, Tables
<1>2. \A f \in Frames, i \in Slots : mem'[f][i] = IF f = cur /\ i = Idx THEN e ELSE mem[f][i]
  BY SlotWrite
<1>3. \A f, i : SlotCover(f, i)' = SlotCover(f, i)
  BY DEF SlotCover
<1>4. \A f \in Linked : f \in Frames
  BY DEF Linked, Tables
<1> HIDE DEF Idx
<1>5. \A i \in I : IsLeaf(cur, i)
  BY <1>1 DEF IsLeaf
<1>6. \A f, i : f \in Linked' /\ i \in Slots /\ mem'[f][i].kind = "leaf" <=>
                  (IsLeaf(f, i) /\ ~(f = cur /\ i \in I)) \/ (f = cur /\ i \in J)
  BY <1>1, <1>2, <1>4 DEF IsLeaf
<1>7. \A f, i : IsLeaf(f, i) /\ ~(f = cur /\ i \in I) =>
                  mem'[f][i] = mem[f][i] /\ lev'[f] = lev[f] /\ cover'[f] = cover[f]
  BY <1>1, <1>2, <1>4 DEF IsLeaf
<1> HIDE DEF I, J
<1>8. \A m : m \in Leaves' <=>
         \/ m \in Leaves /\ \A i \in I : m # LeafAt(cur, i)
         \/ \E j \in J : m = LeafAfter(cur, j)
  <2>1. Moves(cur, I, cur, J)
    BY <1>5, <1>6, <1>7 DEF Moves
  <2> QED
    BY <2>1, LeavesAfter
<1>9. LeafAfter(cur, Idx) = [pages |-> SlotCover(cur, Idx), pa |-> e.pa, fl |-> e.fl]
  BY <1>1, <1>2 DEF SlotCover, LeafAfter
<1>10. \A x : x \in I <=> Slot.kind = "leaf" /\ x = Idx
  BY DEF I
<1>11. \A x : x \in J <=> e.kind = "leaf" /\ x = Idx
  BY DEF J
<1> QED
  BY <1>8, <1>9, <1>10, <1>11

\* Steps that move tables only.
LEMMA LeavesStay ==
  ASSUME IInv, UsedInv, pc # "drop",
         \A f, i : f \in Linked' /\ i \in Slots /\ mem'[f][i].kind = "leaf" <=> IsLeaf(f, i),
         \A f, i : IsLeaf(f, i) => mem'[f][i] = mem[f][i] /\ lev'[f] = lev[f] /\ cover'[f] = cover[f]
  PROVE  Leaves' = Leaves
<1>1. Moves(NoFrame, {}, NoFrame, {})
  BY DEF Moves
<1>2. \A m : m \in Leaves' <=> m \in Leaves
  BY <1>1, LeavesAfter
<1> QED
  BY <1>2

LEMMA TablesMove ==
  ASSUME IInv, UsedInv,
         \/ \E t \in Frames : MapGrow(t) \/ SplitBuild(t) \/ try_new(t)
         \/ ReclaimUnlink \/ ReclaimFree \/ MergeFree
  PROVE  Leaves' = Leaves
<1>1. /\ mem \in [Frames -> [Slots -> Entries]] /\ lev \in [Frames -> 0..LEVELS]
      /\ cover \in [Frames -> SUBSET ValidPages] /\ owner \in [Frames -> {"free", "walker", "boot", "adopted"}]
      /\ NoFrame \notin Frames
  BY FrameAssumption DEF IInv, TypeOK
<1>2. \A f : owner[f] = "free" => f \notin Tables
  BY DEF IInv, NoLostFrame
<1>3. ASSUME NEW t \in Frames, MapGrow(t)
      PROVE  Leaves' = Leaves
  <2>1. /\ pc = "walk" /\ owner[t] = "free" /\ Slot.kind = "none" /\ child' = child /\ child = NoFrame
        /\ lev' = [lev EXCEPT ![t] = lvl - 1] /\ cover' = [cover EXCEPT ![t] = SlotCover(cur, Idx)]
    BY <1>3, WalkFacts DEF MapGrow, Mapping, alloc_table_frame, is_present
  <2>2. t \notin Tables /\ Slot = mem[cur][Idx] /\ lev[t] = 0
    BY <1>1, <1>2, <2>1 DEF Slot, Tables
  <2>3. \A f \in Frames, i \in Slots :
          mem'[f][i] = IF f = cur /\ i = Idx THEN Table(t) ELSE IF f = t THEN Unused ELSE mem[f][i]
    BY <1>3, GrowWrites
  <2>4. \A f \in Frames : f # t => (f \in Linked' <=> f \in Linked) /\ lev'[f] = lev[f] /\ cover'[f] = cover[f]
    BY <1>1, <2>1 DEF Linked, Tables
  <2>5. \A f, i : f \in Linked' /\ i \in Slots /\ mem'[f][i].kind = "leaf" <=> IsLeaf(f, i)
    BY <2>1, <2>2, <2>3, <2>4 DEF IsLeaf, Table, Unused, Linked, Tables
  <2>6. \A f, i : IsLeaf(f, i) => mem'[f][i] = mem[f][i] /\ lev'[f] = lev[f] /\ cover'[f] = cover[f]
    BY <2>1, <2>2, <2>3, <2>4 DEF IsLeaf, Linked, Tables
  <2> QED
    BY <2>1, <2>5, <2>6, LeavesStay
<1>4. ASSUME NEW t \in Frames, SplitBuild(t)
      PROVE  Leaves' = Leaves
  <2>1. /\ pc = "walk" /\ owner[t] = "free" /\ child' = t /\ child = NoFrame
        /\ lev' = [lev EXCEPT ![t] = lvl - 1] /\ cover' = [cover EXCEPT ![t] = SlotCover(cur, Idx)]
        /\ \A f \in Frames : f # t => mem'[f] = mem[f]
    BY <1>1, <1>4, WalkFacts DEF SplitBuild, AtLeaf, Exact, alloc_table_frame
  <2>2. t \notin Tables
    BY <1>2, <2>1
  <2>3. \A f \in Frames : f # t => (f \in Linked' <=> f \in Linked) /\ lev'[f] = lev[f] /\ cover'[f] = cover[f]
    BY <1>1, <2>1 DEF Linked, Tables
  <2>4. \A f, i : f \in Linked' /\ i \in Slots /\ mem'[f][i].kind = "leaf" <=> IsLeaf(f, i)
    BY <2>1, <2>2, <2>3 DEF IsLeaf, Linked, Tables
  <2>5. \A f, i : IsLeaf(f, i) => mem'[f][i] = mem[f][i] /\ lev'[f] = lev[f] /\ cover'[f] = cover[f]
    BY <2>1, <2>2, <2>3 DEF IsLeaf, Linked, Tables
  <2> QED
    BY <2>1, <2>4, <2>5, LeavesStay
<1>5. ASSUME NEW t \in Frames, try_new(t)
      PROVE  Leaves' = Leaves
  <2>1. /\ pc = "idle" /\ root = NoFrame /\ owner[t] = "free" /\ child' = child
        /\ lev' = [lev EXCEPT ![t] = LEVELS]
        /\ mem' = [mem EXCEPT ![t] = ZeroTable]
    BY <1>5 DEF try_new, alloc_table_frame, locals
  <2>2. Tables = {}
    BY <2>1 DEF IInv, RootInv
  <2>3. \A f \in Frames : f # t => f \notin Linked'
    BY <1>1, <2>1, <2>2 DEF Linked, Tables
  <2>4. \A i \in Slots : mem'[t][i].kind = "none"
    BY <1>1, <2>1 DEF ZeroTable, Unused
  <2>5. \A f, i : ~(f \in Linked' /\ i \in Slots /\ mem'[f][i].kind = "leaf")
    BY <2>3, <2>4 DEF Linked, Tables
  <2>6. \A f, i : ~IsLeaf(f, i)
    BY <2>2 DEF IsLeaf, Linked
  <2> QED
    BY <2>1, <2>5, <2>6, LeavesStay
<1>6. CASE ReclaimUnlink
  <2> DEFINE h == path[lvl+1]
             k == index_at(lvl + 1, req.start)
  <2>1. /\ pc = "reclaim" /\ lvl # LEVELS /\ child = NoFrame /\ child' = cur
        /\ mem' = [mem EXCEPT ![h][k] = Unused] /\ UNCHANGED <<lev, cover>>
        /\ is_table_empty(cur)
    BY <1>6, WalkFacts DEF ReclaimUnlink, ReclaimDone, ghosts
  <2>2. h \in Frames /\ k \in Slots /\ Links(h, k)
    BY <2>1, ParentLink
  <2> HIDE DEF h, k
  <2>3. mem[h][k].kind = "table"
    BY <2>2 DEF Links
  <2>4. \A f \in Frames, i \in Slots : mem'[f][i] = IF f = h /\ i = k THEN Unused ELSE mem[f][i]
    BY <1>1, <2>1, <2>2
  <2>5. Linked' = Linked \ {cur} /\ \A i : ~IsLeaf(cur, i)
    BY <2>1, <1>1 DEF Linked, Tables, IsLeaf, is_table_empty, is_present
  <2>6. \A f, i : f \in Linked' /\ i \in Slots /\ mem'[f][i].kind = "leaf" <=> IsLeaf(f, i)
    BY <2>3, <2>4, <2>5 DEF IsLeaf, Unused, Linked, Tables
  <2>7. \A f, i : IsLeaf(f, i) => mem'[f][i] = mem[f][i] /\ lev'[f] = lev[f] /\ cover'[f] = cover[f]
    BY <2>1, <2>3, <2>4 DEF IsLeaf, Linked, Tables
  <2> QED
    BY <2>1, <2>6, <2>7, LeavesStay
<1>7. CASE ReclaimFree \/ MergeFree
  <2>1. /\ pc = "release" /\ child \in Tables /\ child' = NoFrame
        /\ lev' = [lev EXCEPT ![child] = 0] /\ cover' = [cover EXCEPT ![child] = {}]
        /\ \A f \in Frames : f # child => mem'[f] = mem[f]
    BY <1>1, <1>7 DEF ReclaimFree, MergeFree, dealloc_table_frame, IInv, ChildInv
  <2>2. \A f : f \in Linked' <=> f \in Linked
    BY <1>1, <2>1 DEF Linked, Tables
  <2>3. \A f \in Linked : f # child /\ f \in Frames
    BY DEF Linked, Tables
  <2>4. \A f, i : f \in Linked' /\ i \in Slots /\ mem'[f][i].kind = "leaf" <=> IsLeaf(f, i)
    BY <2>1, <2>2, <2>3 DEF IsLeaf
  <2>5. \A f, i : IsLeaf(f, i) => mem'[f][i] = mem[f][i] /\ lev'[f] = lev[f] /\ cover'[f] = cover[f]
    BY <1>1, <2>1, <2>3 DEF IsLeaf
  <2> QED
    BY <2>1, <2>4, <2>5, LeavesStay
<1> QED
  BY <1>3, <1>4, <1>5, <1>6, <1>7

\* The adopted table holds the mappings it had.
LEMMA LeavesAdopted ==
  ASSUME IInv, adopt
  PROVE  Leaves' = BootMaps
<1>1. /\ pc = "idle" /\ BootFrames # {} /\ \A f \in BootFrames : owner[f] = "boot"
      /\ lev' = [f \in Frames |-> IF f \in BootFrames THEN BootTree.lev[f] ELSE 0]
      /\ cover' = [f \in Frames |-> IF f \in BootFrames THEN BootTree.cover[f] ELSE {}]
      /\ mem' = mem /\ child' = child
  BY DEF adopt, locals
<1>2. BootFrames \subseteq Frames /\ NoFrame \notin Frames /\ child = NoFrame
  BY <1>1, FrameAssumption DEF IInv, ChildInv
<1>3. \A f \in BootFrames : mem'[f] = BootTree.mem[f] /\ lev'[f] = BootTree.lev[f]
                            /\ cover'[f] = BootTree.cover[f] /\ BootTree.lev[f] > 0
  BY <1>1, <1>2, BootAssumption DEF IInv, BootInv
<1>4. Linked' = BootFrames
  BY <1>1, <1>2, <1>3 DEF Linked, Tables
<1>5. (\A m : m \in Leaves <=> \E f, i : IsLeaf(f, i) /\ m = LeafAt(f, i))'
  BY LeavesOf, PTL
<1>6. \A m : m \in Leaves' <=>
        \E f, i : f \in Linked' /\ i \in Slots /\ mem'[f][i].kind = "leaf" /\ m = LeafAfter(f, i)
  BY <1>5 DEF IsLeaf, LeafAt, LeafAfter, SlotCover
<1> DEFINE boot(f, i) == [pages |-> {v \in BootTree.cover[f] : index_at(BootTree.lev[f], v) = i},
                          pa |-> BootTree.mem[f][i].pa, fl |-> BootTree.mem[f][i].fl]
           S == {x \in BootFrames \X Slots : BootTree.mem[x[1]][x[2]].kind = "leaf"}
<1>7. \A f, i : f \in BootFrames => LeafAfter(f, i) = boot(f, i)
  BY <1>3 DEF LeafAfter
<1>8. BootMaps = {boot(s[1], s[2]) : s \in S}
  BY <1>1 DEF BootMaps
<1> HIDE DEF boot
<1>9. \A m : m \in BootMaps <=>
        \E f \in BootFrames, i \in Slots : BootTree.mem[f][i].kind = "leaf" /\ m = boot(f, i)
  <2>1. ASSUME NEW m \in BootMaps
        PROVE  \E f \in BootFrames, i \in Slots : BootTree.mem[f][i].kind = "leaf" /\ m = boot(f, i)
    BY <1>8
  <2>2. ASSUME NEW f \in BootFrames, NEW i \in Slots, BootTree.mem[f][i].kind = "leaf"
        PROVE  boot(f, i) \in BootMaps
    <3>1. <<f, i>> \in S
      BY <2>2
    <3> QED
      BY <1>8, <3>1
  <2> QED
    BY <2>1, <2>2
<1>10. \A m : m \in Leaves' <=> m \in BootMaps
  BY <1>3, <1>4, <1>6, <1>7, <1>9
<1> QED
  BY <1>10

\* The swap of split_at replaces a leaf by the leaves of the table it has filled.
LEMMA LeavesSplit ==
  ASSUME IInv, UsedInv, SplitSwap
  PROVE  \A m : m \in Leaves' <=>
           (m \in Leaves /\ m # LeafAt(cur, Idx)) \/ \E j \in Slots : m = LeafAt(child, j)
<1>1. /\ pc = "swap" /\ WriteSlot(Table(child)) /\ child' = NoFrame /\ UNCHANGED <<lev, cover>>
  BY DEF SplitSwap, ghosts
<1>2. /\ cur \in Frames /\ Idx \in Slots /\ cur \in Linked /\ Slot = mem[cur][Idx] /\ NoFrame \notin Frames
      /\ child \in Tables /\ Slot.kind = "leaf" /\ \A i \in Slots : mem[child][i].kind = "leaf"
  BY <1>1, AtSlot, FrameAssumption DEF IInv, ChildInv, Slot
<1>3. \A f \in Frames, i \in Slots : mem'[f][i] = IF f = cur /\ i = Idx THEN Table(child) ELSE mem[f][i]
  BY <1>1, SlotWrite
<1>4. Linked' = Tables /\ child \in Frames /\ child \notin Linked
  BY <1>1, <1>2 DEF Linked, Tables
<1> HIDE DEF Idx
<1>5. IsLeaf(cur, Idx) /\ ~(cur = child)
  BY <1>2, <1>4 DEF IsLeaf
<1>6. \A f, i : f \in Linked' /\ i \in Slots /\ mem'[f][i].kind = "leaf" <=>
                  (IsLeaf(f, i) /\ ~(f = cur /\ i \in {Idx})) \/ (f = child /\ i \in Slots)
  BY <1>2, <1>3, <1>4, <1>5 DEF IsLeaf, Table, Linked, Tables
<1>7. \A f, i : IsLeaf(f, i) /\ ~(f = cur /\ i \in {Idx}) =>
                  mem'[f][i] = mem[f][i] /\ lev'[f] = lev[f] /\ cover'[f] = cover[f]
  BY <1>1, <1>3 DEF IsLeaf, Linked, Tables
<1>8. Moves(cur, {Idx}, child, Slots)
  BY <1>5, <1>6, <1>7 DEF Moves
<1>9. \A j \in Slots : LeafAfter(child, j) = LeafAt(child, j)
  BY <1>1, <1>3, <1>4, <1>5 DEF LeafAfter, LeafAt, SlotCover
<1> QED
  BY <1>1, <1>8, <1>9, LeavesAfter

\* The store of merge_at does the opposite.
LEMMA LeavesMerged ==
  ASSUME IInv, UsedInv, MergeWrite, \A i \in Slots : mem[Slot.to][i].kind = "leaf"
  PROVE  \A m : m \in Leaves' <=>
           \/ m \in Leaves /\ \A i \in Slots : m # LeafAt(Slot.to, i)
           \/ m = [pages |-> SlotCover(cur, Idx), pa |-> mem[Slot.to][0].pa, fl |-> mem[Slot.to][0].fl]
<1> DEFINE t == Slot.to
           e == Leaf(mem[t][0].pa, mem[t][0].fl)
<1>1. /\ pc = "walk" /\ WriteSlot(e) /\ child' = t /\ UNCHANGED <<lev, cover>> /\ Slot.kind = "table"
  BY DEF MergeWrite, Merging, ghosts
<1>2. /\ cur \in Frames /\ Idx \in Slots /\ cur \in Linked /\ Slot = mem[cur][Idx] /\ child = NoFrame
      /\ t \in Linked /\ t \in Frames /\ t # cur
  <2>1. lev[cur] = lvl /\ lev[t] = lvl - 1 /\ lvl \in Int /\ lvl - 1 # lvl
    BY <1>1, AtSlot, NextTable
  <2> QED
    BY <1>1, <2>1, AtSlot, NextTable, WalkFacts DEF Slot
<1>3. \A f \in Frames, i \in Slots : mem'[f][i] = IF f = cur /\ i = Idx THEN e ELSE mem[f][i]
  BY <1>1, SlotWrite
<1>4. e.kind = "leaf" /\ e.pa = mem[t][0].pa /\ e.fl = mem[t][0].fl
  BY DEF Leaf
<1> HIDE DEF Idx, t, e
<1>5. Linked' = Linked \ {t} /\ ~IsLeaf(cur, Idx) /\ \A i \in Slots : IsLeaf(t, i)
  BY <1>1, <1>2, FrameAssumption DEF Linked, Tables, IsLeaf, t
<1>6. \A f, i : f \in Linked' /\ i \in Slots /\ mem'[f][i].kind = "leaf" <=>
                  (IsLeaf(f, i) /\ ~(f = t /\ i \in Slots)) \/ (f = cur /\ i \in {Idx})
  BY <1>2, <1>3, <1>4, <1>5 DEF IsLeaf, Linked, Tables
<1>7. \A f, i : IsLeaf(f, i) /\ ~(f = t /\ i \in Slots) =>
                  mem'[f][i] = mem[f][i] /\ lev'[f] = lev[f] /\ cover'[f] = cover[f]
  BY <1>1, <1>3, <1>5 DEF IsLeaf, Linked, Tables
<1>8. Moves(t, Slots, cur, {Idx})
  BY <1>5, <1>6, <1>7 DEF Moves
<1>9. LeafAfter(cur, Idx) = [pages |-> SlotCover(cur, Idx), pa |-> mem[t][0].pa, fl |-> mem[t][0].fl]
  BY <1>1, <1>2, <1>3, <1>4 DEF LeafAfter, SlotCover
<1> QED
  BY <1>1, <1>8, <1>9, LeavesAfter DEF t

-------------------------------------------------------------------------------
(* The pages of a leaf and the pages of the range of a call. *)

\* Entries of a higher level span more.
LEMMA SpanGrows ==
  ASSUME NEW l \in 1..LEVELS, NEW m \in 1..LEVELS, l < m
  PROVE  Span[l] < Span[m]
<1>1. l \in 1..LEVELS-1 /\ l + 1 \in 1..LEVELS /\ l + 1 <= m
  BY SizesAreNat
<1>2. Span[l+1] = E * Span[l] /\ Span[l] \in Int /\ Span[l] > 0 /\ Span[m] \in Int /\ E \in Int /\ E > 1
      /\ Span[l+1] \in Int /\ Span[l+1] > 0
  BY <1>1, SpanFacts, SizesAreNat
<1>3. Span[l] < Span[l+1]
  BY <1>2
<1>4. PICK k \in Nat : k > 0 /\ Span[m] = k * Span[l+1]
  BY <1>1, SpanDivides
<1>5. Span[l+1] <= Span[m]
  BY <1>2, <1>4
<1> QED
  BY <1>2, <1>3, <1>5

LEMMA SpanTells ==
  ASSUME NEW l \in 1..LEVELS, NEW m \in 1..LEVELS, Span[l] = Span[m]
  PROVE  l = m
<1>1. Span[l] \in Int /\ l \in Int /\ m \in Int
  BY SpanFacts
<1>2. ~(l < m) /\ ~(m < l)
  BY <1>1, SpanGrows
<1> QED
  BY <1>1, <1>2

LEMMA SameRange ==
  ASSUME NEW a \in Int, NEW b \in Int, NEW c \in Int, NEW d \in Int, a .. b = c .. d, a <= b
  PROVE  a = c /\ b = d
<1>1. a \in c .. d /\ b \in c .. d
  OBVIOUS
<1>2. c \in a .. b /\ d \in a .. b
  BY <1>1
<1> QED
  BY <1>1, <1>2

\* A leaf is an aligned range as long as its level spans.
LEMMA LeafPages ==
  ASSUME IInv, BlockInv, NEW f \in Linked, NEW v \in cover[f], NEW i, i = index_at(lev[f], v)
  PROVE  /\ lev[f] \in 1..LEVELS /\ leaf_start(v, lev[f]) \in Int
         /\ SlotCover(f, i) = leaf_start(v, lev[f]) .. leaf_start(v, lev[f]) + Span[lev[f]] - 1
         /\ v \in SlotCover(f, i)
<1>1. f \in Tables /\ lev[f] \in 1..LEVELS /\ v \in ValidPages
  BY TableBlock
<1>2. v \in Int /\ Span[lev[f]] \in Int /\ Span[lev[f]] > 0
  BY <1>1, PageIsNat, SpanFacts
<1>3. leaf_start(v, lev[f]) \in Int
  BY <1>2, DivMod DEF leaf_start
<1> QED
  BY <1>1, <1>3, SlotPages DEF SlotCover

\* Every mapping is such a range, in a table that serves its pages.
LEMMA MappedAt ==
  ASSUME IInv, ContentInv, NEW m \in Leaves
  PROVE  /\ m.pages # {}
         /\ \A v \in m.pages :
              \E f \in Linked : LET i == index_at(lev[f], v) IN
                /\ v \in cover[f] /\ i \in Slots /\ mem[f][i].kind = "leaf" /\ m = LeafAt(f, i)
                /\ lev[f] \in 1..LEVELS /\ leaf_start(v, lev[f]) \in Int
                /\ m.pages = leaf_start(v, lev[f]) .. leaf_start(v, lev[f]) + Span[lev[f]] - 1
<1>1. PICK f \in Linked, i \in Slots : mem[f][i].kind = "leaf" /\ m = LeafAt(f, i)
  BY LeavesAre
<1>2. m.pages = SlotCover(f, i) /\ f \in Tables
  BY <1>1 DEF LeafAt, Linked
<1>3. m.pages # {}
  BY <1>1, <1>2 DEF ContentInv, UsedInv
<1>4. ASSUME NEW v \in m.pages
      PROVE  /\ v \in cover[f] /\ index_at(lev[f], v) = i
             /\ lev[f] \in 1..LEVELS /\ leaf_start(v, lev[f]) \in Int
             /\ m.pages = leaf_start(v, lev[f]) .. leaf_start(v, lev[f]) + Span[lev[f]] - 1
  <2>1. v \in cover[f] /\ index_at(lev[f], v) = i
    BY <1>2, <1>4 DEF SlotCover
  <2> QED
    BY <1>2, <2>1, LeafPages DEF ContentInv
<1> QED
  BY <1>1, <1>3, <1>4

\* The leaf in the slot is the only one that can hold the start of the range.
LEMMA LeafOfStart ==
  ASSUME IInv, pc \in {"walk", "swap"}, Slot.kind # "table", NEW m \in Leaves, req.start \in m.pages
  PROVE  Slot.kind = "leaf" /\ m = LeafAt(cur, Idx)
<1>1. cur \in Linked /\ req.start \in cover[cur] /\ lev[cur] = lvl
  BY AtSlot
<1> QED
  BY <1>1, OneLeaf DEF Slot, Idx

LEMMA RangeTypes ==
  ASSUME IInv, pc \in {"walk", "swap"}, req.op \in Ops
  PROVE  /\ req \in Calls /\ req.start \in Int /\ req.end \in Int /\ req.pa \in Nat
         /\ lvl \in 1..LEVELS /\ lvl \in Int /\ Span[lvl] \in Int /\ Span[lvl] > 0
         /\ leaf_start(req.start, lvl) \in Int /\ Size(req) \in Int
<1>1. req \in Calls /\ req.pa \in Nat
  BY CallInProgress
<1>2. req.start \in Int /\ req.end \in Int
  BY <1>1, CallTypes
<1>3. lvl \in 1..LEVELS /\ lvl \in Int /\ Span[lvl] \in Int /\ Span[lvl] > 0
  BY AtSlot, SpanFacts
<1>4. leaf_start(req.start, lvl) \in Int /\ Size(req) \in Int
  BY <1>2, <1>3, DivMod DEF leaf_start, Size
<1> QED
  BY <1>1, <1>2, <1>3, <1>4

\* The pages of the slot.
LEMMA SlotRange ==
  ASSUME IInv, ContentInv, pc \in {"walk", "swap"}, req.op \in Ops
  PROVE  /\ SlotCover(cur, Idx) =
              leaf_start(req.start, lvl) .. leaf_start(req.start, lvl) + Span[lvl] - 1
         /\ req.start \in SlotCover(cur, Idx)
<1>1. cur \in Linked /\ req.start \in cover[cur] /\ lev[cur] = lvl /\ Idx = index_at(lvl, req.start)
  BY AtSlot DEF Idx
<1> QED
  BY <1>1, LeafPages DEF ContentInv

\* They are those of the range when the code thinks so.
LEMMA RangeIsSlot ==
  ASSUME IInv, ContentInv, pc \in {"walk", "swap"}, req.op \in Ops
  PROVE  /\ leaf_range(req.start, lvl) = [start |-> req.start, end |-> req.end] <=>
              SlotCover(cur, Idx) = Pages(req)
         /\ SlotCover(cur, Idx) = Pages(req) =>
              leaf_start(req.start, lvl) = req.start /\ Size(req) = Span[lvl]
         /\ req.start % Size(req) = 0 /\ Size(req) = Span[lvl] => SlotCover(cur, Idx) = Pages(req)
<1> DEFINE a == leaf_start(req.start, lvl)
           b == a + Span[lvl]
           C == SlotCover(cur, Idx)
<1>1. /\ req.start \in Int /\ req.end \in Int /\ a \in Int /\ Span[lvl] \in Int /\ Span[lvl] > 0
      /\ b \in Int /\ a <= b - 1
  BY RangeTypes
<1>2. C = a .. b - 1 /\ Pages(req) = req.start .. req.end - 1
  BY <1>1, SlotRange DEF Pages
<1>3. leaf_range(req.start, lvl) = [start |-> a, end |-> b]
  BY DEF leaf_range
<1>4. req.start % Size(req) = 0 /\ Size(req) = Span[lvl] => a = req.start /\ b = req.end
  BY <1>1 DEF leaf_start, Size
<1> HIDE DEF a, b, C
<1>5. C = Pages(req) => a = req.start /\ b - 1 = req.end - 1
  <2>1. req.end - 1 \in Int /\ b - 1 \in Int
    BY <1>1
  <2> QED
    BY <1>1, <1>2, <2>1, SameRange
<1>6. C = Pages(req) => a = req.start /\ b = req.end
  BY <1>1, <1>5
<1>7. a = req.start /\ b = req.end => C = Pages(req)
  BY <1>2
<1>8. a = req.start /\ b = req.end => Size(req) = Span[lvl]
  BY <1>1 DEF Size, b
<1>9. [start |-> a, end |-> b] = [start |-> req.start, end |-> req.end] <=> a = req.start /\ b = req.end
  OBVIOUS
<1> QED
  BY <1>3, <1>4, <1>6, <1>7, <1>8, <1>9 DEF a, C

-------------------------------------------------------------------------------
(* Steps that AddressSpace does not see, and the consumer's calls. *)

LEMMA OutcomeIs ==
  /\ pc \in {"idle", "drop"} => Outcome = "none"
  /\ pc \in {"walk", "swap"} => Outcome = "pending"
  /\ pc = "return" => Outcome = ret
  /\ pc \in {"reclaim", "release", "flush"} => Outcome = "Ok"
BY DEF Outcome

LEMMA OutcomeAfter ==
  /\ pc' \in {"idle", "drop"} => Outcome' = "none"
  /\ pc' \in {"walk", "swap"} => Outcome' = "pending"
  /\ pc' = "return" => Outcome' = ret'
  /\ pc' \in {"reclaim", "release", "flush"} => Outcome' = "Ok"
BY DEF Outcome

\* Nothing is mapped before a table is made and after its root is freed.
LEMMA NothingMapped ==
  ASSUME IInv, root = NoFrame
  PROVE  Leaves = {}
<1>1. Linked = {}
  BY DEF IInv, RootInv, Linked
<1> QED
  BY <1>1, LeavesAre

LEMMA InvisibleSteps ==
  ASSUME IInv, IInv', ContentInv,
         \/ UNCHANGED vars \/ MapDescend \/ ExactDescend \/ MergeDescend
         \/ (\E t \in Frames : MapGrow(t) \/ SplitBuild(t))
         \/ ReclaimStop \/ ReclaimUnlink \/ Flush \/ DropScan \/ DropFree
  PROVE  AbstractStep
<1>1. CASE UNCHANGED vars \/ MapDescend \/ ExactDescend \/ MergeDescend \/ ReclaimStop \/ Flush
  <2>1. UNCHANGED <<mem, root, lev, cover, child, req, untidy>>
    BY <1>1 DEF vars, memory, ghosts, locals, MapDescend, ExactDescend, MergeDescend, StepDown,
                ReclaimStop, Flush
  <2>2. Leaves' = Leaves
    BY <2>1, LeavesSame
  <2>3. pc # "drop" <=> pc' # "drop"
    BY <1>1 DEF vars, MapDescend, ExactDescend, MergeDescend, StepDown, ReclaimStop, Flush, Finish
  <2>4. Outcome' = Outcome
    <3>1. CASE UNCHANGED vars \/ MapDescend \/ ExactDescend \/ MergeDescend
      BY <3>1 DEF Outcome, vars, MapDescend, ExactDescend, MergeDescend, StepDown
    <3>2. CASE ReclaimStop
      BY <3>2 DEF Outcome, ReclaimStop
    <3>3. CASE Flush
      BY <3>3 DEF Outcome, Flush, Finish
    <3> QED
      BY <1>1, <3>1, <3>2, <3>3
  <2> QED
    BY <2>1, <2>2, <2>3, <2>4, Invisible DEF Open, Maps, Untidy
<1>2. CASE (\E t \in Frames : MapGrow(t) \/ SplitBuild(t)) \/ ReclaimUnlink
  <2>1. UNCHANGED <<root, req, untidy>> /\ pc # "drop" /\ pc' # "drop"
    BY <1>2 DEF MapGrow, SplitBuild, ReclaimUnlink, Mapping, AtLeaf, Exact
  <2>2. Leaves' = Leaves
    BY <1>2, TablesMove DEF ContentInv
  <2>3. Outcome' = Outcome
    BY <1>2 DEF Outcome, MapGrow, SplitBuild, ReclaimUnlink, Mapping, AtLeaf, Exact
  <2> QED
    BY <2>1, <2>2, <2>3, Invisible DEF Open, Maps, Untidy
<1>3. CASE DropScan \/ DropFree
  <2>1. /\ pc = "drop" /\ req' = req
        /\ \/ pc' = "drop" /\ root' = root
           \/ pc' = "idle" /\ root' = NoFrame /\ untidy' = FALSE
    <3>1. CASE DropScan
      BY <3>1 DEF DropScan, memory
    <3>2. CASE DropFree
      <4>1. CASE lvl = LEVELS
        BY <3>2, <4>1 DEF DropFree
      <4>2. CASE lvl # LEVELS
        BY <3>2, <4>2 DEF DropFree
      <4> QED
        BY <4>1, <4>2
    <3> QED
      BY <1>3, <3>1, <3>2
  <2>2. pc' = "idle" => Leaves' = {}
    <3>1. (IInv /\ root = NoFrame => Leaves = {})'
      BY NothingMapped, PTL
    <3> QED
      BY <2>1, <3>1
  <2>3. Outcome' = "none" /\ Outcome = "none"
    BY <2>1 DEF Outcome
  <2> QED
    BY <2>1, <2>2, <2>3, Invisible DEF Open, Maps, Untidy
<1> QED
  BY <1>1, <1>2, <1>3

\* Constructors and Drop.
LEMMA OpenSteps ==
  ASSUME IInv, ContentInv, (\E f \in Frames : try_new(f)) \/ adopt \/ DropStart
  PROVE  AbstractStep
<1>1. pc = "idle" /\ Outcome = "none" /\ Outcome' = "none" /\ req' = req /\ untidy \in BOOLEAN
  <2>1. pc = "idle" /\ pc' \in {"idle", "drop"} /\ req' = req
    BY DEF try_new, adopt, DropStart
  <2> QED
    BY <2>1, OutcomeIs, OutcomeAfter DEF IInv, TypeOK
<1>2. ASSUME NEW f \in Frames, try_new(f)
      PROVE  AbstractStep
  <2>1. root = NoFrame /\ root' # NoFrame /\ pc' = "idle" /\ untidy' = untidy
    BY <1>1, <1>2, FrameAssumption DEF try_new
  <2>2. Leaves' = {}
    BY <1>2, <2>1, TablesMove, NothingMapped DEF ContentInv
  <2>3. Contract!Create
    BY <1>1, <2>1, <2>2 DEF Contract!Create
  <2> QED
    BY <2>3 DEF AbstractStep, Contract!ASNext
<1>3. CASE adopt
  <2>1. root = NoFrame /\ root' # NoFrame /\ pc' = "idle" /\ untidy' = Loose
    BY <1>1, <1>3, FrameAssumption, BootAssumption DEF adopt
  <2>2. Leaves' = BootMaps
    BY <1>3, LeavesAdopted
  <2>3. Contract!Create
    BY <1>1, <2>1, <2>2 DEF Contract!Create, Loose
  <2> QED
    BY <2>3 DEF AbstractStep, Contract!ASNext
<1>4. CASE DropStart
  <2>1. root # NoFrame /\ pc' = "drop"
    BY <1>4 DEF DropStart
  <2>2. Contract!Close
    BY <1>1, <2>1 DEF Contract!Close
  <2> QED
    BY <2>2 DEF AbstractStep, Contract!ASNext
<1> QED
  BY <1>2, <1>3, <1>4

\* A size of one page is that of level 1.
LEMMA OnePageLevel ==
  ASSUME NEW n, size_is_supported(n)
  PROVE  n = 1 <=> size_to_level(n) = 1
<1>1. size_to_level(n) \in 1..LEVELS /\ Span[size_to_level(n)] = n
  BY LevelOfSize
<1>2. Span[1] = 1 /\ 1 \in 1..LEVELS
  BY GeometryAssumption, SizesAreNat
<1> QED
  BY <1>1, <1>2, SpanTells

\* The errors that a call returns because of its arguments are justified.
LEMMA ArgumentErrors ==
  ASSUME NEW r \in Calls, ArgCheck(r) # "Ok", ~NeedsCursor(r)
  PROVE  ArgCheck(r) \in Contract!Errors /\ Contract!MayRefuse(r, ArgCheck(r))
<1>1. r.op \in {"map", "remap", "protect", "unmap", "split_at", "merge_at"}
  BY CallTypes DEF Ops, ExactOps
<1>2. CASE r.op = "map"
  <2>1. ArgCheck(r) = IF r.start = r.end THEN "InvalidMappingShape" ELSE exact_leaf_size(r, r.pa)
    BY <1>2 DEF ArgCheck
  <2>2. r.start # r.end => exact_leaf_size(r, r.pa) \in Contract!Errors
    BY <1>2, <2>1 DEF NeedsCursor, exact_leaf_size, check_leaf_range, Contract!Errors
  <2> QED
    BY <1>2, <2>1, <2>2, SameOps DEF Contract!Errors, Contract!MayRefuse
<1>3. CASE r.op = "remap"
  <2>1. ArgCheck(r) = IF paddr_is_valid(r.pa) /\ vaddr_is_valid(r.start) THEN "Ok" ELSE "AddressOutOfRange"
    BY <1>3 DEF ArgCheck
  <2> QED
    BY <1>3, <2>1, SameOps DEF Contract!Errors, Contract!MayRefuse
<1>4. CASE r.op \in {"protect", "unmap", "split_at"}
  <2>1. ArgCheck(r) = IF vaddr_is_valid(r.start) THEN "Ok" ELSE "AddressOutOfRange"
    BY <1>4 DEF ArgCheck
  <2> QED
    BY <1>4, <2>1, SameOps DEF Contract!Errors, Contract!MayRefuse
<1>5. CASE r.op = "merge_at"
  <2>1. ArgCheck(r) = Contract!MergeArguments(r)
    BY <1>5, SameOps, OnePageLevel DEF ArgCheck, Contract!MergeArguments
  <2>2. ArgCheck(r) \in Contract!Errors
    BY <1>5, <2>1, SameOps DEF Contract!MergeArguments, check_leaf_range, Contract!Errors
  <2> QED
    BY <1>5, <2>1, <2>2 DEF Contract!MayRefuse
<1> QED
  BY <1>1, <1>2, <1>3, <1>4, <1>5

LEMMA CallSteps ==
  ASSUME IInv, ContentInv, (\E r \in Requests : Call(r)) \/ Return
  PROVE  AbstractStep
<1>1. /\ UNCHANGED <<mem, root, lev, cover, untidy>> /\ pc # "drop" /\ pc' # "drop"
      /\ root # NoFrame /\ child = NoFrame /\ child' = NoFrame
  <2>1. UNCHANGED <<mem, root, lev, cover, untidy>> /\ pc # "drop" /\ pc' # "drop"
    BY DEF Call, Return, memory, ghosts, Finish
  <2>2. root # NoFrame /\ child = NoFrame
    BY DEF Call, Return, IInv, RootInv, ChildInv
  <2> QED
    BY <2>1, <2>2 DEF Call, Return
<1>2. Leaves' = Leaves
  BY <1>1, LeavesSame
<1>3. ASSUME NEW r \in Requests, Call(r)
      PROVE  AbstractStep
  <2>1. r \in Calls /\ req' = r /\ Outcome = "none" /\ ~NeedsCursor(r)
    BY <1>3, RequestAssumption, OutcomeIs DEF Call
  <2>2. CASE ArgCheck(r) = "Ok"
    <3>1. Outcome' = "pending"
      BY <1>3, <2>2, OutcomeAfter DEF Call
    <3>2. Contract!Invoke(r)
      BY <1>1, <1>2, <2>1, <3>1 DEF Contract!Invoke
    <3> QED
      BY <3>2 DEF AbstractStep, Contract!ASNext
  <2>3. CASE ArgCheck(r) # "Ok"
    <3>1. Outcome' = ArgCheck(r)
      BY <1>3, <2>3, OutcomeAfter DEF Call, Finish
    <3>2. \E e \in Contract!Errors : Contract!MayRefuse(r, e) /\ Outcome' = e
      BY <2>1, <2>3, <3>1, ArgumentErrors
    <3>3. Contract!Invoke(r)
      BY <1>1, <1>2, <2>1, <3>2 DEF Contract!Invoke
    <3> QED
      BY <3>3 DEF AbstractStep, Contract!ASNext
  <2> QED
    BY <2>2, <2>3
<1>4. CASE Return
  <2>1. Outcome = ret /\ Outcome' = "none" /\ req' = NoReq /\ ret # "none" /\ ret # "pending"
    BY <1>4, OutcomeIs, OutcomeAfter DEF Return, ContentInv, CallInv, IInv, TypeOK, Results
  <2>2. Contract!Complete
    BY <1>1, <1>2, <2>1 DEF Contract!Complete, Contract!NoCall, NoReq
  <2> QED
    BY <2>2 DEF AbstractStep, Contract!ASNext
<1> QED
  BY <1>3, <1>4

\* A table goes back to the allocator, which may refuse one that was adopted.
LEMMA ReleaseIsAbstract ==
  ASSUME IInv, ContentInv, ReclaimFree \/ MergeFree
  PROVE  AbstractStep
<1>1. /\ pc = "release" /\ pc' # "drop" /\ UNCHANGED <<root, req>> /\ req.op \in {"unmap", "merge_at"}
      /\ Outcome = "Ok"
  <2>1. pc = "release" /\ UNCHANGED <<root, req>> /\ req.op \in {"unmap", "merge_at"}
    BY DEF ReclaimFree, MergeFree
  <2>2. pc' # "drop"
    BY DEF ReclaimFree, MergeFree, Finish
  <2> QED
    BY <2>1, <2>2, OutcomeIs
<1>2. Leaves' = Leaves
  BY TablesMove DEF ContentInv
<1>3. CASE CanFree(child)
  <2>1. pc' \in {"reclaim", "flush"} /\ untidy' = untidy
    BY <1>3 DEF ReclaimFree, MergeFree
  <2> QED
    BY <1>1, <1>2, <2>1, OutcomeAfter, Invisible DEF Open, Maps, Untidy
<1>4. CASE ~CanFree(child)
  <2>1. Finish("DeallocRefused") /\ untidy' = TRUE
    BY <1>4 DEF ReclaimFree, MergeFree
  <2>2. Outcome' = "DeallocRefused"
    BY <2>1, OutcomeAfter DEF Finish
  <2>3. BootFrames # {}
    <3>1. child \in Tables /\ child \in Frames /\ owner[child] # "walker"
      BY <1>1, <1>4 DEF IInv, ChildInv, Tables, CanFree
    <3>2. owner[child] = "adopted"
      BY <3>1 DEF IInv, NoLostFrame
    <3> QED
      BY <3>1, <3>2 DEF ContentInv, ForeignInv
  <2>4. Contract!ReleaseRefused
    BY <1>1, <1>2, <2>1, <2>2, <2>3 DEF Contract!ReleaseRefused
  <2> QED
    BY <2>4 DEF AbstractStep, Contract!ASNext
<1> QED
  BY <1>3, <1>4

-------------------------------------------------------------------------------
(* Effects and refusals. *)

\* What AddressSpace says of the mappings, in terms of the walker's.
LEMMA Mappings ==
  ASSUME pc # "drop"
  PROVE  /\ \A r, m : m \in Contract!ExactAt(r) <=> m \in Leaves /\ m.pages = Pages(r)
         /\ \A r, m : m \in Contract!Overlapping(r) <=> m \in Leaves /\ m.pages \cap Pages(r) # {}
         /\ \A r, p, fl : Contract!AsLeaf(r, p, fl) = [pages |-> Pages(r), pa |-> p, fl |-> fl]
BY SameOps DEF Contract!ExactAt, Contract!Overlapping, Contract!AsLeaf

\* A refusal in the middle of a walk; only a starved map leaves anything behind.
LEMMA FailIsAbstract ==
  ASSUME IInv, pc = "walk", req.op \in Ops, NEW e \in Contract!Errors, Contract!MayRefuse(req, e), Finish(e),
         UNCHANGED <<memory, ghosts, req, locals>>,
         \/ untidy' = untidy /\ ~(req.op = "map" /\ e \in {"OutOfMemory", "NotAligned"})
         \/ untidy' = TRUE /\ req.op = "map" /\ e \in {"OutOfMemory", "NotAligned"}
  PROVE  AbstractStep
<1>1. UNCHANGED <<mem, root, lev, cover, child>> /\ pc' = "return" /\ ret' = e
  BY DEF memory, ghosts, locals, Finish
<1>2. Leaves' = Leaves /\ Outcome = "pending" /\ Outcome' = e
  BY <1>1, LeavesSame, OutcomeIs, OutcomeAfter
<1>3. untidy \in BOOLEAN
  BY DEF IInv, TypeOK
<1>4. UNCHANGED <<Open, Maps, req>>
  BY <1>1, <1>2 DEF Open, Maps
<1>5. Untidy' = (Untidy \/ (req.op = "map" /\ e \in {"OutOfMemory", "NotAligned"}))
  BY <1>1, <1>3 DEF Untidy
<1> QED
  BY <1>2, <1>4, <1>5, IsRefused

\* A store that takes effect.
LEMMA EffectIsAbstract ==
  ASSUME IInv, pc \in {"walk", "swap"}, UNCHANGED <<root, req, untidy>>,
         pc' \in {"reclaim", "release", "flush"}, Leaves' \in Contract!Effects(req)
  PROVE  AbstractStep
<1>1. Outcome = "pending" /\ Outcome' = "Ok"
  BY OutcomeIs, OutcomeAfter
<1>2. UNCHANGED <<Open, req, Untidy>> /\ Maps' = Leaves'
  BY DEF Open, Untidy, Maps
<1> QED
  BY <1>1, <1>2, TakesEffect

\* An entry of no legal kind justifies every refusal that names it.
LEMMA InvalidIsDamage ==
  ASSUME IInv, ContentInv, NEW f \in Frames, NEW i \in Slots, mem[f][i].kind = "invalid"
  PROVE  Damaged
<1>1. mem[f][i] \in Entries
  BY DEF IInv, TypeOK
<1>2. mem[f][i] = Invalid
  BY <1>1, EntryKinds DEF Entries, Unused, Invalid
<1> QED
  BY <1>2 DEF ContentInv, DamageInv

-------------------------------------------------------------------------------
(* map. *)

\* In a tree without needless tables and damaged entries something is mapped below
\* every table under the slot.
LEMMA MappedBelow ==
  ASSUME IInv, ContentInv, pc = "walk", ~untidy, ~Damaged
  PROVE  \A f \in Linked : lev[f] < lvl => \E m \in Leaves : m.pages \cap cover[f] # {}
<1> DEFINE P(l) == \A f \in Linked : lev[f] = l /\ l < lvl => \E m \in Leaves : m.pages \cap cover[f] # {}
<1>1. /\ lev[cur] = lvl /\ lvl \in 1..LEVELS /\ lvl \in Int /\ LEVELS \in Nat /\ LEVELS >= 1
      /\ lev[root] = LEVELS /\ child = NoFrame
      /\ \A f \in Linked : f \in Frames /\ f \in Tables /\ lev[f] \in 1..LEVELS
  BY AtSlot, WalkFacts, SizesAreNat DEF IInv, TypeOK, Linked, Tables
\* Each such table has an entry: a leaf, or a table of the next level.
<1>2. ASSUME NEW f \in Linked, lev[f] < lvl
      PROVE  \E i \in Slots : \/ mem[f][i].kind = "leaf"
                              \/ mem[f][i].kind = "table"
  <2>1. f # cur /\ f # root
    BY <1>1, <1>2
  <2>2. ~is_table_empty(f)
    BY <1>1, <2>1 DEF ContentInv, TightInv
  <2>3. PICK i \in Slots : mem[f][i].kind # "none"
    BY <2>2 DEF is_table_empty, is_present
  <2>4. mem[f][i].kind # "invalid"
    BY <1>1, <2>3, InvalidIsDamage
  <2>5. mem[f][i] \in Entries
    BY <1>1 DEF IInv, TypeOK
  <2> QED
    BY <2>3, <2>4, <2>5, EntryKinds
<1>3. ASSUME NEW f \in Linked, NEW i \in Slots, mem[f][i].kind = "leaf"
      PROVE  \E m \in Leaves : m.pages \cap cover[f] # {}
  <2>1. LeafAt(f, i) \in Leaves /\ LeafAt(f, i).pages = SlotCover(f, i)
    BY <1>3, LeavesAre DEF LeafAt
  <2>2. SlotCover(f, i) # {}
    BY <1>1, <1>3 DEF ContentInv, UsedInv
  <2> QED
    BY <2>1, <2>2 DEF SlotCover
<1>4. ASSUME NEW f \in Linked, NEW i \in Slots, mem[f][i].kind = "table"
      PROVE  LET t == mem[f][i].to IN t \in Linked /\ lev[t] = lev[f] - 1 /\ cover[t] \subseteq cover[f]
  <2>1. Links(f, i)
    BY <1>1, <1>4, LinksOutsideDrop
  <2> QED
    BY <1>1, <2>1 DEF IInv, NoDanglingTable, SlotCover
<1>5. P(1)
  <2> SUFFICES ASSUME NEW f \in Linked, lev[f] = 1, 1 < lvl
               PROVE  \E m \in Leaves : m.pages \cap cover[f] # {}
    OBVIOUS
  <2>1. PICK i \in Slots : mem[f][i].kind = "leaf" \/ mem[f][i].kind = "table"
    BY <1>2
  <2>2. mem[f][i].kind # "table"
    BY <1>1, <1>4
  <2> QED
    BY <1>3, <2>1, <2>2
<1>6. ASSUME NEW l \in 1..LEVELS-1, P(l)
      PROVE  P(l + 1)
  <2> SUFFICES ASSUME NEW f \in Linked, lev[f] = l + 1, l + 1 < lvl
               PROVE  \E m \in Leaves : m.pages \cap cover[f] # {}
    OBVIOUS
  <2>1. PICK i \in Slots : mem[f][i].kind = "leaf" \/ mem[f][i].kind = "table"
    BY <1>2
  <2>2. CASE mem[f][i].kind = "table"
    <3>1. mem[f][i].to \in Linked /\ lev[mem[f][i].to] = l /\ cover[mem[f][i].to] \subseteq cover[f] /\ l < lvl
      BY <1>1, <1>4, <2>2
    <3>2. \E m \in Leaves : m.pages \cap cover[mem[f][i].to] # {}
      BY <1>6, <3>1
    <3> QED
      BY <3>1, <3>2
  <2> QED
    BY <1>3, <2>1, <2>2
<1> HIDE DEF P
<1>7. LEVELS \in 1..6
  BY GeometryAssumption DEF MAX_LEVELS
<1>8. \A l \in 1..LEVELS : P(l)
  BY <1>5, <1>6, <1>7
<1> QED
  BY <1>1, <1>8 DEF P

\* At the target level the slot serves exactly the range.
LEMMA TargetPages ==
  ASSUME IInv, ContentInv, pc = "walk", req.op \in {"map", "merge_at"}
  PROVE  /\ lvl \in Int /\ TargetLevel \in 1..LEVELS /\ TargetLevel <= lvl
         /\ TargetLevel \in LeafLevels /\ Span[TargetLevel] = Size(req)
         /\ req.start % Size(req) = 0 /\ req.start \in Pages(req)
         /\ lvl = TargetLevel => SlotCover(cur, Idx) = Pages(req)
<1>1. req.op \in Ops /\ req \in Calls /\ ArgCheck(req) = "Ok" /\ lvl >= TargetLevel
  BY CallInProgress DEF Ops, ContentInv, CallInv
<1>2. /\ TargetLevel \in 1..LEVELS /\ TargetLevel \in LeafLevels /\ Span[TargetLevel] = Size(req)
      /\ req.start % Size(req) = 0
  BY <1>1, LeafArguments DEF TargetLevel
<1>3. Span[TargetLevel] \in Int /\ Span[TargetLevel] > 0 /\ lvl \in Int /\ TargetLevel \in Int
      /\ req.start \in Int /\ req.end \in Int
  BY <1>1, <1>2, SpanFacts, RangeTypes
<1>4. req.start \in Pages(req)
  BY <1>2, <1>3 DEF Pages, Size
<1>5. lvl = TargetLevel => SlotCover(cur, Idx) = Pages(req)
  BY <1>1, <1>2, RangeIsSlot
<1> QED
  BY <1>1, <1>2, <1>3, <1>4, <1>5

LEMMA MapIsAbstract ==
  ASSUME IInv, ContentInv, MapRefuse \/ MapInstall \/ \E e \in AllocErrors : MapStarve(e)
  PROVE  AbstractStep
<1>1. pc = "walk" /\ req.op = "map" /\ req.op \in Ops
  BY DEF MapRefuse, MapInstall, MapStarve, Mapping, Ops
<1>2. /\ cur \in Frames /\ cur \in Linked /\ Idx \in Slots /\ Slot = mem[cur][Idx] /\ Slot \in Entries
      /\ lev[cur] = lvl /\ req.start \in SlotCover(cur, Idx)
  BY <1>1, AtSlot DEF Slot
<1>3. /\ lvl \in Int /\ TargetLevel \in Int /\ TargetLevel <= lvl /\ req.start \in Pages(req)
      /\ lvl = TargetLevel => SlotCover(cur, Idx) = Pages(req)
  BY <1>1, TargetPages
<1>4. Slot.kind = "leaf" => Contract!Overlapping(req) # {}
  <2> SUFFICES ASSUME Slot.kind = "leaf" PROVE Contract!Overlapping(req) # {}
    OBVIOUS
  <2>1. LeafAt(cur, Idx) \in Leaves /\ LeafAt(cur, Idx).pages = SlotCover(cur, Idx)
    BY <1>2, LeavesAre DEF LeafAt
  <2>2. LeafAt(cur, Idx).pages \cap Pages(req) # {}
    BY <1>2, <1>3, <2>1
  <2> QED
    BY <1>1, <2>1, <2>2, Mappings
<1>5. Slot.kind = "invalid" => Damaged
  BY <1>2, InvalidIsDamage
<1>6. CASE MapRefuse
  <2>1. PICK e \in {"AlreadyMapped", "InvalidEntryKind"} :
          /\ Fail(e)
          /\ e = "InvalidEntryKind" => Slot.kind = "invalid"
          /\ e = "AlreadyMapped" => Slot.kind = "leaf" \/ (lvl = TargetLevel /\ Slot.kind # "none")
    BY <1>6 DEF MapRefuse, is_present
  <2>2. e = "AlreadyMapped" => Contract!Overlapping(req) # {} \/ untidy \/ Damaged
    <3> SUFFICES ASSUME lvl = TargetLevel, Slot.kind = "table", ~untidy, ~Damaged
                 PROVE  Contract!Overlapping(req) # {}
      BY <1>2, <1>4, <1>5, <2>1, EntryKinds
    <3>1. Slot.to \in Linked /\ lev[Slot.to] = lvl - 1 /\ cover[Slot.to] = Pages(req)
      BY <1>1, <1>3, NextTable
    <3>2. lev[Slot.to] < lvl
      BY <1>3, <3>1
    <3>3. \E m \in Leaves : m.pages \cap Pages(req) # {}
      BY <1>1, <3>1, <3>2, MappedBelow
    <3> QED
      BY <1>1, <3>3, Mappings
  <2>3. Contract!MayRefuse(req, e)
    BY <1>1, <1>5, <2>1, <2>2 DEF Contract!MayRefuse
  <2>4. e \in Contract!Errors
    BY <2>1 DEF Contract!Errors
  <2> QED
    BY <1>1, <2>1, <2>3, <2>4, FailIsAbstract DEF Fail
<1>7. ASSUME NEW e \in AllocErrors, MapStarve(e)
      PROVE  AbstractStep
  <2>1. e \in {"OutOfMemory", "NotAligned"}
    BY <1>7 DEF AllocErrors
  <2>2. Contract!MayRefuse(req, e) /\ e \in Contract!Errors
    BY <1>1, <2>1 DEF Contract!MayRefuse, Contract!Errors
  <2> QED
    BY <1>1, <1>7, <2>1, <2>2, FailIsAbstract DEF MapStarve
<1>8. CASE MapInstall
  <2> DEFINE new == [pages |-> Pages(req), pa |-> req.pa, fl |-> req.fl]
  <2>1. /\ lvl = TargetLevel /\ Slot.kind = "none" /\ WriteSlot(Leaf(req.pa, req.fl)) /\ pc' = "flush"
        /\ UNCHANGED <<lev, cover, child, root, req, untidy>>
    BY <1>8 DEF MapInstall, is_present, ghosts, locals
  <2>2. Leaves' = Leaves \cup {new}
    <3>1. Leaf(req.pa, req.fl).kind = "leaf" /\ Leaf(req.pa, req.fl).pa = req.pa /\ Leaf(req.pa, req.fl).fl = req.fl
      BY DEF Leaf
    <3>2. Leaves' = (Leaves \ {}) \cup {[pages |-> SlotCover(cur, Idx), pa |-> req.pa, fl |-> req.fl]}
      BY <1>1, <2>1, <3>1, LeavesWritten DEF ContentInv
    <3> QED
      BY <1>3, <2>1, <3>2
  <2>3. Contract!Overlapping(req) = {}
    <3> SUFFICES ASSUME NEW m \in Leaves, NEW v \in m.pages, v \in Pages(req)
                 PROVE  FALSE
      BY <1>1, Mappings
    <3>1. v \in cover[cur] /\ index_at(lev[cur], v) = Idx
      BY <1>3, <2>1 DEF SlotCover
    <3> QED
      BY <1>1, <1>2, <2>1, <3>1, OneLeaf
  <2>4. exact_leaf_size(req, req.pa) = "Ok"
    BY <1>1 DEF ContentInv, CallInv, ArgCheck
  <2>5. Leaves' \in Contract!Effects(req)
    <3>1. Contract!Effects(req) = {Leaves \cup {new}}
      BY <1>1, <2>3, <2>4, Mappings, SameOps DEF Contract!Effects
    <3> QED
      BY <2>2, <3>1
  <2> QED
    BY <1>1, <2>1, <2>5, EffectIsAbstract
<1> QED
  BY <1>6, <1>7, <1>8

-------------------------------------------------------------------------------
(* remap, protect, unmap and split_at. *)

\* At the end of the descent the mapping of exactly the range is the leaf in the slot,
\* if that covers exactly the range, and otherwise there is none.
LEMMA ExactLeaf ==
  ASSUME IInv, ContentInv, pc \in {"walk", "swap"}, req.op \in Ops, Slot.kind # "table"
  PROVE  \A m : m \in Contract!ExactAt(req) <=>
           Slot.kind = "leaf" /\ SlotCover(cur, Idx) = Pages(req) /\ m = LeafAt(cur, Idx)
<1>1. cur \in Linked /\ Idx \in Slots /\ Slot = mem[cur][Idx]
  BY AtSlot DEF Slot
<1>2. \A m : m \in Contract!ExactAt(req) <=> m \in Leaves /\ m.pages = Pages(req)
  BY Mappings
<1>3. ASSUME NEW m \in Leaves, m.pages = Pages(req)
      PROVE  Slot.kind = "leaf" /\ m = LeafAt(cur, Idx)
  <2>1. req.start \in Int /\ req.end \in Int
    BY RangeTypes
  <2>2. Pages(req) # {}
    BY <1>3, MappedAt
  <2>3. req.start \in Pages(req)
    BY <2>1, <2>2 DEF Pages
  <2> QED
    BY <1>3, <2>3, LeafOfStart
<1>4. Slot.kind = "leaf" => LeafAt(cur, Idx) \in Leaves
  BY <1>1, LeavesAre
<1>5. LeafAt(cur, Idx).pages = SlotCover(cur, Idx)
  BY DEF LeafAt
<1> QED
  BY <1>2, <1>3, <1>4, <1>5

\* A leaf is at a level that supports leaves; so is the level below it.
LEMMA LeafLevelNamed ==
  ASSUME IInv, ContentInv, pc \in {"walk", "swap"}, Slot.kind = "leaf"
  PROVE  Span[lvl] \in NamedSizes /\ (lvl # 1 => Span[lvl-1] \in NamedSizes)
<1>1. lvl \in LeafLevels /\ lvl \in 1..LEVELS
  BY AtSlot DEF ContentInv, LeavesEncodable, Slot, Linked
<1> QED
  BY <1>1, GeometryAssumption

\* The errors that these operations return at the leaf are justified.
LEMMA LeafErrors ==
  ASSUME IInv, ContentInv, Exact, Slot.kind = "leaf", LeafCheck # "Ok"
  PROVE  LeafCheck \in Contract!Errors /\ Contract!MayRefuse(req, LeafCheck)
<1> DEFINE C == SlotCover(cur, Idx)
           a == leaf_start(req.start, lvl)
<1>1. pc = "walk" /\ req.op \in ExactOps /\ req.op \in Ops
  BY DEF Exact, Ops
<1>2. /\ req.start \in Int /\ req.end \in Int /\ a \in Int /\ lvl \in 1..LEVELS /\ Span[lvl] \in Int
      /\ Span[lvl] > 0 /\ C = a .. a + Span[lvl] - 1 /\ req.start \in C
  BY <1>1, RangeTypes, SlotRange
<1>3. /\ Span[lvl] \in NamedSizes /\ (lvl # 1 => Span[lvl-1] \in NamedSizes)
  BY <1>1, LeafLevelNamed
<1>4. \A m : m \in Contract!ExactAt(req) <=> C = Pages(req) /\ m = LeafAt(cur, Idx)
  BY <1>1, ExactLeaf
<1>5. C # Pages(req) => Contract!ExactAt(req) = {}
  BY <1>4
<1>6. leaf_range(req.start, lvl) = [start |-> req.start, end |-> req.end] <=> C = Pages(req)
  BY <1>1, RangeIsSlot
<1>7. C = Pages(req) => Size(req) = Span[lvl]
  BY <1>1, RangeIsSlot
<1> HIDE DEF C
<1>8. CASE req.op = "split_at" /\ lvl = 1
  <2>1. LeafCheck = "NotMapped"
    BY <1>8 DEF LeafCheck
  <2>2. Span[1] = 1
    BY GeometryAssumption
  <2>3. Contract!ExactAt(req) = {} \/ Size(req) = 1
    BY <1>5, <1>7, <1>8, <2>2
  <2> QED
    BY <1>8, <2>1, <2>3, SameOps DEF Contract!MayRefuse, Contract!Errors
<1>9. CASE ~(req.op = "split_at" /\ lvl = 1) /\ ~leaf_range_exists(req.start, lvl)
  <2>1. LeafCheck = "AddressOutOfRange"
    BY <1>3, <1>9 DEF LeafCheck
  <2>2. C \subseteq 0..UMAX-1
    <3>1. cover[cur] \subseteq ValidPages
      BY <1>1, AtSlot DEF IInv, TypeOK
    <3> QED
      BY <3>1 DEF C, SlotCover, ValidPages
  <2>3. a + Span[lvl] - 1 \in C /\ a + Span[lvl] >= UMAX /\ UMAX \in Int
    <3>1. UMAX \in Int
      BY GeometryAssumption
    <3>2. a + Span[lvl] >= UMAX
      BY <1>2, <1>9, <3>1 DEF leaf_range_exists
    <3>3. a + Span[lvl] - 1 \in C
      BY <1>2
    <3> QED
      BY <3>1, <3>2, <3>3
  <2>4. UMAX - 1 \in C
    <3>1. a + Span[lvl] - 1 <= UMAX - 1
      <4>1. a + Span[lvl] - 1 \in 0 .. UMAX - 1
        BY <2>2, <2>3
      <4> QED
        BY <4>1
    <3>2. a + Span[lvl] - 1 = UMAX - 1
      BY <1>2, <2>3, <3>1
    <3> QED
      BY <2>3, <3>2
  <2>5. LeafAt(cur, Idx) \in Leaves /\ LeafAt(cur, Idx).pages = C
    BY <1>1, AtSlot, LeavesAre DEF Slot, LeafAt, C
  <2>6. {req.start, UMAX - 1} \subseteq LeafAt(cur, Idx).pages
    BY <1>2, <2>4, <2>5
  <2> QED
    BY <1>1, <2>1, <2>5, <2>6 DEF Contract!MayRefuse, Contract!Errors, ExactOps
<1>10. CASE /\ ~(req.op = "split_at" /\ lvl = 1) /\ leaf_range_exists(req.start, lvl)
            /\ C # Pages(req)
  <2>1. LeafCheck = "NotMapped"
    BY <1>3, <1>6, <1>10 DEF LeafCheck
  <2> QED
    BY <1>1, <1>5, <1>10, <2>1 DEF Contract!MayRefuse, Contract!Errors, ExactOps
<1>11. CASE /\ ~(req.op = "split_at" /\ lvl = 1) /\ leaf_range_exists(req.start, lvl)
            /\ C = Pages(req)
  <2>1. LeafCheck = "NotAligned" /\ req.op = "remap" /\ req.pa % Span[lvl] # 0
    BY <1>3, <1>6, <1>11 DEF LeafCheck
  <2>2. LeafAt(cur, Idx) \in Contract!ExactAt(req) /\ req.pa % Size(req) # 0
    BY <1>4, <1>7, <1>11, <2>1
  <2> QED
    BY <2>1, <2>2, SameOps DEF Contract!MayRefuse, Contract!Errors
<1> QED
  BY <1>8, <1>9, <1>10, <1>11

LEMMA ExactRefusals ==
  ASSUME IInv, ContentInv, ExactRefuse \/ \E e \in AllocErrors : SplitStarve(e)
  PROVE  AbstractStep
<1>1. pc = "walk" /\ req.op \in ExactOps /\ req.op \in Ops /\ req.op # "map"
  BY DEF ExactRefuse, SplitStarve, AtLeaf, Exact, Ops, ExactOps
<1>2. cur \in Frames /\ Idx \in Slots /\ Slot = mem[cur][Idx]
  BY <1>1, AtSlot DEF Slot
<1>3. \A e \in Contract!Errors : Contract!MayRefuse(req, e) /\ Fail(e) => AbstractStep
  BY <1>1, FailIsAbstract DEF Fail
<1>4. CASE Slot.kind = "none" /\ Fail("NotMapped")
  <2>1. Contract!ExactAt(req) = {}
    BY <1>1, <1>4, ExactLeaf
  <2> QED
    BY <1>1, <1>3, <1>4, <2>1 DEF Contract!MayRefuse, Contract!Errors, ExactOps
<1>5. CASE Slot.kind = "invalid" /\ Fail("InvalidEntryKind")
  <2>1. Damaged
    BY <1>2, <1>5, InvalidIsDamage
  <2> QED
    BY <1>3, <1>5, <2>1 DEF Contract!MayRefuse, Contract!Errors
<1>6. CASE Slot.kind = "leaf" /\ LeafCheck # "Ok" /\ Fail(LeafCheck) /\ Exact
  BY <1>3, <1>6, LeafErrors
<1>7. ASSUME NEW e \in AllocErrors, SplitStarve(e)
      PROVE  AbstractStep
  BY <1>1, <1>3, <1>7 DEF SplitStarve, AtLeaf, AllocErrors, Contract!MayRefuse, Contract!Errors
<1> QED
  BY <1>4, <1>5, <1>6, <1>7 DEF ExactRefuse, is_present

\* remap, protect and unmap change the mapping of exactly their range.
LEMMA ExactEffects ==
  ASSUME IInv, ContentInv, Rewrite \/ UnmapClear
  PROVE  AbstractStep
<1> DEFINE old == LeafAt(cur, Idx)
<1>1. /\ pc = "walk" /\ req.op \in {"remap", "protect", "unmap"} /\ req.op \in Ops
      /\ Slot.kind = "leaf" /\ LeafCheck = "Ok"
      /\ pc' \in {"reclaim", "flush"} /\ UNCHANGED <<lev, cover, child, root, req, untidy>>
  BY DEF Rewrite, UnmapClear, AtLeaf, Exact, ghosts, locals, Ops, ExactOps
<1>2. cur \in Linked /\ Idx \in Slots /\ Slot = mem[cur][Idx]
  BY <1>1, AtSlot DEF Slot
<1>3. leaf_range(req.start, lvl) = [start |-> req.start, end |-> req.end]
  BY <1>1, LeafLevelNamed DEF LeafCheck
<1>4. SlotCover(cur, Idx) = Pages(req) /\ Size(req) = Span[lvl]
  BY <1>1, <1>3, RangeIsSlot
<1>5. old \in Contract!ExactAt(req) /\ old.pa = Slot.pa
  BY <1>1, <1>2, <1>4, ExactLeaf DEF LeafAt
<1>6. ASSUME NEW e, e.kind # "table", WriteSlot(e)
      PROVE  Leaves' = (Leaves \ {old}) \cup
                       (IF e.kind = "leaf" THEN {Contract!AsLeaf(req, e.pa, e.fl)} ELSE {})
  <2>1. Leaves' = (Leaves \ {old}) \cup
                  (IF e.kind = "leaf" THEN {[pages |-> SlotCover(cur, Idx), pa |-> e.pa, fl |-> e.fl]} ELSE {})
    BY <1>1, <1>6, LeavesWritten DEF ContentInv
  <2>2. Contract!AsLeaf(req, e.pa, e.fl) = [pages |-> Pages(req), pa |-> e.pa, fl |-> e.fl]
    BY <1>1, Mappings
  <2> QED
    BY <1>4, <2>1, <2>2
<1>7. \A p, fl : Leaf(p, fl).kind = "leaf" /\ Leaf(p, fl).pa = p /\ Leaf(p, fl).fl = fl
  BY DEF Leaf
<1> HIDE DEF old
<1>8. CASE req.op = "remap"
  <2>1. WriteSlot(Leaf(req.pa, req.fl))
    BY <1>1, <1>8 DEF Rewrite, UnmapClear, AtLeaf
  <2>2. Leaves' = (Leaves \ {old}) \cup {Contract!AsLeaf(req, req.pa, req.fl)}
    BY <1>6, <1>7, <2>1
  <2>3. paddr_is_valid(req.pa)
    BY <1>1, <1>8 DEF ContentInv, CallInv, ArgCheck
  <2>4. req.pa % Size(req) = 0
    BY <1>1, <1>3, <1>4, <1>8 DEF LeafCheck
  <2>5. Leaves' \in Contract!Effects(req)
    BY <1>1, <1>5, <1>8, <2>2, <2>3, <2>4, SameOps DEF Contract!Effects
  <2> QED
    BY <1>1, <2>5, EffectIsAbstract
<1>9. CASE req.op = "protect"
  <2>1. WriteSlot(Leaf(Slot.pa, req.fl))
    BY <1>1, <1>9 DEF Rewrite, UnmapClear, AtLeaf
  <2>2. Leaves' = (Leaves \ {old}) \cup {Contract!AsLeaf(req, Slot.pa, req.fl)}
    BY <1>6, <1>7, <2>1
  <2>3. Leaves' \in Contract!Effects(req)
    BY <1>1, <1>5, <1>9, <2>2 DEF Contract!Effects
  <2> QED
    BY <1>1, <2>3, EffectIsAbstract
<1>10. CASE req.op = "unmap"
  <2>1. WriteSlot(Unused) /\ Unused.kind = "none"
    BY <1>1, <1>10 DEF Rewrite, UnmapClear, AtLeaf, Unused
  <2>2. Leaves' = Leaves \ {old}
    BY <1>6, <2>1
  <2>3. Leaves' \in Contract!Effects(req)
    BY <1>1, <1>5, <1>10, <2>2 DEF Contract!Effects
  <2> QED
    BY <1>1, <2>3, EffectIsAbstract
<1> QED
  BY <1>1, <1>8, <1>9, <1>10

\* The i-th of the E ranges of the next level in the range of the call.
PieceAt(i, p, fl) ==
  [pages |-> req.start + i * Span[lvl-1] .. req.start + (i + 1) * Span[lvl-1] - 1,
   pa |-> p + i * Span[lvl-1], fl |-> fl]

LEMMA PiecesAre ==
  ASSUME lvl \in 2..LEVELS, Size(req) = Span[lvl]
  PROVE  \A p, fl, m : m \in Contract!Pieces(req, p, fl) <=> \E i \in Slots : m = PieceAt(i, p, fl)
<1>1. lvl - 1 \in 1..LEVELS-1 /\ (lvl - 1) + 1 = lvl
  BY SizesAreNat
<1>2. Span[lvl] = E * Span[lvl-1] /\ Span[lvl-1] \in Int /\ Span[lvl-1] > 0
  BY <1>1, SpanFacts
<1>3. Span[lvl] \div E = Span[lvl-1]
  <2>1. (E * Span[lvl-1] + 0) \div E = Span[lvl-1]
    BY <1>2, SizesAreNat, DivUnique
  <2> QED
    BY <1>2, <2>1, SizesAreNat
<1>4. Contract!Size(req) \div E = Span[lvl-1]
  BY <1>3, SameOps
<1> QED
  BY <1>4, SameOps DEF Contract!Pieces, PieceAt

\* The entries of the table that serves the range have these pages.
LEMMA PiecePages ==
  ASSUME IInv, ContentInv, pc \in {"walk", "swap"}, req.op \in Ops, lvl > 1,
         SlotCover(cur, Idx) = Pages(req), NEW t, t \in Frames, lev[t] = lvl - 1, cover[t] = SlotCover(cur, Idx),
         NEW i \in Slots
  PROVE  LET b == req.start + i * Span[lvl-1] IN
         /\ b \in cover[t] /\ index_at(lvl - 1, b) = i
         /\ SlotCover(t, i) = b .. req.start + (i + 1) * Span[lvl-1] - 1
<1>1. /\ req.start \in Int /\ lvl \in Int /\ lvl \in 1..LEVELS /\ leaf_start(req.start, lvl) = req.start
      /\ lev[cur] = lvl /\ cur \in Linked /\ req.start \in cover[cur] /\ req.start \in cover[t]
      /\ Idx = index_at(lvl, req.start)
  BY RangeTypes, RangeIsSlot, AtSlot DEF Idx
<1>2. lvl - 1 \in 1..LEVELS-1 /\ (lvl - 1) + 1 = lvl
  BY <1>1, SizesAreNat
<1>3. Block(cover[cur], lvl) /\ cover[cur] \in SUBSET ValidPages
  BY <1>1, TableBlock DEF ContentInv
<1>4. cover[t] = {w \in cover[cur] : index_at(lvl, w) = index_at(lvl, req.start)}
  BY <1>1 DEF SlotCover
<1>5. Block(cover[t], lvl - 1) /\ cover[t] \in SUBSET ValidPages
  BY <1>1, <1>3, <1>4, BlockBelow
<1>6. LET b == leaf_start(req.start, (lvl - 1) + 1) + i * Span[lvl-1] IN
      /\ b \in cover[t] /\ b \in Nat /\ index_at(lvl - 1, b) = i
      /\ {w \in cover[t] : index_at(lvl - 1, w) = i} = b .. b + Span[lvl-1] - 1
  BY <1>1, <1>2, <1>5, EntryRange
<1> DEFINE s == Span[lvl-1]
           b == req.start + i * s
<1>7. /\ b \in cover[t] /\ b \in Nat /\ index_at(lvl - 1, b) = i
      /\ SlotCover(t, i) = b .. b + s - 1
  BY <1>1, <1>2, <1>6 DEF SlotCover
<1>8. s \in Int /\ i \in Int
  BY <1>2, SpanFacts DEF Slots
<1> HIDE DEF s
<1>9. b + s - 1 = req.start + (i + 1) * s - 1
  <2>1. (i + 1) * s = i * s + s /\ i * s \in Int
    BY <1>8
  <2> QED
    BY <1>1, <1>8, <2>1
<1> QED
  BY <1>7, <1>9 DEF s

\* The entries of that table are the pieces, if they hold leaves with the right bases.
LEMMA PieceLeaf ==
  ASSUME IInv, ContentInv, pc \in {"walk", "swap"}, req.op \in Ops, lvl > 1,
         SlotCover(cur, Idx) = Pages(req), NEW t, t \in Frames, lev[t] = lvl - 1, cover[t] = SlotCover(cur, Idx),
         NEW i \in Slots, NEW p, NEW fl, mem[t][i] = Leaf(p + i * Span[lvl-1], fl)
  PROVE  LeafAt(t, i) = PieceAt(i, p, fl)
<1> DEFINE s == Span[lvl-1]
<1>1. SlotCover(t, i) = req.start + i * s .. req.start + (i + 1) * s - 1
  BY PiecePages
<1>2. mem[t][i].pa = p + i * s /\ mem[t][i].fl = fl
  BY DEF Leaf
<1> HIDE DEF s
<1> QED
  BY <1>1, <1>2 DEF LeafAt, PieceAt, s

LEMMA SplitIsAbstract ==
  ASSUME IInv, ContentInv, SplitSwap
  PROVE  AbstractStep
<1> DEFINE old == LeafAt(cur, Idx)
<1>1. /\ pc = "swap" /\ req.op = "split_at" /\ req.op \in Ops /\ LeafCheck = "Ok"
      /\ pc' = "flush" /\ UNCHANGED <<root, req, untidy>>
      /\ \A i \in Slots : mem[child][i] = Leaf(Slot.pa + i * Span[lvl-1], Slot.fl)
  BY DEF SplitSwap, ContentInv, CallInv, Ops, ExactOps
<1>2. /\ cur \in Linked /\ Idx \in Slots /\ Slot = mem[cur][Idx] /\ Slot.kind = "leaf"
      /\ child \in Frames /\ lev[child] = lvl - 1 /\ cover[child] = SlotCover(cur, Idx)
  BY <1>1, AtSlot DEF Slot, IInv, ChildInv, Tables
<1>3. leaf_range(req.start, lvl) = [start |-> req.start, end |-> req.end] /\ lvl # 1
  BY <1>1, <1>2, LeafLevelNamed DEF LeafCheck
<1>4. SlotCover(cur, Idx) = Pages(req) /\ Size(req) = Span[lvl]
  BY <1>1, <1>3, RangeIsSlot
<1>5. old \in Contract!ExactAt(req) /\ old.pa = Slot.pa /\ old.fl = Slot.fl
  BY <1>1, <1>2, <1>4, ExactLeaf DEF LeafAt
<1>6. lvl \in 1..LEVELS /\ lvl \in Int /\ lvl > 1 /\ lvl \in 2..LEVELS /\ 1 \in 1..LEVELS
  BY <1>1, <1>3, RangeTypes, SizesAreNat
<1>7. Size(req) > 1
  <2>1. Span[1] = 1 /\ Span[1] < Span[lvl] /\ Span[lvl] \in Int
    BY <1>6, SpanGrows, GeometryAssumption
  <2> QED
    BY <1>4, <2>1
<1>8. \A i \in Slots : LeafAt(child, i) = PieceAt(i, Slot.pa, Slot.fl)
  BY <1>1, <1>2, <1>4, <1>6, PieceLeaf
<1>9. \A m : m \in Contract!Pieces(req, Slot.pa, Slot.fl) <=> \E i \in Slots : m = PieceAt(i, Slot.pa, Slot.fl)
  BY <1>4, <1>6, PiecesAre
<1>10. \A m : m \in Leaves' <=>
         (m \in Leaves /\ m # old) \/ \E i \in Slots : m = LeafAt(child, i)
  BY LeavesSplit DEF ContentInv
<1> HIDE DEF old
<1>11. Leaves' = (Leaves \ {old}) \cup Contract!Pieces(req, old.pa, old.fl)
  BY <1>5, <1>8, <1>9, <1>10
<1>12. Leaves' \in Contract!Effects(req)
  <2>1. old \in {x \in Contract!ExactAt(req) : Contract!Size(req) > 1}
    BY <1>5, <1>7, SameOps
  <2>2. Leaves' \in {(Leaves \ {m}) \cup Contract!Pieces(req, m.pa, m.fl) :
                       m \in {x \in Contract!ExactAt(req) : Contract!Size(req) > 1}}
    BY <1>11, <2>1
  <2> QED
    BY <1>1, <2>2 DEF Contract!Effects
<1> QED
  BY <1>1, <1>12, EffectIsAbstract

-------------------------------------------------------------------------------
(* merge_at. *)

\* What merge_at has checked of its arguments.
LEMMA MergeFacts ==
  ASSUME IInv, ContentInv, Merging
  PROVE  /\ pc = "walk" /\ req.op = "merge_at" /\ req.op \in Ops /\ req.op # "map" /\ pc # "drop"
         /\ lvl \in Int /\ TargetLevel \in Int /\ TargetLevel \in 1..LEVELS /\ TargetLevel > 1 /\ lvl >= TargetLevel
         /\ lvl \in 2..LEVELS /\ Contract!MergeArguments(req) = "Ok"
         /\ Span[TargetLevel] \in NamedSizes /\ Span[TargetLevel-1] \in NamedSizes
<1>1. pc = "walk" /\ req.op = "merge_at" /\ req.op \in Ops /\ req.op # "map" /\ pc # "drop"
  BY DEF Merging, Ops
<1>2. req \in Calls /\ ArgCheck(req) = "Ok"
  BY <1>1, CallInProgress DEF ContentInv, CallInv
<1>3. /\ lvl \in Int /\ TargetLevel \in Int /\ TargetLevel \in 1..LEVELS /\ lvl >= TargetLevel
      /\ TargetLevel \in LeafLevels
  BY <1>1, TargetPages
<1>4. TargetLevel > 1
  BY <1>1, <1>2, LeafArguments DEF TargetLevel
<1>5. lvl \in 2..LEVELS
  BY <1>1, <1>3, <1>4, AtSlot
<1>6. Contract!MergeArguments(req) = "Ok"
  BY <1>1, <1>2, SameOps, OnePageLevel DEF ArgCheck, Contract!MergeArguments
<1>7. Span[TargetLevel] \in NamedSizes /\ Span[TargetLevel-1] \in NamedSizes
  BY <1>3, <1>4, GeometryAssumption
<1> QED
  BY <1>1, <1>3, <1>4, <1>5, <1>6, <1>7

\* The mappings inside the range are those of the table behind the slot.
LEMMA MergeTable ==
  ASSUME IInv, ContentInv, Merging, lvl = TargetLevel, Slot.kind = "table"
  PROVE  LET t == Slot.to IN
         /\ t \in Linked /\ t \in Frames /\ lev[t] = lvl - 1 /\ cover[t] = SlotCover(cur, Idx)
         /\ SlotCover(cur, Idx) = Pages(req) /\ Size(req) = Span[lvl]
         /\ \A i \in Slots : mem[t][i].kind = "leaf" => LeafAt(t, i) \in Contract!Overlapping(req)
         /\ (\A i \in Slots : mem[t][i].kind = "leaf") =>
              \A m \in Contract!Overlapping(req) : \E i \in Slots : m = LeafAt(t, i)
<1> DEFINE t == Slot.to
<1>1. pc = "walk" /\ req.op = "merge_at" /\ req.op \in Ops /\ pc # "drop"
  BY MergeFacts
<1>2. t \in Linked /\ t \in Frames /\ lev[t] = lvl - 1 /\ lev[t] \in 1..LEVELS /\ cover[t] = SlotCover(cur, Idx)
  BY <1>1, NextTable
<1>3. SlotCover(cur, Idx) = Pages(req) /\ Size(req) = Span[lvl]
  BY <1>1, TargetPages
<1>4. \A m : m \in Contract!Overlapping(req) <=> m \in Leaves /\ m.pages \cap Pages(req) # {}
  BY <1>1, Mappings
<1> HIDE DEF t
<1>5. ASSUME NEW i \in Slots, mem[t][i].kind = "leaf"
      PROVE  LeafAt(t, i) \in Contract!Overlapping(req)
  <2>1. LeafAt(t, i) \in Leaves /\ LeafAt(t, i).pages = SlotCover(t, i)
    BY <1>2, <1>5, LeavesAre DEF LeafAt
  <2>2. SlotCover(t, i) # {} /\ SlotCover(t, i) \subseteq cover[t]
    BY <1>2, <1>5 DEF ContentInv, UsedInv, Linked, SlotCover
  <2> QED
    BY <1>2, <1>3, <1>4, <2>1, <2>2
<1>6. ASSUME \A i \in Slots : mem[t][i].kind = "leaf", NEW m \in Contract!Overlapping(req)
      PROVE  \E i \in Slots : m = LeafAt(t, i)
  <2>1. m \in Leaves
    BY <1>4, <1>6
  <2>2. PICK v : v \in m.pages /\ v \in cover[t]
    BY <1>2, <1>3, <1>4, <1>6
  <2>3. v \in Nat
    BY <1>2, <2>2, PageIsNat DEF IInv, TypeOK
  <2>4. index_at(lev[t], v) \in Slots
    BY <1>2, <2>3, IndexInTable
  <2>5. mem[t][index_at(lev[t], v)].kind # "table"
    BY <1>6, <2>4
  <2>6. m = LeafAt(t, index_at(lev[t], v))
    BY <1>1, <1>2, <2>1, <2>2, <2>5, OneLeaf
  <2> QED
    BY <2>4, <2>6
<1> QED
  BY <1>2, <1>3, <1>5, <1>6 DEF t

\* A piece that is mapped is an entry of that table.
LEMMA MappedPiece ==
  ASSUME IInv, ContentInv, Merging, lvl = TargetLevel, Slot.kind = "table",
         NEW i \in Slots, NEW p, NEW fl, PieceAt(i, p, fl) \in Leaves
  PROVE  mem[Slot.to][i] = Leaf(p + i * Span[lvl-1], fl)
<1> DEFINE t == Slot.to
           s == Span[lvl-1]
           b == req.start + i * s
           m == PieceAt(i, p, fl)
<1>1. pc = "walk" /\ req.op \in Ops /\ pc # "drop" /\ lvl \in 2..LEVELS /\ lvl > 1
  BY MergeFacts
<1>2. /\ t \in Linked /\ t \in Frames /\ lev[t] = lvl - 1 /\ cover[t] = SlotCover(cur, Idx)
      /\ SlotCover(cur, Idx) = Pages(req)
  BY MergeTable
<1>3. b \in cover[t] /\ index_at(lvl - 1, b) = i
  BY <1>1, <1>2, PiecePages
<1>4. /\ s \in Int /\ s > 0 /\ i \in Int /\ req.start \in Int /\ lvl - 1 \in 1..LEVELS
      /\ req.start + (i + 1) * s - 1 = b + s - 1 /\ b \in Int
  <2>1. lvl - 1 \in 1..LEVELS /\ i \in Int /\ req.start \in Int
    BY <1>1, RangeTypes, SizesAreNat DEF Slots
  <2>2. s \in Int /\ s > 0
    BY <2>1, SpanFacts
  <2> HIDE DEF s
  <2>3. (i + 1) * s = i * s + s /\ i * s \in Int
    BY <2>1, <2>2
  <2> QED
    BY <2>1, <2>2, <2>3
<1>5. m.pages = b .. b + s - 1 /\ m.pa = p + i * s /\ m.fl = fl
  BY <1>4 DEF PieceAt
<1> HIDE DEF b, m, s, t
<1>6. b \in m.pages
  BY <1>4, <1>5
<1>7. PICK f \in Linked : LET j == index_at(lev[f], b) IN
        /\ b \in cover[f] /\ j \in Slots /\ mem[f][j].kind = "leaf" /\ m = LeafAt(f, j)
        /\ lev[f] \in 1..LEVELS /\ leaf_start(b, lev[f]) \in Int
        /\ m.pages = leaf_start(b, lev[f]) .. leaf_start(b, lev[f]) + Span[lev[f]] - 1
  BY <1>6, MappedAt DEF m
<1>8. Span[lev[f]] = s
  <2> DEFINE a == leaf_start(b, lev[f])
             u == Span[lev[f]]
  <2>1. a \in Int /\ u \in Int /\ u > 0 /\ a .. a + u - 1 = b .. b + s - 1
    BY <1>5, <1>7, SpanFacts
  <2> HIDE DEF a, u
  <2>2. a + u - 1 \in Int /\ b + s - 1 \in Int /\ a <= a + u - 1
    BY <1>4, <2>1
  <2>3. a = b /\ a + u - 1 = b + s - 1
    BY <1>4, <2>1, <2>2, SameRange
  <2>4. u = s
    BY <1>4, <2>1, <2>3
  <2> QED
    BY <2>4 DEF u
<1>9. lev[f] = lev[t]
  BY <1>2, <1>4, <1>7, <1>8, SpanTells DEF s
<1>10. f = t
  BY <1>1, <1>2, <1>3, <1>7, <1>9 DEF IInv, OnePath
<1>11. mem[t][i].kind = "leaf" /\ m = LeafAt(t, i)
  BY <1>2, <1>3, <1>7, <1>10
<1>12. mem[t][i].pa = p + i * s /\ mem[t][i].fl = fl
  BY <1>5, <1>11 DEF LeafAt
<1>13. mem[t][i] \in Entries
  BY <1>2 DEF IInv, TypeOK
<1>14. mem[t][i] = Leaf(mem[t][i].pa, mem[t][i].fl)
  BY <1>11, <1>13 DEF Entries, Leaf, Unused, Invalid
<1> QED
  BY <1>12, <1>14 DEF t, s


\* A set of numbers has a least one.
LEMMA LeastElement ==
  ASSUME NEW T \in SUBSET Nat, NEW x \in T
  PROVE  \E y \in T : \A z \in T : y <= z
<1>1. IsWellFoundedOn(OpToRel(<, Nat), Nat)
  BY NatLessThanWellFounded
<1>2. PICK y \in T : \A z \in T : ~(<<z, y>> \in OpToRel(<, Nat))
  BY <1>1, WFMin
<1>3. \A z \in T : ~(z < y)
  BY <1>2 DEF OpToRel
<1> QED
  BY <1>3

\* The errors of the verification loop: an entry of no legal kind, or pieces that do
\* not make one leaf.
LEMMA MergeCheckIs ==
  ASSUME IInv, ContentInv, Merging, lvl = TargetLevel, Slot.kind = "table"
  PROVE  LET t == Slot.to IN
         /\ MergeCheck(t) \in {"Ok", "InvalidEntryKind", "NotCoalescable"}
         /\ MergeCheck(t) = "InvalidEntryKind" => Damaged
         /\ MergeCheck(t) = "Ok" <=>
              /\ mem[t][0].kind = "leaf" /\ mem[t][0].pa % Span[lvl] = 0
              /\ \A i \in Slots : mem[t][i] = Leaf(mem[t][0].pa + i * Span[lvl-1], mem[t][0].fl)
<1> DEFINE t == Slot.to
           first == mem[t][0]
           Differs(i) == mem[t][i] # Leaf(first.pa + i * Span[lvl-1], first.fl)
           worst == CHOOSE i \in Slots : Differs(i) /\ \A j \in Slots : Differs(j) => i <= j
<1>1. Span[lvl-1] \in NamedSizes /\ t \in Frames
  BY MergeFacts, MergeTable
<1>2. 0 \in Slots
  BY SizesAreNat DEF Slots
<1>3. MergeCheck(t) =
        IF first.kind = "invalid" THEN "InvalidEntryKind"
        ELSE IF first.kind # "leaf" THEN "NotCoalescable"
        ELSE IF first.pa % Span[lvl] # 0 THEN "NotCoalescable"
        ELSE IF \A i \in Slots : ~Differs(i) THEN "Ok"
        ELSE IF mem[t][worst].kind = "invalid" THEN "InvalidEntryKind"
        ELSE "NotCoalescable"
  BY <1>1 DEF MergeCheck
<1>4. ASSUME NEW k \in Slots, Differs(k)
      PROVE  worst \in Slots
  <2>1. {i \in Slots : Differs(i)} \in SUBSET Nat
    BY SizesAreNat DEF Slots
  <2>2. \E y \in {i \in Slots : Differs(i)} : \A z \in {i \in Slots : Differs(i)} : y <= z
    BY <1>4, <2>1, LeastElement
  <2> QED
    BY <2>2
<1>5. \A i \in Slots : mem[t][i].kind = "invalid" => Damaged
  BY <1>1, InvalidIsDamage
<1> HIDE DEF worst, t
<1> QED
  BY <1>2, <1>3, <1>4, <1>5 DEF t

\* A successful merge may be due only if the leaf in the slot begins the range.
LEMMA MergesAt ==
  ASSUME IInv, ContentInv, Merging, Slot.kind # "table", NEW m \in Contract!Merges(req)
  PROVE  /\ Slot.kind = "leaf"
         /\ SlotCover(cur, Idx) = req.start .. req.start + Span[TargetLevel-1] - 1
<1> DEFINE s == Span[TargetLevel-1]
<1>1. pc = "walk" /\ req.op = "merge_at" /\ req.op \in Ops /\ pc # "drop" /\ TargetLevel - 1 \in 1..LEVELS-1
  BY MergeFacts, SizesAreNat
<1>2. Span[TargetLevel] = Size(req) /\ req.start \in Int /\ TargetLevel \in Int
  BY <1>1, TargetPages, RangeTypes
<1>3. s \in Int /\ s > 0 /\ Span[TargetLevel] = E * s
  BY <1>1, <1>2, SpanFacts, MergeFacts
<1> HIDE DEF s
<1>4. Contract!Size(req) \div E = s
  <2>1. (E * s + 0) \div E = s
    BY <1>3, SizesAreNat, DivUnique
  <2>2. E * s + 0 = E * s
    BY <1>3, SizesAreNat
  <2>3. Contract!Size(req) = E * s
    BY <1>2, <1>3, SameOps
  <2> QED
    BY <2>1, <2>2, <2>3
<1>5. Contract!Overlapping(req) = Contract!Pieces(req, m.pa, m.fl)
  BY DEF Contract!Merges
<1>6. 0 \in Slots
  BY SizesAreNat DEF Slots
<1>7. PICK x \in Contract!Overlapping(req) : x.pages = req.start + 0 * s .. req.start + (0 + 1) * s - 1
  <2> DEFINE x == [pages |-> req.start + 0 * s .. req.start + (0 + 1) * s - 1,
                   pa |-> m.pa + 0 * s, fl |-> m.fl]
  <2>1. x \in Contract!Pieces(req, m.pa, m.fl)
    BY <1>4, <1>6, SameOps DEF Contract!Pieces
  <2> QED
    BY <1>5, <2>1
<1>8. x.pages = req.start .. req.start + s - 1
  <2>1. 0 * s = 0 /\ (0 + 1) * s = s
    BY <1>3
  <2> QED
    BY <1>2, <1>3, <1>7, <2>1
<1>9. x \in Leaves /\ req.start \in x.pages
  BY <1>1, <1>2, <1>3, <1>7, <1>8, Mappings
<1>10. Slot.kind = "leaf" /\ x = LeafAt(cur, Idx)
  BY <1>1, <1>9, LeafOfStart
<1> QED
  BY <1>8, <1>10 DEF LeafAt, s


\* Where nothing merges and the range is no mapping, merge_at must fail.
LEMMA NoMerge ==
  ASSUME IInv, ContentInv, Merging, Contract!ExactAt(req) = {}, Contract!Merges(req) = {}
  PROVE  Contract!Effects(req) = {}
BY MergeFacts DEF Contract!Effects

\* An intermediate entry that is no table: nothing here is the range, or its pieces.
LEMMA MergeMisses ==
  ASSUME IInv, ContentInv, Merging, Slot.kind # "table", Slot.kind = "leaf" => lvl > TargetLevel
  PROVE  Contract!Effects(req) = {}
<1> DEFINE a == leaf_start(req.start, lvl)
           s == Span[TargetLevel-1]
<1>1. /\ pc = "walk" /\ req.op \in Ops /\ lvl \in Int /\ TargetLevel \in Int /\ TargetLevel \in 1..LEVELS
      /\ TargetLevel > 1 /\ lvl \in 1..LEVELS /\ TargetLevel - 1 \in 1..LEVELS
  BY MergeFacts, SizesAreNat
<1>2. /\ req.start \in Int /\ a \in Int /\ Span[lvl] \in Int /\ Span[lvl] > 0 /\ s \in Int /\ s > 0
      /\ SlotCover(cur, Idx) = a .. a + Span[lvl] - 1 /\ Span[TargetLevel] = Size(req)
  BY <1>1, RangeTypes, SlotRange, SpanFacts, TargetPages, MergeFacts DEF Merging
<1>3. Contract!ExactAt(req) = {}
  <2> SUFFICES ASSUME NEW m \in Contract!ExactAt(req) PROVE FALSE
    OBVIOUS
  <2>1. Slot.kind = "leaf" /\ SlotCover(cur, Idx) = Pages(req)
    BY <1>1, ExactLeaf
  <2>2. Size(req) = Span[lvl]
    BY <1>1, <2>1, RangeIsSlot
  <2>3. lvl = TargetLevel
    BY <1>1, <1>2, <2>2, SpanTells
  <2> QED
    BY <1>1, <2>1, <2>3
<1> HIDE DEF a, s
<1>4. Contract!Merges(req) = {}
  <2> SUFFICES ASSUME NEW m \in Contract!Merges(req) PROVE FALSE
    OBVIOUS
  <2>1. Slot.kind = "leaf" /\ a .. a + Span[lvl] - 1 = req.start .. req.start + s - 1
    BY <1>2, MergesAt DEF s
  <2>2. a + Span[lvl] - 1 \in Int /\ req.start + s - 1 \in Int /\ a <= a + Span[lvl] - 1
    BY <1>2
  <2>3. a = req.start /\ a + Span[lvl] - 1 = req.start + s - 1
    BY <1>2, <2>1, <2>2, SameRange
  <2>4. Span[lvl] = s
    BY <1>2, <2>3
  <2>5. lvl = TargetLevel - 1
    BY <1>1, <2>4, SpanTells DEF s
  <2> QED
    BY <1>1, <2>1, <2>5
<1> QED
  BY <1>3, <1>4, NoMerge

\* A table whose entries do not make one leaf: neither do the mappings of the range.
LEMMA MergeDiffers ==
  ASSUME IInv, ContentInv, Merging, lvl = TargetLevel, Slot.kind = "table", MergeCheck(Slot.to) # "Ok"
  PROVE  Contract!Effects(req) = {}
<1> DEFINE t == Slot.to
<1>1. /\ pc = "walk" /\ pc # "drop" /\ req.op \in Ops /\ lvl \in 2..LEVELS /\ lvl \in Int /\ lvl \in 1..LEVELS
      /\ lvl - 1 \in 1..LEVELS
  BY MergeFacts, SizesAreNat
<1>2. /\ t \in Linked /\ t \in Frames /\ lev[t] = lvl - 1 /\ cover[t] = SlotCover(cur, Idx)
      /\ SlotCover(cur, Idx) = Pages(req) /\ Size(req) = Span[lvl]
  BY MergeTable
<1>3. /\ req.start \in Int /\ Span[lvl] \in Int /\ Span[lvl] > 0 /\ req.end \in Int
  BY <1>1, RangeTypes
<1>4. Contract!ExactAt(req) = {}
  <2> SUFFICES ASSUME NEW m \in Contract!ExactAt(req) PROVE FALSE
    OBVIOUS
  <2>1. m \in Leaves /\ m.pages = Pages(req)
    BY <1>1, Mappings
  <2>2. req.start \in m.pages
    BY <1>1, <2>1, TargetPages DEF Merging
  <2>3. PICK f \in Linked : LET j == index_at(lev[f], req.start) IN
          /\ req.start \in cover[f] /\ mem[f][j].kind = "leaf" /\ m = LeafAt(f, j)
          /\ lev[f] \in 1..LEVELS /\ leaf_start(req.start, lev[f]) \in Int
          /\ m.pages = leaf_start(req.start, lev[f]) .. leaf_start(req.start, lev[f]) + Span[lev[f]] - 1
    BY <2>1, <2>2, MappedAt
  <2> DEFINE a == leaf_start(req.start, lev[f])
             u == Span[lev[f]]
  <2>4. a \in Int /\ u \in Int /\ u > 0 /\ a .. a + u - 1 = req.start .. req.end - 1
    BY <2>1, <2>3, SpanFacts DEF Pages
  <2> HIDE DEF a, u
  <2>5. a = req.start /\ a + u - 1 = req.end - 1
    <3>1. a + u - 1 \in Int /\ req.end - 1 \in Int /\ a <= a + u - 1
      BY <1>3, <2>4
    <3> QED
      BY <1>3, <2>4, <3>1, SameRange
  <2>6. u = Size(req)
    BY <1>3, <2>4, <2>5 DEF Size
  <2>7. lev[f] = lvl
    BY <1>1, <1>2, <2>3, <2>6, SpanTells DEF u
  <2>8. f = cur
    BY <1>1, <2>3, <2>7, AtSlot DEF IInv, OnePath
  <2> QED
    BY <2>3, <2>7, <2>8 DEF Slot, Idx
<1>5. Contract!Merges(req) = {}
  <2> SUFFICES ASSUME NEW m \in Contract!Merges(req) PROVE FALSE
    OBVIOUS
  <2>1. /\ Contract!Overlapping(req) = Contract!Pieces(req, m.pa, m.fl) /\ m \in Contract!Overlapping(req)
        /\ m.pa % Size(req) = 0
    BY SameOps DEF Contract!Merges
  <2>2. \A i \in Slots : PieceAt(i, m.pa, m.fl) \in Leaves
    <3>1. \A i \in Slots : PieceAt(i, m.pa, m.fl) \in Contract!Pieces(req, m.pa, m.fl)
      BY <1>1, <1>2, PiecesAre
    <3> QED
      BY <1>1, <2>1, <3>1, Mappings
  <2>3. \A i \in Slots : mem[t][i] = Leaf(m.pa + i * Span[lvl-1], m.fl)
    BY <2>2, MappedPiece
  <2>4. m.pa \in Int
    <3>1. m \in Leaves
      BY <1>1, <2>1, Mappings
    <3>2. PICK f \in Linked, i \in Slots : mem[f][i].kind = "leaf" /\ m = LeafAt(f, i)
      BY <3>1, LeavesAre
    <3>3. mem[f][i] \in Entries
      BY <3>2 DEF IInv, TypeOK, Linked, Tables
    <3> QED
      BY <3>2, <3>3, EntryKinds DEF LeafAt
  <2>5. 0 \in Slots /\ Span[lvl-1] \in Int
    BY <1>1, SizesAreNat, SpanFacts DEF Slots
  <2> HIDE DEF t
  <2>6. mem[t][0] = Leaf(m.pa, m.fl)
    <3>1. m.pa + 0 * Span[lvl-1] = m.pa
      BY <2>4, <2>5
    <3> QED
      BY <2>3, <2>5, <3>1
  <2>7. mem[t][0].kind = "leaf" /\ mem[t][0].pa = m.pa /\ mem[t][0].fl = m.fl
    BY <2>6 DEF Leaf
  <2>8. MergeCheck(t) = "Ok"
    BY <1>2, <2>1, <2>3, <2>7, MergeCheckIs DEF t
  <2> QED
    BY <2>8 DEF t
<1> QED
  BY <1>4, <1>5, NoMerge

LEMMA MergeRefusals ==
  ASSUME IInv, ContentInv, MergeRefuse
  PROVE  AbstractStep
<1>1. Merging /\ pc = "walk" /\ req.op = "merge_at" /\ req.op \in Ops /\ lvl \in Int /\ TargetLevel \in Int
  BY MergeFacts DEF MergeRefuse
<1>2. cur \in Frames /\ Idx \in Slots /\ Slot = mem[cur][Idx] /\ Slot \in Entries
  BY <1>1, AtSlot DEF Slot
<1>3. \A e \in Contract!Errors : Contract!MayRefuse(req, e) /\ Fail(e) => AbstractStep
  BY <1>1, FailIsAbstract DEF Fail
<1>4. ASSUME NEW e \in {"NotMapped", "NotCoalescable"}, Contract!Effects(req) = {}, Fail(e)
      PROVE  AbstractStep
  BY <1>1, <1>3, <1>4 DEF Contract!MayRefuse, Contract!Errors
<1>5. Damaged /\ Fail("InvalidEntryKind") => AbstractStep
  BY <1>3 DEF Contract!MayRefuse, Contract!Errors
<1>6. CASE Slot.kind = "none" /\ Fail("NotMapped")
  BY <1>1, <1>4, <1>6, MergeMisses
<1>7. CASE Slot.kind = "invalid" /\ Fail("InvalidEntryKind")
  BY <1>2, <1>5, <1>7, InvalidIsDamage
<1>8. CASE lvl > TargetLevel /\ Slot.kind = "leaf" /\ Fail("NotMapped")
  BY <1>1, <1>4, <1>8, MergeMisses
<1>9. CASE /\ lvl = TargetLevel /\ Slot.kind = "table" /\ MergeCheck(Slot.to) # "Ok"
           /\ Fail(MergeCheck(Slot.to))
  BY <1>1, <1>4, <1>5, <1>9, MergeDiffers, MergeCheckIs
<1> QED
  BY <1>6, <1>7, <1>8, <1>9 DEF MergeRefuse, is_present

\* A range that is one leaf already is merged without a store.
LEMMA MergeIsDone ==
  ASSUME IInv, ContentInv, MergeNothing
  PROVE  AbstractStep
<1>1. /\ Merging /\ pc = "walk" /\ pc # "drop" /\ req.op = "merge_at" /\ req.op \in Ops /\ lvl = TargetLevel
      /\ Slot.kind = "leaf" /\ Contract!MergeArguments(req) = "Ok" /\ Fail("Ok")
  BY MergeFacts DEF MergeNothing
<1>2. SlotCover(cur, Idx) = Pages(req)
  BY <1>1, TargetPages
<1>3. LeafAt(cur, Idx) \in Contract!ExactAt(req)
  BY <1>1, <1>2, ExactLeaf
<1>4. Leaves \in Contract!Effects(req)
  <2>1. Leaves \in {Leaves : m \in {x \in Contract!ExactAt(req) : Contract!MergeArguments(req) = "Ok"}}
    BY <1>1, <1>3
  <2> QED
    BY <1>1, <2>1 DEF Contract!Effects
<1>5. /\ UNCHANGED <<mem, root, lev, cover, child, req, untidy>> /\ pc' = "return" /\ ret' = "Ok"
  BY <1>1 DEF Fail, Finish, memory, ghosts, locals
<1>6. Leaves' = Leaves /\ Outcome = "pending" /\ Outcome' = "Ok"
  BY <1>1, <1>5, LeavesSame, OutcomeIs, OutcomeAfter
<1>7. UNCHANGED <<Open, req, Untidy>> /\ Maps' = Leaves
  BY <1>1, <1>5, <1>6 DEF Open, Untidy, Maps
<1> QED
  BY <1>4, <1>6, <1>7, TakesEffect

\* The store of merge_at puts one mapping in the place of its pieces.
LEMMA MergeTakesEffect ==
  ASSUME IInv, ContentInv, MergeWrite
  PROVE  AbstractStep
<1> DEFINE t == Slot.to
           p == mem[t][0].pa
           fl == mem[t][0].fl
           new == [pages |-> Pages(req), pa |-> p, fl |-> fl]
<1>1. /\ Merging /\ pc = "walk" /\ pc # "drop" /\ req.op = "merge_at" /\ req.op \in Ops /\ lvl = TargetLevel
      /\ lvl \in 2..LEVELS /\ lvl \in Int /\ Slot.kind = "table" /\ MergeCheck(t) = "Ok"
      /\ Contract!MergeArguments(req) = "Ok" /\ pc' = "release" /\ UNCHANGED <<root, req, untidy>>
  BY MergeFacts DEF MergeWrite
<1>2. /\ t \in Linked /\ t \in Frames /\ lev[t] = lvl - 1 /\ cover[t] = SlotCover(cur, Idx)
      /\ SlotCover(cur, Idx) = Pages(req) /\ Size(req) = Span[lvl]
  BY <1>1, MergeTable
<1>3. /\ mem[t][0].kind = "leaf" /\ p % Span[lvl] = 0
      /\ \A i \in Slots : mem[t][i] = Leaf(p + i * Span[lvl-1], fl)
  BY <1>1, MergeCheckIs
<1>4. \A i \in Slots : mem[t][i].kind = "leaf"
  <2>1. \A q, g : Leaf(q, g).kind = "leaf"
    BY DEF Leaf
  <2> QED
    BY <1>3, <2>1
<1>5. \A m : m \in Contract!Overlapping(req) <=> \E i \in Slots : m = LeafAt(t, i)
  BY <1>1, <1>4, MergeTable
<1> HIDE DEF t, p, fl
<1>6. \A i \in Slots : LeafAt(t, i) = PieceAt(i, p, fl)
  BY <1>1, <1>2, <1>3, PieceLeaf
<1>7. \A m : m \in Contract!Pieces(req, p, fl) <=> \E i \in Slots : m = PieceAt(i, p, fl)
  BY <1>1, <1>2, PiecesAre
<1>8. Contract!Overlapping(req) = Contract!Pieces(req, p, fl)
  <2>1. \A m : m \in Contract!Overlapping(req) <=> m \in Contract!Pieces(req, p, fl)
    BY <1>5, <1>6, <1>7
  <2>2. \A m \in Contract!Overlapping(req) : m \in Contract!Pieces(req, p, fl)
    BY <2>1
  <2>3. \A m \in Contract!Pieces(req, p, fl) : m \in Contract!Overlapping(req)
    BY <2>1
  <2> QED
    BY <2>2, <2>3
<1>9. 0 \in Slots /\ LeafAt(t, 0) \in Contract!Overlapping(req) /\ LeafAt(t, 0).pa = p /\ LeafAt(t, 0).fl = fl
  BY <1>5, SizesAreNat DEF Slots, LeafAt, p, fl
<1>10. LeafAt(t, 0) \in Contract!Merges(req)
  BY <1>2, <1>3, <1>8, <1>9, SameOps DEF Contract!Merges
<1>11. Leaves' = (Leaves \ Contract!Overlapping(req)) \cup {new}
  <2>1. \A m : m \in Leaves' <=>
          \/ m \in Leaves /\ \A i \in Slots : m # LeafAt(t, i)
          \/ m = [pages |-> SlotCover(cur, Idx), pa |-> p, fl |-> fl]
    BY <1>4, LeavesMerged DEF ContentInv, t, p, fl
  <2> QED
    BY <1>2, <1>5, <2>1
<1>12. Leaves' = (Leaves \ Contract!Overlapping(req))
                 \cup {Contract!AsLeaf(req, LeafAt(t, 0).pa, LeafAt(t, 0).fl)}
  BY <1>1, <1>9, <1>11, Mappings
<1>13. Leaves' \in Contract!Effects(req)
  <2>1. Leaves' \in {(Leaves \ Contract!Overlapping(req)) \cup {Contract!AsLeaf(req, m.pa, m.fl)} :
                       m \in Contract!Merges(req)}
    BY <1>10, <1>12
  <2> QED
    BY <1>1, <2>1 DEF Contract!Effects
<1> QED
  BY <1>1, <1>13, EffectIsAbstract


-------------------------------------------------------------------------------
(* The refinement. *)

\* Nothing is mapped before a table is made.
LEMMA InitIsAbstract == Init => Contract!ASInit
<1> SUFFICES ASSUME Init PROVE Contract!ASInit
  OBVIOUS
<1>1. root = NoFrame /\ pc = "idle" /\ req = NoReq /\ untidy = FALSE
  BY DEF Init
<1>2. Leaves = {}
  BY <1>1, InitIInv, NothingMapped
<1>3. Outcome = "none"
  BY <1>1, OutcomeIs
<1> QED
  BY <1>1, <1>2, <1>3 DEF Contract!ASInit, Contract!NoCall, NoReq

\* Every step of the walker is a step of AddressSpace, or changes nothing there.
THEOREM StepIsAbstract ==
  ASSUME IInv, ContentInv, [Next]_vars
  PROVE  AbstractStep
<1>1. IInv'
  BY IInvInductive
<1>2. CASE UNCHANGED vars
  BY <1>1, <1>2, InvisibleSteps
<1>3. CASE (\E f \in Frames : try_new(f)) \/ adopt \/ DropStart
  BY <1>3, OpenSteps
<1>4. CASE (\E r \in Requests : Call(r)) \/ Return
  BY <1>4, CallSteps
<1>5. CASE \/ MapDescend \/ ExactDescend \/ MergeDescend
           \/ (\E f \in Frames : MapGrow(f) \/ SplitBuild(f))
           \/ ReclaimStop \/ ReclaimUnlink \/ Flush \/ DropScan \/ DropFree
  BY <1>1, <1>5, InvisibleSteps
<1>6. CASE MapRefuse \/ MapInstall \/ \E e \in AllocErrors : MapStarve(e)
  BY <1>6, MapIsAbstract
<1>7. CASE ExactRefuse \/ \E e \in AllocErrors : SplitStarve(e)
  BY <1>7, ExactRefusals
<1>8. CASE Rewrite \/ UnmapClear
  BY <1>8, ExactEffects
<1>9. CASE SplitSwap
  BY <1>9, SplitIsAbstract
<1>10. CASE MergeRefuse \/ MergeNothing \/ MergeWrite
  BY <1>10, MergeRefusals, MergeIsDone, MergeTakesEffect
<1>11. CASE ReclaimFree \/ MergeFree
  BY <1>11, ReleaseIsAbstract
<1> QED
  BY <1>2, <1>3, <1>4, <1>5, <1>6, <1>7, <1>8, <1>9, <1>10, <1>11 DEF Next, Step

\* The page-table walker implements the address space of its trait: whatever the order of
\* its stores and allocator calls, a call takes effect at one store and completely, or
\* not at all with an error that the mappings justify (src/walker.rs, src/error.rs).
THEOREM WalkerImplementsContract == Spec => ImplementsContract
<1>1. IInv /\ ContentInv /\ [Next]_vars => [Contract!ASNext]_(Contract!asvars)
  BY StepIsAbstract DEF AbstractStep
<1> QED
  BY <1>1, InitIsAbstract, ContentHolds, PTL DEF Spec, ImplementsContract, Contract!ASSpec

===============================================================================

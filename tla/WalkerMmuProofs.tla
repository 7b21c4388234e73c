---------------------------- MODULE WalkerMmuProofs ----------------------------
(***************************************************************************)
(* Theorems about the walker together with the MMUs that translate through *)
(* its table, for every geometry, set of calls and adopted table: what the *)
(* hardware may hold when a call returns is what the table says.           *)
(***************************************************************************)
EXTENDS WalkerMmu, WalkerContractProofs

-------------------------------------------------------------------------------
(* Where a walk of the hardware ends, and what it reads there. *)

\* The walk for v ends at table f, whose entry for it is no table.
EndsAt(f, v) == f \in Linked /\ v \in cover[f] /\ mem[f][index_at(lev[f], v)].kind # "table"

Reads(e, l, v) ==
  IF e.kind = "leaf" THEN [pa |-> e.pa + (v % Span[l]), fl |-> e.fl] ELSE NoTranslation

ReadsAt(f, v) == Reads(mem[f][index_at(lev[f], v)], lev[f], v)

\* A walk ends somewhere, ...
LEMMA WalkReads ==
  ASSUME IInv, InUse, NEW v \in ValidPages
  PROVE  \E f : EndsAt(f, v) /\ Translation(v) = ReadsAt(f, v)
<1> DEFINE l == LastLevel(v)
           f == TablesOnPath(v)[l]
<1>1. l \in 1..LEVELS /\ f \in Linked /\ lev[f] = l /\ v \in cover[f] /\ mem[f][index_at(l, v)].kind # "table"
  BY WalkEnds DEF InUse
<1>2. Translation(v) = Reads(mem[f][index_at(l, v)], l, v)
  BY Zenon DEF Translation, Reads, LastLevel
<1> HIDE DEF l, f
<1> QED
  BY <1>1, <1>2 DEF EndsAt, ReadsAt

\* ... at one table only.
LEMMA EndsOnce ==
  ASSUME IInv, pc # "drop", NEW v, NEW f, NEW g, EndsAt(f, v), EndsAt(g, v)
  PROVE  f = g
<1>1. f \in Linked /\ g \in Linked /\ v \in cover[f] /\ v \in cover[g]
  BY DEF EndsAt
<1>2. ~Links(f, index_at(lev[f], v)) /\ ~Links(g, index_at(lev[g], v))
  BY DEF Links, EndsAt
<1>3. lev[f] \in Nat /\ lev[g] \in Nat
  BY <1>1 DEF IInv, TypeOK, Linked, Tables
<1> QED
  BY <1>1, <1>2, <1>3 DEF IInv, OnePath

\* A page translates as the entry says at which its walk ends.
LEMMA TranslationIs == \A w, h : IInv /\ InUse /\ EndsAt(h, w) => Translation(w) = ReadsAt(h, w)
<1> SUFFICES ASSUME NEW v, NEW f, IInv, InUse, EndsAt(f, v)
             PROVE  Translation(v) = ReadsAt(f, v)
  OBVIOUS
<1>1. v \in ValidPages
  BY DEF EndsAt, Linked, Tables, IInv, TypeOK
<1>2. PICK g : EndsAt(g, v) /\ Translation(v) = ReadsAt(g, v)
  BY <1>1, WalkReads
<1>3. f = g
  BY <1>2, EndsOnce DEF InUse
<1> QED
  BY <1>2, <1>3

-------------------------------------------------------------------------------
(* What the stores of the walker change of it. *)

\* Another walk that reads the same is the same translation.
LEMMA SameTranslation ==
  ASSUME IInv, IInv', InUse, InUse', NEW v, NEW f, NEW g,
         EndsAt(f, v), EndsAt(g, v)', ReadsAt(g, v)' = ReadsAt(f, v)
  PROVE  Translation(v)' = Translation(v)
<1>1. Translation(v) = ReadsAt(f, v)
  BY TranslationIs
<1>2. (\A w, h : IInv /\ InUse /\ EndsAt(h, w) => Translation(w) = ReadsAt(h, w))'
  BY TranslationIs, PTL
<1>3. Translation(v)' = ReadsAt(g, v)'
  BY <1>2
<1> QED
  BY <1>1, <1>3

\* A walk whose last entry stays reads the same.
LEMMA SameEntry ==
  ASSUME NEW v, NEW f, EndsAt(f, v), f \in Linked', lev'[f] = lev[f], cover'[f] = cover[f],
         mem'[f][index_at(lev[f], v)] = mem[f][index_at(lev[f], v)]
  PROVE  EndsAt(f, v)' /\ ReadsAt(f, v)' = ReadsAt(f, v)
BY DEF EndsAt, ReadsAt, Reads

\* Steps that store nothing.
LEMMA QuietTranslation ==
  ASSUME UNCHANGED <<mem, root>>, NEW v
  PROVE  Translation(v)' = Translation(v)
BY DEF Translation, TablesOnPath, NoTranslation

\* A store of the effect of map, remap, protect or unmap changes pages of the range only.
LEMMA EffectTranslation ==
  ASSUME IInv, IInv', ContentInv, InUse, MapInstall \/ Rewrite \/ UnmapClear,
         NEW v \in ValidPages, v \notin Pages(req)
  PROVE  Translation(v)' = Translation(v)
<1>1. /\ pc = "walk" /\ req.op \in Ops /\ \E e : WriteSlot(e)
      /\ UNCHANGED <<root, lev, cover, child>> /\ pc' # "drop"
  BY DEF MapInstall, Mapping, Rewrite, UnmapClear, AtLeaf, Exact, ExactOps, Ops, ghosts, locals
<1>2. SlotCover(cur, Idx) = Pages(req)
  <2>1. CASE MapInstall
    BY <1>1, <2>1, TargetPages DEF MapInstall, Mapping
  <2>2. CASE Rewrite \/ UnmapClear
    <3>1. LeafCheck = "Ok" /\ pc = "walk"
      BY <1>1, <2>2 DEF Rewrite, UnmapClear, AtLeaf
    <3>2. leaf_range(req.start, lvl) = [start |-> req.start, end |-> req.end]
      BY <3>1 DEF LeafCheck
    <3> QED
      BY <1>1, <3>2, RangeIsSlot
  <2> QED
    BY <2>1, <2>2
<1>3. PICK f : EndsAt(f, v)
  BY WalkReads
<1>4. f \in Frames /\ f \in Linked' /\ lev'[f] = lev[f] /\ cover'[f] = cover[f] /\ index_at(lev[f], v) \in Slots
  BY <1>1, <1>3, CoverIndex DEF EndsAt, Linked, Tables, IInv
<1>5. ~(f = cur /\ index_at(lev[f], v) = Idx)
  BY <1>2, <1>3 DEF SlotCover, EndsAt
<1>6. mem'[f][index_at(lev[f], v)] = mem[f][index_at(lev[f], v)]
  BY <1>1, <1>4, <1>5, SlotWrite
<1>7. InUse'
  BY <1>1 DEF InUse
<1> QED
  BY <1>3, <1>4, <1>6, <1>7, SameEntry, SameTranslation

\* A table that map links where nothing was, is empty.
LEMMA GrowTranslation ==
  ASSUME IInv, IInv', InUse, NEW t \in Frames, MapGrow(t), NEW v \in ValidPages
  PROVE  Translation(v)' = Translation(v)
<1>1. /\ pc = "walk" /\ pc' = "walk" /\ ~is_present(Slot) /\ owner[t] = "free" /\ child' = child
      /\ lev' = [lev EXCEPT ![t] = lvl - 1] /\ cover' = [cover EXCEPT ![t] = SlotCover(cur, Idx)]
      /\ root' = root /\ lvl' = lvl - 1
  BY DEF MapGrow, Mapping, alloc_table_frame
<1>2. /\ t # cur /\ t \notin Tables /\ child = NoFrame
      /\ \A f \in Frames, i \in Slots :
           mem'[f][i] = IF f = cur /\ i = Idx THEN Table(t) ELSE IF f = t THEN Unused ELSE mem[f][i]
  <2>1. t # cur /\ t \notin Tables
    BY <1>1, AtSlot DEF IInv, NoLostFrame, Linked
  <2>2. ASSUME NEW f \in Frames, NEW i \in Slots
        PROVE  mem'[f][i] = IF f = cur /\ i = Idx THEN Table(t) ELSE IF f = t THEN Unused ELSE mem[f][i]
    BY GrowWrites
  <2>3. child = NoFrame
    BY <1>1, WalkFacts
  <2> QED
    BY <2>1, <2>2, <2>3
<1>3. InUse' /\ cur \in Linked /\ lev[cur] = lvl /\ lvl \in 1..LEVELS
  BY <1>1, AtSlot DEF InUse
<1>4. PICK f : EndsAt(f, v)
  BY WalkReads
<1>5. f \in Frames /\ f # t /\ index_at(lev[f], v) \in Slots /\ f \in Tables /\ f # child
  BY <1>2, <1>4, CoverIndex DEF EndsAt, Linked, Tables, IInv
<1>6. lev'[f] = lev[f] /\ cover'[f] = cover[f]
  BY <1>1, <1>5 DEF IInv, TypeOK
<1>7. CASE f = cur /\ index_at(lev[f], v) = Idx
  <2>1. v \in SlotCover(cur, Idx) /\ Slot.kind = "none" /\ ReadsAt(f, v) = NoTranslation
    <3>1. v \in SlotCover(cur, Idx)
      BY <1>4, <1>7 DEF SlotCover, EndsAt
    <3>2. Slot.kind = "none" /\ mem[f][index_at(lev[f], v)] = Slot
      BY <1>1, <1>7 DEF Slot, is_present
    <3> QED
      BY <3>1, <3>2 DEF ReadsAt, Reads
  <2>2. lvl - 1 \in 1..LEVELS
    BY <1>1 DEF IInv, TypeOK
  <2>3. lev'[t] = lvl - 1 /\ cover'[t] = SlotCover(cur, Idx)
    BY <1>1 DEF IInv, TypeOK
  <2>4. t \in Linked' /\ t \in Tables'
    <3>1. lev'[t] > 0 /\ t # child'
      BY <1>1, <1>2, <1>3, <2>2, <2>3, FrameAssumption
    <3> QED
      BY <3>1 DEF Linked, Tables
  <2>5. index_at(lev'[t], v) \in Slots
    <3>1. v \in Nat
      BY PageIsNat
    <3> QED
      BY <2>2, <2>3, <3>1, IndexInTable
  <2>6. mem'[t][index_at(lev'[t], v)] = Unused
    BY <1>2, <2>5
  <2>7. Unused.kind = "none"
    BY EntryTypes
  <2>8. EndsAt(t, v)' /\ ReadsAt(t, v)' = NoTranslation
    BY <2>1, <2>3, <2>4, <2>6, <2>7 DEF EndsAt, ReadsAt, Reads, NoTranslation
  <2> QED
    BY <1>3, <1>4, <2>1, <2>8, SameTranslation
<1>8. CASE ~(f = cur /\ index_at(lev[f], v) = Idx)
  <2>1. mem'[f][index_at(lev[f], v)] = mem[f][index_at(lev[f], v)]
    BY <1>2, <1>5, <1>8
  <2>2. f \in Linked'
    BY <1>1, <1>5, <1>6 DEF Linked, Tables
  <2> QED
    BY <1>3, <1>4, <1>6, <2>1, <2>2, SameEntry, SameTranslation
<1> QED
  BY <1>7, <1>8

\* The table that split_at fills is not linked yet.
LEMMA BuildTranslation ==
  ASSUME IInv, IInv', InUse, NEW t \in Frames, SplitBuild(t), NEW v \in ValidPages
  PROVE  Translation(v)' = Translation(v)
<1>1. /\ pc = "walk" /\ pc' = "swap" /\ owner[t] = "free" /\ child' = t
      /\ lev' = [lev EXCEPT ![t] = lvl - 1] /\ cover' = [cover EXCEPT ![t] = SlotCover(cur, Idx)]
      /\ root' = root /\ \E x : mem' = [mem EXCEPT ![t] = x]
  BY DEF SplitBuild, AtLeaf, Exact, alloc_table_frame
<1>2. t \notin Tables /\ InUse'
  BY <1>1 DEF IInv, NoLostFrame, InUse
<1>3. PICK f : EndsAt(f, v)
  BY WalkReads
<1>4. f \in Frames /\ f # t /\ f \in Tables
  BY <1>2, <1>3 DEF EndsAt, Linked, Tables
<1>5. lev'[f] = lev[f] /\ cover'[f] = cover[f] /\ mem'[f] = mem[f]
  BY <1>1, <1>4 DEF IInv, TypeOK
<1>6. f \in Linked'
  BY <1>1, <1>4, <1>5 DEF Linked, Tables
<1> QED
  BY <1>2, <1>3, <1>5, <1>6, SameEntry, SameTranslation

\* An empty table is unlinked, ...
LEMMA UnlinkTranslation ==
  ASSUME IInv, IInv', InUse, ReclaimUnlink, NEW v \in ValidPages
  PROVE  Translation(v)' = Translation(v)
<1>0. PICK h, k : h = path[lvl+1] /\ k = index_at(lvl + 1, req.start)
  OBVIOUS
<1>1. /\ pc = "reclaim" /\ pc' = "release" /\ lvl # LEVELS /\ is_table_empty(cur)
      /\ mem' = [mem EXCEPT ![h][k] = Unused] /\ child' = cur /\ UNCHANGED <<root, lev, cover>>
  BY <1>0 DEF ReclaimUnlink, ReclaimDone, ghosts
<1>2. /\ h \in Frames /\ k \in Slots /\ Links(h, k) /\ mem[h][k].to = cur /\ cur \in Linked
      /\ child = NoFrame /\ root # NoFrame
  BY <1>0, <1>1, ParentLink, AtSlot, WalkFacts
<1>3. /\ mem[h][k].kind = "table" /\ h \in Linked /\ lev[cur] = lev[h] - 1 /\ cover[cur] = SlotCover(h, k)
      /\ cur \in Frames /\ h # cur
  <2>1. lev[cur] = lev[h] - 1 /\ cover[cur] = SlotCover(h, k) /\ h \in Linked /\ mem[h][k].kind = "table"
    BY <1>2 DEF IInv, NoDanglingTable, Links
  <2>2. lev[h] \in Nat
    BY <1>2 DEF IInv, TypeOK
  <2> QED
    BY <1>2, <2>1, <2>2 DEF Linked, Tables
<1>4. \A f \in Frames, i \in Slots : mem'[f][i] = IF f = h /\ i = k THEN Unused ELSE mem[f][i]
  BY <1>1, <1>2 DEF IInv, TypeOK
<1>5. InUse'
  BY <1>1 DEF InUse
<1>6. PICK f : EndsAt(f, v)
  BY WalkReads
<1>7. f \in Frames /\ index_at(lev[f], v) \in Slots /\ f \in Tables /\ f \in Linked
  BY <1>6, CoverIndex DEF EndsAt, Linked, Tables, IInv
<1>8. ~(f = h /\ index_at(lev[f], v) = k)
  BY <1>3, <1>6 DEF EndsAt
<1>9. CASE f = cur
  <2>1. mem[cur][index_at(lev[cur], v)].kind = "none" /\ v \in SlotCover(h, k)
    <3>1. ~is_present(mem[cur][index_at(lev[cur], v)])
      BY <1>1, <1>7, <1>9 DEF is_table_empty
    <3>2. v \in cover[cur]
      BY <1>6, <1>9 DEF EndsAt
    <3> QED
      BY <1>3, <3>1, <3>2 DEF is_present
  <2>2. v \in cover[h] /\ index_at(lev[h], v) = k
    BY <2>1 DEF SlotCover
  <2>3. h \in Linked' /\ mem'[h][index_at(lev'[h], v)] = Unused
    <3>1. h \in Linked'
      BY <1>1, <1>3 DEF Linked, Tables
    <3>2. mem'[h][k] = Unused /\ lev'[h] = lev[h]
      BY <1>1, <1>2, <1>4
    <3> QED
      BY <2>2, <3>1, <3>2
  <2>4. Unused.kind = "none"
    BY EntryTypes
  <2>5. EndsAt(h, v)' /\ ReadsAt(h, v)' = NoTranslation
    BY <1>1, <2>2, <2>3, <2>4 DEF EndsAt, ReadsAt, Reads, NoTranslation
  <2>6. ReadsAt(f, v) = NoTranslation
    BY <1>9, <2>1 DEF ReadsAt, Reads
  <2> QED
    BY <1>5, <1>6, <2>5, <2>6, SameTranslation
<1>10. CASE f # cur
  <2>1. f \in Linked' /\ lev'[f] = lev[f] /\ cover'[f] = cover[f]
    BY <1>1, <1>7, <1>10 DEF Linked, Tables
  <2>2. mem'[f][index_at(lev[f], v)] = mem[f][index_at(lev[f], v)]
    BY <1>4, <1>7, <1>8
  <2> QED
    BY <1>5, <1>6, <2>1, <2>2, SameEntry, SameTranslation
<1> QED
  BY <1>9, <1>10

\* ... and an unlinked table is freed.
LEMMA FreeTranslation ==
  ASSUME IInv, IInv', InUse, ReclaimFree \/ MergeFree, NEW v \in ValidPages
  PROVE  Translation(v)' = Translation(v)
<1>1. /\ pc = "release" /\ pc' # "drop" /\ dealloc_table_frame(child) /\ child' = NoFrame /\ root' = root
  BY DEF ReclaimFree, MergeFree, Finish
<1>2. /\ Linked' = Linked
      /\ \A f \in Frames \ {child} : mem'[f] = mem[f] /\ lev'[f] = lev[f] /\ cover'[f] = cover[f]
  BY <1>1, FreeChild
<1>3. InUse'
  BY <1>1 DEF InUse
<1>4. PICK f : EndsAt(f, v)
  BY WalkReads
<1>5. f \in Linked /\ f \in Frames \ {child}
  BY <1>4 DEF EndsAt, Linked, Tables
<1> QED
  BY <1>2, <1>3, <1>4, <1>5, SameEntry, SameTranslation

\* The leaves of a table that is split, or merged, read what the one leaf above reads.
LEMMA PieceReads ==
  ASSUME NEW l \in 2..LEVELS, NEW v \in Nat, NEW p \in Nat
  PROVE  LET i == index_at(l - 1, v) IN
         /\ i \in Slots /\ i \in Int
         /\ p + i * Span[l-1] + (v % Span[l-1]) = p + (v % Span[l])
<1> DEFINE s == Span[l-1]
           i == index_at(l - 1, v)
           q == v \div s
           r == v % s
           k == q \div E
<1>1. /\ l - 1 \in 1..LEVELS-1 /\ l - 1 \in 1..LEVELS /\ l - 1 # LEVELS /\ (l - 1) + 1 = l
      /\ E \in Int /\ E > 0
  BY SizesAreNat
<1>2. s \in Int /\ s > 0 /\ Span[l] = E * s
  BY <1>1, SpanFacts
<1>3. i = q % E /\ i \in Slots
  BY <1>1, IndexInTable DEF index_at
<1> HIDE DEF i, s
<1>4. q \in Int /\ r \in 0..s-1 /\ v = s * q + r
  <2>1. v \in Int
    OBVIOUS
  <2> QED
    BY <1>2, <2>1, DivMod
<1> HIDE DEF q, r
<1>5. k \in Int /\ i \in 0..E-1 /\ q = E * k + i
  BY <1>1, <1>3, <1>4, DivMod
<1> HIDE DEF k
<1>6. v = (E * s) * k + (i * s + r)
  <2>1. s * q = s * (E * k) + s * i
    BY <1>2, <1>4, <1>5, <1>1
  <2>2. s * (E * k) = (E * s) * k /\ s * i = i * s
    BY <1>1, <1>2, <1>5
  <2>3. s * q \in Int /\ (E * s) * k \in Int /\ i * s \in Int
    BY <1>1, <1>2, <1>4, <1>5
  <2> QED
    BY <1>4, <2>1, <2>2, <2>3
<1>7. E * s \in Int /\ E * s > 0 /\ i * s + r \in 0..(E * s)-1
  <2>1. i * s \in Int /\ i * s >= 0 /\ (E - 1) * s >= i * s /\ (E - 1) * s = E * s - s /\ E * s \in Int
    BY <1>1, <1>2, <1>5
  <2>2. E * s >= s
    BY <1>1, <1>2
  <2> QED
    BY <1>2, <1>4, <2>1, <2>2
<1>8. v % (E * s) = i * s + r
  BY <1>5, <1>6, <1>7, DivUnique
<1>9. i * s \in Int /\ r \in Int
  BY <1>2, <1>4, <1>5
<1> QED
  <2>1. p + i * s + r = p + (v % Span[l])
    BY <1>2, <1>8, <1>9
  <2>2. i \in Int
    BY <1>5, <1>1
  <2> QED
    BY <1>3, <2>1, <2>2 DEF s, r, i

\* split_at links a table that reads, page by page, what the leaf did.
LEMMA SplitTranslation ==
  ASSUME IInv, IInv', ContentInv, InUse, SplitSwap, NEW v \in ValidPages
  PROVE  Translation(v)' = Translation(v)
<1>0. PICK t, c, l : t = child /\ c = cur /\ l = lvl
  OBVIOUS
<1>1. /\ pc = "swap" /\ pc' = "flush" /\ WriteSlot(Table(t)) /\ child' = NoFrame
      /\ UNCHANGED <<root, lev, cover>>
  BY <1>0 DEF SplitSwap, ghosts
<1>2. /\ t \in Tables /\ t \in Frames /\ lev[t] = l - 1 /\ cover[t] = SlotCover(c, Idx) /\ Slot.kind = "leaf"
      /\ \A i \in Slots : mem[t][i] = Leaf(Slot.pa + i * Span[l-1], Slot.fl)
  <2>1. t \in Tables /\ lev[t] = l - 1 /\ cover[t] = SlotCover(c, Idx) /\ Slot.kind = "leaf"
    BY <1>0, <1>1 DEF IInv, ChildInv
  <2>2. \A i \in Slots : mem[t][i] = Leaf(Slot.pa + i * Span[l-1], Slot.fl)
    BY <1>0, <1>1 DEF ContentInv, CallInv
  <2> QED
    BY <2>1, <2>2 DEF Tables
<1>3. c \in Frames /\ c \in Linked /\ l \in 1..LEVELS /\ lev[c] = l /\ Slot \in Entries /\ Idx \in Slots
  BY <1>0, <1>1, AtSlot
<1>4. Slot.pa \in Nat /\ l \in 2..LEVELS /\ c # t
  <2>1. lev[t] > 0
    BY <1>2 DEF Tables
  <2> QED
    BY <1>2, <1>3, <2>1, EntryKinds
<1>5. InUse'
  BY <1>1 DEF InUse
<1>6. PICK f : EndsAt(f, v)
  BY WalkReads
<1>7. f \in Frames /\ index_at(lev[f], v) \in Slots /\ f \in Tables /\ f \in Linked
  BY <1>6, CoverIndex DEF EndsAt, Linked, Tables, IInv
<1>8. Tables' = Tables /\ NoFrame \notin Frames
  BY <1>1, FrameAssumption DEF Tables
<1>9. CASE f = c /\ index_at(lev[f], v) = Idx
  <2> DEFINE i == index_at(l - 1, v)
             e == Leaf(Slot.pa + i * Span[l-1], Slot.fl)
  <2>1. v \in cover[t]
    BY <1>0, <1>2, <1>6, <1>9 DEF SlotCover, EndsAt
  <2>2. i \in Slots /\ Slot.pa + i * Span[l-1] + (v % Span[l-1]) = Slot.pa + (v % Span[l])
    BY <1>4, PieceReads, PageIsNat
  <2>3. mem'[t][i] = e
    BY <1>0, <1>1, <1>2, <1>3, <1>4, <2>2, SlotWrite
  <2>4. e.kind = "leaf" /\ e.pa = Slot.pa + i * Span[l-1] /\ e.fl = Slot.fl
    BY DEF Leaf
  <2> HIDE DEF e, i
  <2>5. t \in Linked'
    BY <1>1, <1>2, <1>8 DEF Linked
  <2>6. lev'[t] = l - 1 /\ cover'[t] = cover[t] /\ mem'[t][index_at(lev'[t], v)] = e
    BY <1>1, <1>2, <2>3 DEF i
  <2>7. EndsAt(t, v)' /\ ReadsAt(t, v)' = [pa |-> Slot.pa + (v % Span[l]), fl |-> Slot.fl]
    BY <2>1, <2>2, <2>4, <2>5, <2>6 DEF EndsAt, ReadsAt, Reads
  <2>8. ReadsAt(f, v) = [pa |-> Slot.pa + (v % Span[l]), fl |-> Slot.fl]
    BY <1>0, <1>2, <1>3, <1>9 DEF ReadsAt, Reads, Slot
  <2> QED
    BY <1>5, <1>6, <2>7, <2>8, SameTranslation
<1>10. CASE ~(f = c /\ index_at(lev[f], v) = Idx)
  <2>1. mem'[f][index_at(lev[f], v)] = mem[f][index_at(lev[f], v)]
    BY <1>0, <1>1, <1>7, <1>10, SlotWrite
  <2>2. f \in Linked' /\ lev'[f] = lev[f] /\ cover'[f] = cover[f]
    BY <1>1, <1>7, <1>8 DEF Linked
  <2> QED
    BY <1>5, <1>6, <2>1, <2>2, SameEntry, SameTranslation
<1> QED
  BY <1>9, <1>10

\* merge_at replaces a table by a leaf that reads, page by page, what the table did.
LEMMA MergeTranslation ==
  ASSUME IInv, IInv', ContentInv, InUse, MergeWrite, NEW v \in ValidPages
  PROVE  Translation(v)' = Translation(v)
<1>0. PICK t, c, l : t = Slot.to /\ c = cur /\ l = lvl
  OBVIOUS
<1>01. PICK p, fl : p = mem[t][0].pa /\ fl = mem[t][0].fl
  OBVIOUS
<1>1. /\ Merging /\ lvl = TargetLevel /\ Slot.kind = "table" /\ MergeCheck(t) = "Ok"
      /\ pc = "walk" /\ pc' = "release" /\ WriteSlot(Leaf(p, fl)) /\ child' = t
      /\ UNCHANGED <<root, lev, cover>>
  BY <1>0, <1>01 DEF MergeWrite, Merging, ghosts
<1>2. /\ t \in Linked /\ t \in Frames /\ lev[t] = l - 1 /\ cover[t] = SlotCover(c, Idx)
      /\ 0 \in Slots /\ mem[t][0].kind = "leaf" /\ \A i \in Slots : mem[t][i] = Leaf(p + i * Span[l-1], fl)
  BY <1>0, <1>01, <1>1, MergeTable, MergeCheckIs, SizesAreNat DEF Slots
<1>3. c \in Frames /\ c \in Linked /\ l \in 1..LEVELS /\ lev[c] = l /\ Idx \in Slots
  BY <1>0, <1>1, AtSlot
<1>4. p \in Nat /\ l \in 2..LEVELS /\ c # t
  <2>1. lev[t] > 0
    BY <1>2 DEF Linked, Tables
  <2>2. mem[t][0] \in Entries
    BY <1>2 DEF IInv, TypeOK
  <2> QED
    BY <1>01, <1>2, <1>3, <2>1, <2>2, EntryKinds
<1>5. InUse'
  BY <1>1 DEF InUse
<1>6. PICK f : EndsAt(f, v)
  BY WalkReads
<1>7. f \in Frames /\ index_at(lev[f], v) \in Slots /\ f \in Tables /\ f \in Linked
  BY <1>6, CoverIndex DEF EndsAt, Linked, Tables, IInv
<1>8. Tables' = Tables /\ ~(f = c /\ index_at(lev[f], v) = Idx)
  BY <1>0, <1>1, <1>6 DEF Tables, EndsAt, Slot
<1>9. CASE f = t
  <2> DEFINE i == index_at(l - 1, v)
             e == Leaf(p + i * Span[l-1], fl)
  <2>1. v \in cover[c] /\ index_at(l, v) = Idx
    BY <1>0, <1>2, <1>3, <1>6, <1>9 DEF SlotCover, EndsAt
  <2>2. i \in Slots /\ p + i * Span[l-1] + (v % Span[l-1]) = p + (v % Span[l])
    BY <1>4, PieceReads, PageIsNat
  <2>3. mem[f][index_at(lev[f], v)] = e
    BY <1>2, <1>9, <2>2
  <2>4. e.kind = "leaf" /\ e.pa = p + i * Span[l-1] /\ e.fl = fl
    BY DEF Leaf
  <2> HIDE DEF e, i
  <2>5. c \in Linked'
    BY <1>1, <1>3, <1>4, <1>8 DEF Linked
  <2>6. Leaf(p, fl).kind = "leaf" /\ Leaf(p, fl).pa = p /\ Leaf(p, fl).fl = fl
    BY DEF Leaf
  <2>7. lev'[c] = l /\ cover'[c] = cover[c] /\ mem'[c][index_at(lev'[c], v)] = Leaf(p, fl)
    BY <1>0, <1>1, <1>3, <2>1, SlotWrite
  <2>8. EndsAt(c, v)' /\ ReadsAt(c, v)' = [pa |-> p + (v % Span[l]), fl |-> fl]
    BY <2>1, <2>5, <2>6, <2>7 DEF EndsAt, ReadsAt, Reads
  <2>9. ReadsAt(f, v) = [pa |-> p + (v % Span[l]), fl |-> fl]
    BY <1>2, <1>9, <2>2, <2>3, <2>4 DEF ReadsAt, Reads
  <2> QED
    BY <1>5, <1>6, <2>8, <2>9, SameTranslation
<1>10. CASE f # t
  <2>1. mem'[f][index_at(lev[f], v)] = mem[f][index_at(lev[f], v)]
    BY <1>0, <1>1, <1>7, <1>8, SlotWrite
  <2>2. f \in Linked' /\ lev'[f] = lev[f] /\ cover'[f] = cover[f]
    BY <1>1, <1>7, <1>8, <1>10 DEF Linked
  <2> QED
    BY <1>5, <1>6, <2>1, <2>2, SameEntry, SameTranslation
<1> QED
  BY <1>9, <1>10

\* The steps of a table in use: those that only control the call, and the stores.
LEMMA StepKinds ==
  ASSUME IInv, InUse, InUse', [Next]_vars
  PROVE  \/ UNCHANGED <<mem, root, lev, cover, child>>
         \/ MapInstall \/ Rewrite \/ UnmapClear
         \/ \E t \in Frames : MapGrow(t) \/ SplitBuild(t)
         \/ ReclaimUnlink \/ ReclaimFree \/ MergeFree \/ SplitSwap \/ MergeWrite
<1>1. CASE UNCHANGED vars \/ (\E r \in Requests : Call(r)) \/ DropStart \/ DropScan \/ Flush
  BY <1>1 DEF vars, memory, ghosts, locals, Call, DropStart, DropScan, Flush
<1>2. CASE MapDescend \/ ExactDescend \/ MergeDescend
  BY <1>2 DEF MapDescend, ExactDescend, MergeDescend, StepDown, memory, ghosts
<1>3. CASE MapRefuse \/ ExactRefuse \/ MergeRefuse \/ MergeNothing
           \/ \E e \in AllocErrors : MapStarve(e) \/ SplitStarve(e)
  BY <1>3 DEF MapRefuse, ExactRefuse, MergeRefuse, MergeNothing, MapStarve, SplitStarve, Fail,
              memory, ghosts, locals
<1>4. CASE ReclaimStop
  BY <1>4 DEF ReclaimStop, memory, ghosts, locals
<1>5. CASE Return
  BY <1>5, WalkFacts DEF Return, memory, ghosts
<1>6. ~DropFree /\ ~adopt /\ ~\E f \in Frames : try_new(f)
  BY DEF DropFree, adopt, try_new, InUse
<1> QED
  BY <1>1, <1>2, <1>3, <1>4, <1>5, <1>6 DEF Next, Step

\* A table is in use until Drop begins.
LEMMA UseEnds ==
  ASSUME InUse, [Next]_vars
  PROVE  DropStart \/ InUse'
<1>1. CASE UNCHANGED vars \/ (\E r \in Requests : Call(r)) \/ DropScan \/ Flush \/ Return \/ DropStart
  BY <1>1 DEF vars, memory, Call, DropScan, Flush, Return, Finish, InUse
<1>2. CASE MapDescend \/ ExactDescend \/ MergeDescend
  BY <1>2 DEF MapDescend, ExactDescend, MergeDescend, StepDown, memory, InUse
<1>3. CASE MapRefuse \/ ExactRefuse \/ MergeRefuse \/ MergeNothing
           \/ \E e \in AllocErrors : MapStarve(e) \/ SplitStarve(e)
  BY <1>3 DEF MapRefuse, ExactRefuse, MergeRefuse, MergeNothing, MapStarve, SplitStarve, Fail, Finish,
              memory, InUse
<1>4. CASE MapInstall \/ Rewrite \/ UnmapClear \/ ReclaimStop \/ ReclaimUnlink \/ ReclaimFree
           \/ SplitSwap \/ MergeWrite \/ MergeFree
  BY <1>4 DEF MapInstall, Rewrite, UnmapClear, ReclaimStop, ReclaimUnlink, ReclaimFree, SplitSwap,
              MergeWrite, MergeFree, Finish, memory, InUse
<1>5. CASE \E f \in Frames : MapGrow(f) \/ SplitBuild(f)
  BY <1>5 DEF MapGrow, SplitBuild, AtLeaf, Exact, Mapping, InUse
<1>6. ~DropFree /\ ~adopt /\ ~\E f \in Frames : try_new(f)
  BY DEF DropFree, adopt, try_new, InUse
<1> QED
  BY <1>1, <1>2, <1>3, <1>4, <1>5, <1>6 DEF Next, Step

\* A step changes the translation of no page but those that the call is about.
LEMMA TranslationStep ==
  ASSUME IInv, IInv', ContentInv, InUse, InUse', [Next]_vars, NEW v \in ValidPages,
         MapInstall \/ Rewrite \/ UnmapClear => v \notin Pages(req)
  PROVE  Translation(v)' = Translation(v)
<1>1. CASE UNCHANGED <<mem, root, lev, cover, child>>
  BY <1>1, QuietTranslation
<1>2. CASE MapInstall \/ Rewrite \/ UnmapClear
  BY <1>2, EffectTranslation
<1>3. CASE \E t \in Frames : MapGrow(t) \/ SplitBuild(t)
  BY <1>3, GrowTranslation, BuildTranslation
<1>4. CASE ReclaimUnlink \/ ReclaimFree \/ MergeFree
  BY <1>4, UnlinkTranslation, FreeTranslation
<1>5. CASE SplitSwap \/ MergeWrite
  BY <1>5, SplitTranslation, MergeTranslation
<1> QED
  BY <1>1, <1>2, <1>3, <1>4, <1>5, StepKinds

\* split_at and merge_at change the translation of none: TLC finds it on the
\* instance of the run mmu, this is every table and every order of stores.
THEOREM SplitMergeAreTransparent == MmuSpec => SplitMergeTransparent
<1>1. MmuInit => IInv /\ ContentInv
  BY IInvInductive, ContentInductive DEF MmuInit
<1>2. [MmuNext]_mvars => [Next]_vars
  BY DEF MmuNext, mvars
<1>3. IInv /\ ContentInv /\ [Next]_vars => IInv' /\ ContentInv'
  BY IInvInductive, ContentInductive
<1>4. ASSUME IInv, ContentInv, IInv', [MmuNext]_mvars
      PROVE  [req.op \in {"split_at", "merge_at"} =>
                \A v \in ValidPages : InUse => Translation(v)' = Translation(v)]_mvars
  <2> SUFFICES ASSUME req.op \in {"split_at", "merge_at"}, NEW v \in ValidPages, InUse
               PROVE  Translation(v)' = Translation(v)
    OBVIOUS
  <2>1. [Next]_vars
    BY <1>2, <1>4
  <2>2. CASE DropStart
    BY <2>2, QuietTranslation DEF DropStart, memory
  <2>3. DropStart \/ InUse'
    BY <2>1, UseEnds
  <2>4. ~(MapInstall \/ Rewrite \/ UnmapClear)
    BY DEF MapInstall, Mapping, Rewrite, UnmapClear, AtLeaf
  <2> QED
    BY <1>4, <2>1, <2>2, <2>3, <2>4, TranslationStep
<1> QED
  BY <1>1, <1>2, <1>3, <1>4, PTL DEF MmuSpec, SplitMergeTransparent

-------------------------------------------------------------------------------
(* What the MMU can hold of the table, and what the steps do to it. *)

\* The pointers that a walk reads lead to tables of the tree, and serve their pages.
LEMMA PointersServe ==
  ASSUME IInv, ContentInv, NEW p \in PointersWalked
  PROVE  p.to \in Linked /\ cover[p.to] = p.pages
<1>1. InUse /\ p \in UNION {TablePointers(v) : v \in ValidPages}
  BY DEF PointersWalked
<1>2. PICK v \in ValidPages : p \in TablePointers(v)
  BY <1>1
<1>3. PICK l \in 1..LEVELS-1 :
        /\ TablesOnPath(v)[l] # NoFrame
        /\ p = [to |-> TablesOnPath(v)[l],
                pages |-> {w \in ValidPages : w \div Span[l+1] = v \div Span[l+1]}]
  BY <1>2 DEF TablePointers
<1>4. PICK f : f = TablesOnPath(v)[l]
  OBVIOUS
<1>5. l \in 1..LEVELS /\ l # LEVELS
  BY SizesAreNat
<1>6. f \in Linked /\ lev[f] = l /\ v \in cover[f]
  <2>1. f = Serving(v, l) /\ f # NoFrame
    BY <1>1, <1>3, <1>4, <1>5, WalkIsServing DEF InUse
  <2> QED
    BY <2>1, ServingIs
<1>7. Block(cover[f], l) /\ cover[f] \in SUBSET ValidPages
  BY <1>6, TableBlock DEF ContentInv
<1>8. cover[f] = {w \in ValidPages : w \div Span[l+1] = v \div Span[l+1]}
  BY <1>5, <1>6, <1>7 DEF Block
<1> QED
  BY <1>3, <1>4, <1>6, <1>8

\* The same, quantified.
LEMMA PointersAre ==
  \A q : IInv /\ ContentInv /\ q \in PointersWalked => q.to \in Linked /\ cover[q.to] = q.pages
BY PointersServe

\* A table stays where it is until unmap or merge_at cuts it off.
LEMMA LinkedStays ==
  ASSUME IInv, IInv', InUse, InUse', [Next]_vars, NEW f \in Linked
  PROVE  \/ f \in Linked' /\ cover'[f] = cover[f]
         \/ ReclaimUnlink /\ f = cur
         \/ MergeWrite /\ f = Slot.to
<1>1. f \in Frames /\ f \in Tables /\ lev[f] > 0 /\ f # child
  BY DEF Linked, Tables
<1>2. CASE UNCHANGED <<mem, root, lev, cover, child>>
  BY <1>2 DEF Linked, Tables
<1>3. CASE MapInstall \/ Rewrite \/ UnmapClear
  BY <1>3 DEF MapInstall, Rewrite, UnmapClear, ghosts, locals, Linked, Tables
<1>4. CASE \E t \in Frames : MapGrow(t) \/ SplitBuild(t)
  <2>1. PICK t \in Frames : MapGrow(t) \/ SplitBuild(t)
    BY <1>4
  <2>2. /\ owner[t] = "free" /\ lev' = [lev EXCEPT ![t] = lvl - 1]
        /\ cover' = [cover EXCEPT ![t] = SlotCover(cur, Idx)] /\ child' \in {child, t}
    BY <2>1 DEF MapGrow, SplitBuild, alloc_table_frame
  <2>3. t # f
    BY <1>1, <2>2 DEF IInv, NoLostFrame
  <2>4. lev'[f] = lev[f] /\ cover'[f] = cover[f]
    BY <1>1, <2>2, <2>3 DEF IInv, TypeOK
  <2> QED
    BY <1>1, <2>2, <2>3, <2>4 DEF Linked, Tables
<1>5. CASE ReclaimUnlink
  BY <1>1, <1>5 DEF ReclaimUnlink, ghosts, Linked, Tables
<1>6. CASE MergeWrite
  BY <1>1, <1>6 DEF MergeWrite, ghosts, Linked, Tables
<1>7. CASE SplitSwap
  <2>1. NoFrame \notin Frames /\ child' = NoFrame /\ lev' = lev /\ cover' = cover
    BY <1>7, FrameAssumption DEF SplitSwap, ghosts
  <2> QED
    BY <1>1, <2>1 DEF Linked, Tables
<1>8. CASE ReclaimFree \/ MergeFree
  <2>1. /\ pc = "release" /\ pc' # "drop" /\ dealloc_table_frame(child) /\ child' = NoFrame /\ root' = root
    BY <1>8 DEF ReclaimFree, MergeFree, Finish
  <2> QED
    BY <1>1, <2>1, FreeChild
<1> QED
  BY <1>2, <1>3, <1>4, <1>5, <1>6, <1>7, <1>8, StepKinds

\* What a call has changed is still to be flushed, until its flush or its early return.
LEMMA PendingStays ==
  ASSUME InUse, InUse', pc # "flush", [Next]_vars
  PROVE  Pending \subseteq Pending' \cup (IF pc = "release" /\ ret' = "DeallocRefused" THEN Pages(req) ELSE {})
<1>1. CASE UNCHANGED vars
  BY <1>1 DEF vars, Pending, Pages, ValidPages
<1>2. CASE pc \notin {"reclaim", "release"}
  BY <1>2 DEF Pending
<1>3. CASE pc \in {"reclaim", "release"} /\ Next
  <2>1. ReclaimStop \/ ReclaimUnlink \/ ReclaimFree \/ MergeFree
    BY <1>3 DEF Next, Step, try_new, adopt, Call, DropStart, MapDescend, MapRefuse, MapInstall, MapGrow, MapStarve,
                Mapping, SplitBuild, SplitStarve, AtLeaf, Exact, ExactDescend, ExactRefuse, Rewrite,
                UnmapClear, SplitSwap, MergeDescend, MergeRefuse, MergeNothing, MergeWrite, Merging,
                Flush, Return, DropScan, DropFree
  <2>2. req' = req /\ (pc' \in {"reclaim", "release", "flush"} \/ (pc = "release" /\ ret' = "DeallocRefused"))
    BY <2>1 DEF ReclaimStop, ReclaimUnlink, ReclaimFree, MergeFree, Finish
  <2> QED
    BY <2>2 DEF Pending, Pages, ValidPages
<1> QED
  BY <1>1, <1>2, <1>3

\* Where a store takes a table out of the tree, its pages are to be flushed.
LEMMA CutPagesPend ==
  ASSUME IInv, ContentInv, MmuInv, ReclaimUnlink \/ MergeWrite
  PROVE  LET t == IF ReclaimUnlink THEN cur ELSE Slot.to IN cover[t] \cap Pending' # {}
<1>1. CASE ReclaimUnlink
  <2>1. pc = "reclaim" /\ pc' = "release" /\ req' = req /\ req.op = "unmap"
    BY <1>1 DEF ReclaimUnlink, IInv, WalkInv
  <2>2. req.start \in Pages(req) /\ req.start \in cover[cur] /\ req.start \in ValidPages
    BY <2>1, AtSlot DEF MmuInv
  <2> QED
    BY <1>1, <2>1, <2>2 DEF Pending, Pages, ValidPages
<1>2. CASE ~ReclaimUnlink /\ MergeWrite
  <2>1. /\ Merging /\ lvl = TargetLevel /\ Slot.kind = "table" /\ pc = "walk" /\ pc' = "release" /\ req' = req
        /\ req.op = "merge_at"
    BY <1>2 DEF MergeWrite, Merging
  <2>2. cover[Slot.to] = Pages(req)
    BY <2>1, MergeTable
  <2>3. req.start \in Pages(req) /\ req.start \in ValidPages
    BY <2>1, TargetPages, AtSlot
  <2> QED
    BY <1>2, <2>1, <2>2, <2>3 DEF Pending, Pages, ValidPages
<1> QED
  BY <1>1, <1>2

\* The backends whose flushes drop global translations too: the run mmu_global shows
\* that the default policy of the trait does not serve the others.
GlobalFlushers == {"InvlpgbWithGlobal", "A64Tlb", "Rv64Tlb"}

\* The flush of a call reaches what it vouches for: every page of the call, on every
\* CPU it counts on, global translations included where there are any.
LEMMA FlushReaches ==
  ASSUME GlobalUsers \subseteq GlobalFlushers, MmuInv
  PROVE  /\ Reached \subseteq FlushDrops.cpus
         /\ backend \in GlobalUsers => FlushDrops.globals
         /\ backend # "Rv64Tlb" => FlushDrops.pointers
         /\ Pages(req) \cap ValidPages \subseteq FlushedPages
<1>1. backend \in {"X86Tlb", "X86PcidTlb", "X86InvlpgbTlb", "InvlpgbWithGlobal", "A64Tlb", "Rv64Tlb"}
  BY MmuAssumption DEF MmuInv
<1>2. PICK n : n = Size(req)
  OBVIOUS
<1>3. FlushDrops = IF prefer_full_flush(n) THEN flush_tlb_all_local ELSE flush_tlb_range_local
  BY <1>2 DEF FlushDrops
<1>4. Pages(req) \cap ValidPages \subseteq FlushedPages
  BY DEF FlushedPages
<1>5. CASE backend = "X86Tlb"
  BY <1>3, <1>4, <1>5 DEF flush_tlb_all_local, flush_tlb_range_local, flush_tlb_local, Drops, Reached, Cpus, GlobalFlushers
<1>6. CASE backend = "X86PcidTlb"
  BY <1>3, <1>4, <1>6 DEF flush_tlb_all_local, flush_tlb_range_local, flush_tlb_local, Drops, Reached, Cpus, GlobalFlushers
<1>7. CASE backend = "X86InvlpgbTlb"
  BY <1>3, <1>4, <1>7 DEF flush_tlb_all_local, flush_tlb_range_local, flush_tlb_local, Drops, Reached, Cpus, GlobalFlushers, prefer_full_flush
<1>8. CASE backend = "InvlpgbWithGlobal"
  BY <1>3, <1>4, <1>8 DEF flush_tlb_all_local, flush_tlb_range_local, flush_tlb_local, Drops, Reached, Cpus, GlobalFlushers, prefer_full_flush
<1>9. CASE backend = "A64Tlb"
  BY <1>3, <1>4, <1>9 DEF flush_tlb_all_local, flush_tlb_range_local, flush_tlb_local, Drops, Reached, Cpus, GlobalFlushers
<1>10. CASE backend = "Rv64Tlb"
  BY <1>3, <1>4, <1>10 DEF flush_tlb_all_local, flush_tlb_range_local, flush_tlb_local, Drops, Reached, Cpus, GlobalFlushers
<1> QED
  BY <1>1, <1>5, <1>6, <1>7, <1>8, <1>9, <1>10

-------------------------------------------------------------------------------
(* The steps of the composition. *)

\* What the MMUs hold after a step that is no flush and no start of Drop.
LEMMA MmuOther ==
  ASSUME MmuNext, pc # "flush", pc' # "drop"
  PROVE  MmuWalks(tlb, tables) /\ unflushed \subseteq unflushed'
         /\ (pc = "release" /\ ret' = "DeallocRefused" => Pages(req) \subseteq unflushed')
         /\ (pc # "release" => unflushed' = unflushed)
BY DEF MmuNext

\* When a flush is due it is the only step.
LEMMA OnlyFlush ==
  ASSUME Next, pc = "flush"
  PROVE  Flush
BY DEF Next, Step, try_new, adopt, Call, DropStart, MapDescend, MapRefuse, MapInstall, MapGrow,
       MapStarve, Mapping, SplitBuild, SplitStarve, AtLeaf, Exact, ExactDescend, ExactRefuse, Rewrite,
       UnmapClear, SplitSwap, MergeDescend, MergeRefuse, MergeNothing, MergeWrite, MergeFree, Merging,
       ReclaimStop, ReclaimUnlink, ReclaimFree, Return, DropScan, DropFree

\* What each CPU holds after the step.
LEMMA MmuHolds ==
  ASSUME NEW T, NEW P, MmuWalks(T, P), NEW c \in Reached
  PROVE  /\ c \in Cpus
         /\ \A v \in ValidPages : tlb'[c][v] = T[c][v] \cup Walked'[v]
         /\ tables'[c] = P[c] \cup PointersWalked'
<1>1. c \in Cpus
  BY DEF Reached, Cpus
<1> QED
  BY <1>1 DEF MmuWalks

\* The flush of the call.
LEMMA MmuFlush ==
  ASSUME MmuNext, pc = "flush", pc' # "drop"
  PROVE  MmuWalks(TlbAfterFlush, TablesAfterFlush) /\ unflushed' = unflushed \ FlushedPages
BY DEF MmuNext

\* A step keeps every translation that is up to date and is not changed by it.
LEMMA CoherentStep ==
  ASSUME GlobalUsers \subseteq GlobalFlushers, IInv, IInv', ContentInv, MmuInv, MmuNext
  PROVE  CoherentInv'
<1> SUFFICES ASSUME InUse', NEW c \in Reached', NEW v \in ValidPages, v \notin (unflushed \cup Pending)'
             PROVE  tlb'[c][v] = {Translation(v)'}
  BY DEF CoherentInv, ValidPages
<1>1. Next /\ [Next]_vars /\ backend' = backend /\ pc' # "drop"
  BY DEF MmuNext, InUse
<1>2. c \in Reached /\ c \in Cpus /\ Walked'[v] = {Translation(v)'}
  BY <1>1 DEF Reached, Cpus, Walked, ValidPages
<1>3. CASE ~InUse
  <2>1. pc # "flush" /\ tlb = NoTlb
    <3>1. tlb = NoTlb
      BY <1>3 DEF MmuInv
    <3>2. pc # "flush"
      BY <1>3 DEF InUse, IInv, RootInv
    <3> QED
      BY <3>1, <3>2
  <2>2. tlb'[c][v] = NoTlb[c][v] \cup Walked'[v]
    BY <1>1, <1>2, <2>1, MmuOther, MmuHolds
  <2>3. NoTlb[c][v] = {}
    BY <1>2 DEF NoTlb
  <2> QED
    BY <1>2, <2>2, <2>3
<1>4. CASE InUse /\ pc = "flush"
  <2>1. Flush
    BY <1>1, <1>4, OnlyFlush
  <2>2. Translation(v)' = Translation(v)
    BY <2>1, QuietTranslation DEF Flush, memory
  <2>3. /\ tlb'[c][v] = TlbAfterFlush[c][v] \cup {Translation(v)'}
        /\ v \notin unflushed \/ v \in FlushedPages
    BY <1>1, <1>2, <1>4, MmuFlush, MmuHolds
  <2>4. CASE v \in FlushedPages
    <3>1. TlbAfterFlush[c][v] = {t \in tlb[c][v] : IsGlobal(t) /\ ~FlushDrops.globals}
      BY <1>2, <2>4, FlushReaches DEF TlbAfterFlush
    <3>2. CASE backend \in GlobalUsers
      BY <2>3, <3>1, <3>2, FlushReaches
    <3>3. CASE backend \notin GlobalUsers
      <4>1. \A t \in tlb[c][v] : ~IsGlobal(t)
        BY <1>2, <3>3 DEF MmuInv, GlobalInv
      <4> QED
        BY <2>3, <3>1, <4>1
    <3> QED
      BY <3>2, <3>3
  <2>5. CASE v \notin FlushedPages
    <3>1. v \notin unflushed \cup Pending
      BY <2>3, <2>5, FlushReaches DEF Pending
    <3>2. tlb[c][v] = {Translation(v)}
      BY <1>2, <1>4, <3>1 DEF MmuInv, CoherentInv
    <3>3. TlbAfterFlush[c][v] = tlb[c][v]
      BY <1>2, <2>5 DEF TlbAfterFlush
    <3> QED
      BY <2>2, <2>3, <3>2, <3>3
  <2> QED
    BY <2>4, <2>5
<1>5. CASE InUse /\ pc # "flush"
  <2>1. MmuWalks(tlb, tables) /\ unflushed \subseteq unflushed'
        /\ (pc = "release" /\ ret' = "DeallocRefused" => Pages(req) \subseteq unflushed')
    BY <1>1, <1>5, MmuOther
  <2>2. v \notin unflushed \cup Pending
    BY <1>1, <1>5, <2>1, PendingStays
  <2>3. MapInstall \/ Rewrite \/ UnmapClear => v \notin Pages(req)
    <3>1. MapInstall \/ Rewrite \/ UnmapClear => pc' \in {"flush", "reclaim"} /\ req' = req
      BY DEF MapInstall, Rewrite, UnmapClear
    <3> QED
      BY <3>1 DEF Pending, Pages, ValidPages
  <2>4. Translation(v)' = Translation(v)
    BY <1>1, <1>5, <2>3, TranslationStep
  <2>5. tlb[c][v] = {Translation(v)}
    BY <1>2, <1>5, <2>2 DEF MmuInv, CoherentInv
  <2>6. tlb'[c][v] = tlb[c][v] \cup {Translation(v)'}
    BY <1>2, <2>1, MmuHolds
  <2> QED
    BY <2>4, <2>5, <2>6
<1> QED
  BY <1>3, <1>4, <1>5

\* A step keeps every pointer that leads where it did, and forgets the others or has
\* their pages still to flush.
LEMMA PointerStep ==
  ASSUME GlobalUsers \subseteq GlobalFlushers, IInv, IInv', ContentInv, ContentInv', MmuInv, MmuNext
  PROVE  PointerInv'
<1> SUFFICES ASSUME InUse', backend' # "Rv64Tlb", NEW c \in Reached', NEW p \in tables'[c],
                    p.pages \cap (unflushed \cup Pending)' = {}
             PROVE  p.to \in Linked' /\ cover'[p.to] = p.pages
  BY DEF PointerInv
<1>1. Next /\ [Next]_vars /\ backend' = backend /\ pc' # "drop"
  BY DEF MmuNext, InUse
<1>2. c \in Reached /\ c \in Cpus /\ backend # "Rv64Tlb"
  BY <1>1 DEF Reached, Cpus
<1>3. CASE p \in PointersWalked'
  <2>1. (\A q : IInv /\ ContentInv /\ q \in PointersWalked => q.to \in Linked /\ cover[q.to] = q.pages)'
    BY PointersAre, PTL
  <2> QED
    BY <1>3, <2>1
<1>4. CASE p \notin PointersWalked' /\ ~InUse
  <2>1. pc # "flush" /\ tables = NoTables
    BY <1>4 DEF MmuInv, InUse, IInv, RootInv
  <2>2. p \in NoTables[c]
    BY <1>1, <1>2, <1>4, <2>1, MmuOther, MmuHolds
  <2> QED
    BY <1>2, <2>2 DEF NoTables
<1>5. CASE p \notin PointersWalked' /\ InUse /\ pc = "flush"
  <2>1. Flush
    BY <1>1, <1>5, OnlyFlush
  <2>2. p \in TablesAfterFlush[c] /\ unflushed' = unflushed \ FlushedPages
    BY <1>1, <1>2, <1>5, MmuFlush, MmuHolds
  <2>3. p \in tables[c] /\ p.pages \cap FlushedPages = {}
    BY <1>2, <2>2, FlushReaches DEF TablesAfterFlush
  <2>4. p.pages \cap (unflushed \cup Pending) = {}
    BY <2>2, <2>3, FlushReaches DEF Pending
  <2>5. p.to \in Linked /\ cover[p.to] = p.pages
    BY <1>2, <1>5, <2>3, <2>4 DEF MmuInv, PointerInv
  <2>6. UNCHANGED <<lev, cover, child>>
    BY <2>1 DEF Flush, ghosts, locals
  <2> QED
    BY <2>5, <2>6 DEF Linked, Tables
<1>6. CASE p \notin PointersWalked' /\ InUse /\ pc # "flush"
  <2>1. MmuWalks(tlb, tables) /\ unflushed \subseteq unflushed'
        /\ (pc = "release" /\ ret' = "DeallocRefused" => Pages(req) \subseteq unflushed')
    BY <1>1, <1>6, MmuOther
  <2>2. p \in tables[c] /\ p.pages \cap (unflushed \cup Pending) = {}
    BY <1>1, <1>2, <1>6, <2>1, PendingStays, MmuHolds
  <2>3. p.to \in Linked /\ cover[p.to] = p.pages
    BY <1>2, <1>6, <2>2 DEF MmuInv, PointerInv
  <2>4. ~(ReclaimUnlink /\ p.to = cur)
    BY <2>3, CutPagesPend
  <2>5. ~(MergeWrite /\ p.to = Slot.to)
    <3>1. ~(MergeWrite /\ ReclaimUnlink)
      BY DEF MergeWrite, Merging, ReclaimUnlink
    <3> QED
      BY <2>3, <3>1, CutPagesPend
  <2> QED
    BY <1>1, <1>6, <2>3, <2>4, <2>5, LinkedStays
<1> QED
  BY <1>3, <1>4, <1>5, <1>6

\* The flags of a leaf are those of the call, or of a leaf that was there.
LEMMA FlagStep ==
  ASSUME IInv, ContentInv, [Next]_vars, NEW G,
         req # NoReq => req.fl \notin G,
         \A g \in Frames, j \in Slots : mem[g][j].kind = "leaf" => mem[g][j].fl \notin G,
         NEW f \in Frames, NEW i \in Slots, mem'[f][i].kind = "leaf"
  PROVE  mem'[f][i].fl \notin G
<1>0. /\ mem \in [Frames -> [Slots -> Entries]] /\ Unused.kind = "none" /\ \A t : Table(t).kind = "table"
      /\ \A p, fl : Leaf(p, fl).fl = fl
  BY EntryTypes DEF IInv, TypeOK, Table, Leaf
<1>1. CASE UNCHANGED mem
  BY <1>1
<1>2. CASE MapInstall \/ Rewrite \/ UnmapClear \/ SplitSwap \/ MergeWrite
  <2>1. /\ pc \in {"walk", "swap"} /\ cur \in Frames /\ Idx \in Slots
        /\ MapInstall \/ Rewrite => req # NoReq
    <3>1. pc \in {"walk", "swap"}
      BY <1>2 DEF MapInstall, Mapping, Rewrite, UnmapClear, AtLeaf, Exact, SplitSwap, MergeWrite, Merging
    <3>2. MapInstall \/ Rewrite => req # NoReq
      BY DEF MapInstall, Mapping, Rewrite, AtLeaf, NoReq
    <3> QED
      BY <3>1, <3>2, AtSlot
  <2>2. \E e : WriteSlot(e) /\ (e.kind = "leaf" => e.fl \notin G)
    <3>1. CASE MapInstall \/ Rewrite
      BY <1>0, <2>1, <3>1 DEF MapInstall, Rewrite
    <3>2. CASE UnmapClear \/ SplitSwap
      BY <1>0, <3>2 DEF UnmapClear, SplitSwap
    <3>3. CASE MergeWrite
      <4>1. Slot.kind = "table" /\ MergeCheck(Slot.to) = "Ok" /\ Merging /\ lvl = TargetLevel
            /\ WriteSlot(Leaf(mem[Slot.to][0].pa, mem[Slot.to][0].fl))
        BY <3>3 DEF MergeWrite
      <4>2. Slot.to \in Frames /\ 0 \in Slots /\ mem[Slot.to][0].kind = "leaf"
        BY <4>1, MergeTable, MergeCheckIs, SizesAreNat DEF Slots
      <4> QED
        BY <1>0, <4>1, <4>2
    <3> QED
      BY <1>2, <3>1, <3>2, <3>3
  <2> QED
    BY <2>1, <2>2, SlotWrite
<1>3. CASE \E t \in Frames : MapGrow(t)
  BY <1>0, <1>3, GrowWrites
<1>4. CASE \E t \in Frames : SplitBuild(t)
  <2>1. PICK t \in Frames :
          AtLeaf("split_at") /\ mem' = [mem EXCEPT ![t] = [j \in Slots |-> Leaf(Slot.pa + j * Span[lvl-1], Slot.fl)]]
    BY <1>4 DEF SplitBuild
  <2>2. mem'[f][i] = IF f = t THEN Leaf(Slot.pa + i * Span[lvl-1], Slot.fl) ELSE mem[f][i]
    BY <1>0, <2>1
  <2>3. Slot.fl \notin G
    BY <2>1, AtSlot DEF AtLeaf, Exact, Slot
  <2> QED
    BY <1>0, <2>2, <2>3
<1>5. CASE ReclaimUnlink
  <2> DEFINE g == path[lvl+1]
             k == index_at(lvl + 1, req.start)
  <2>1. mem' = [mem EXCEPT ![g][k] = Unused]
    BY <1>5 DEF ReclaimUnlink
  <2> HIDE DEF g, k
  <2>2. mem'[f][i] = mem[f][i] \/ mem'[f][i] = Unused
    BY <1>0, <2>1
  <2> QED
    BY <1>0, <2>2
<1>6. CASE ReclaimFree \/ MergeFree \/ DropFree \/ \E t \in Frames : try_new(t)
  <2>1. PICK t : mem' = [mem EXCEPT ![t] = ZeroTable] \/ mem' = mem
    BY <1>6 DEF ReclaimFree, MergeFree, DropFree, dealloc_table_frame, try_new
  <2> QED
    BY <1>0, <2>1 DEF ZeroTable
<1>7. CASE UNCHANGED vars \/ adopt \/ (\E r \in Requests : Call(r)) \/ DropStart \/ DropScan \/ Flush \/ Return
           \/ ReclaimStop
  BY <1>1, <1>7 DEF vars, memory, adopt, Call, DropStart, DropScan, Flush, Return, ReclaimStop
<1>8. CASE MapDescend \/ ExactDescend \/ MergeDescend
  BY <1>1, <1>8 DEF MapDescend, ExactDescend, MergeDescend, StepDown, memory
<1>9. CASE MapRefuse \/ ExactRefuse \/ MergeRefuse \/ MergeNothing
           \/ \E e \in AllocErrors : MapStarve(e) \/ SplitStarve(e)
  BY <1>1, <1>9 DEF MapRefuse, ExactRefuse, MergeRefuse, MergeNothing, MapStarve, SplitStarve, Fail, memory
<1> QED
  BY <1>2, <1>3, <1>4, <1>5, <1>6, <1>7, <1>8, <1>9 DEF Next, Step

\* A translation has the flags of a leaf.
LEMMA TranslationFlags ==
  \A w, G : /\ IInv /\ InUse /\ w \in ValidPages
            /\ \A f \in Frames, i \in Slots : mem[f][i].kind = "leaf" => mem[f][i].fl \notin G
            => Translation(w) = NoTranslation \/ Translation(w).fl \notin G
<1> SUFFICES ASSUME NEW v, NEW G, IInv, InUse, v \in ValidPages,
                    \A f \in Frames, i \in Slots : mem[f][i].kind = "leaf" => mem[f][i].fl \notin G
             PROVE  Translation(v) = NoTranslation \/ Translation(v).fl \notin G
  OBVIOUS
<1>1. PICK f : EndsAt(f, v) /\ Translation(v) = ReadsAt(f, v)
  BY WalkReads
<1>2. f \in Frames /\ index_at(lev[f], v) \in Slots
  BY <1>1, CoverIndex DEF EndsAt, Linked, Tables, IInv
<1> QED
  BY <1>1, <1>2 DEF ReadsAt, Reads

\* Nothing global comes into a table whose consumer asks for nothing global.
LEMMA GlobalStep ==
  ASSUME IInv, IInv', ContentInv, MmuInv, MmuNext
  PROVE  GlobalInv'
<1> SUFFICES ASSUME backend \notin GlobalUsers
             PROVE  /\ \A f \in Frames, i \in Slots : mem'[f][i].kind = "leaf" => mem'[f][i].fl \notin GlobalFlags
                    /\ req' # NoReq => req'.fl \notin GlobalFlags
                    /\ \A c \in Cpus, v \in ValidPages : \A t \in tlb'[c][v] : ~IsGlobal(t)
  BY DEF GlobalInv, MmuNext, Cpus, ValidPages, IsGlobal, NoTranslation
<1>1. /\ \A f \in Frames, i \in Slots : mem[f][i].kind = "leaf" => mem[f][i].fl \notin GlobalFlags
      /\ req # NoReq => req.fl \notin GlobalFlags
      /\ \A c \in Cpus, v \in ValidPages : \A t \in tlb[c][v] : ~IsGlobal(t)
  BY DEF MmuInv, GlobalInv
<1>2. \A f \in Frames, i \in Slots : mem'[f][i].kind = "leaf" => mem'[f][i].fl \notin GlobalFlags
  BY <1>1, FlagStep DEF MmuNext
<1>3. req' # NoReq => req'.fl \notin GlobalFlags
  BY DEF MmuNext
<1>4. ASSUME NEW c \in Cpus, NEW v \in ValidPages, NEW t \in tlb'[c][v]
      PROVE  ~IsGlobal(t)
  <2>1. (\A w, G : /\ IInv /\ InUse /\ w \in ValidPages
                   /\ \A f \in Frames, i \in Slots : mem[f][i].kind = "leaf" => mem[f][i].fl \notin G
                   => Translation(w) = NoTranslation \/ Translation(w).fl \notin G)'
    BY TranslationFlags, PTL
  <2>2. InUse' => ~IsGlobal(Translation(v)')
    BY <1>2, <2>1 DEF ValidPages, IsGlobal, Slots
  <2>3. t \in Walked'[v] => ~IsGlobal(t)
    BY <2>2 DEF Walked, ValidPages
  <2>4. PICK T, P : MmuWalks(T, P) /\ \A d \in Cpus, w \in ValidPages : T[d][w] \subseteq tlb[d][w]
    <3>1. \A d \in Cpus, w \in ValidPages : NoTlb[d][w] \subseteq tlb[d][w]
      BY DEF NoTlb
    <3>2. \A d \in Cpus, w \in ValidPages : TlbAfterFlush[d][w] \subseteq tlb[d][w]
      BY DEF TlbAfterFlush
    <3> QED
      BY <3>1, <3>2 DEF MmuNext
  <2>5. tlb'[c][v] = IF c \in Reached THEN T[c][v] \cup Walked'[v] ELSE {}
    BY <2>4 DEF MmuWalks
  <2> QED
    BY <1>1, <2>3, <2>4, <2>5
<1> QED
  BY <1>2, <1>3, <1>4

\* Without a table nothing is cached, and a range that was unmapped is not empty.
LEMMA RestStep ==
  ASSUME IInv, IInv', ContentInv, MmuInv, MmuNext
  PROVE  /\ ~InUse' => tlb' = NoTlb /\ tables' = NoTables /\ unflushed' = {}
         /\ pc' \in {"reclaim", "release"} /\ req'.op = "unmap" => req'.start \in Pages(req')
<1>1. Next /\ [Next]_vars
  BY DEF MmuNext
<1>2. ASSUME ~InUse'
      PROVE  tlb' = NoTlb /\ tables' = NoTables /\ unflushed' = {}
  <2>1. Walked' = [v \in ValidPages |-> {}] /\ PointersWalked' = {}
    BY <1>2 DEF Walked, PointersWalked, ValidPages
  <2>2. pc # "flush"
    <3>1. pc = "flush" => Flush /\ root # NoFrame
      BY <1>1, OnlyFlush DEF IInv, RootInv
    <3> QED
      BY <1>2, <3>1 DEF Flush, Finish, memory, InUse
  <2>3. MmuWalks(NoTlb, NoTables) /\ unflushed' = {}
    <3>1. CASE pc' = "drop"
      BY <2>2, <3>1 DEF MmuNext
    <3>2. CASE pc' # "drop"
      <4>1. ~InUse
        BY <1>1, <1>2, <3>2, UseEnds DEF DropStart
      <4>2. tlb = NoTlb /\ tables = NoTables /\ unflushed = {} /\ pc # "release"
        BY <4>1 DEF MmuInv, InUse, IInv, RootInv
      <4> QED
        BY <2>2, <3>2, <4>2, MmuOther
    <3> QED
      BY <3>1, <3>2
  <2>4. tlb' = NoTlb
    <3>1. tlb' = [c \in Cpus |-> [v \in ValidPages |-> IF c \in Reached THEN NoTlb[c][v] \cup Walked'[v] ELSE {}]]
      BY <2>3 DEF MmuWalks
    <3>2. \A c \in Cpus, v \in ValidPages : NoTlb[c][v] = {} /\ Walked'[v] = {}
      BY <2>1 DEF NoTlb
    <3> QED
      BY <3>1, <3>2 DEF NoTlb
  <2>5. tables' = NoTables
    BY <2>1, <2>3 DEF MmuWalks, NoTables
  <2> QED
    BY <2>3, <2>4, <2>5
<1>3. ASSUME pc' \in {"reclaim", "release"}, req'.op = "unmap"
      PROVE  req'.start \in Pages(req')
  <2>1. UnmapClear \/ ReclaimUnlink \/ ReclaimFree \/ MergeWrite
    BY <1>1, <1>3 DEF Next, Step, try_new, adopt, Call, DropStart, MapDescend, MapRefuse, MapInstall, MapGrow,
       MapStarve, SplitBuild, SplitStarve, ExactDescend, ExactRefuse, Rewrite, StepDown, Mapping, Merging, Exact,
       AtLeaf, Fail, Finish, SplitSwap, MergeDescend, MergeRefuse, MergeNothing, MergeFree, ReclaimStop, Flush,
       Return, DropScan, DropFree
  <2>2. req' = req /\ ~MergeWrite
    BY <1>3, <2>1 DEF UnmapClear, ReclaimUnlink, ReclaimFree, MergeWrite, Merging
  <2>3. CASE UnmapClear
    <3>1. pc = "walk" /\ req.op \in Ops /\ LeafCheck = "Ok"
      BY <2>3 DEF UnmapClear, AtLeaf, Exact, Ops
    <3>2. leaf_range(req.start, lvl) = [start |-> req.start, end |-> req.end]
      BY <3>1 DEF LeafCheck
    <3>3. SlotCover(cur, Idx) = Pages(req) /\ req.start \in cover[cur] /\ lev[cur] = lvl
      BY <3>1, <3>2, RangeIsSlot, AtSlot
    <3> QED
      BY <2>2, <3>3 DEF SlotCover, Idx
  <2>4. CASE ReclaimUnlink \/ ReclaimFree
    <3>1. pc \in {"reclaim", "release"} /\ req.op = "unmap"
      BY <2>2, <2>4, <1>3 DEF ReclaimUnlink, ReclaimFree
    <3> QED
      BY <2>2, <3>1 DEF MmuInv
  <2> QED
    BY <2>1, <2>2, <2>3, <2>4
<1> QED
  BY <1>2, <1>3

\* Steps of others change nothing.
LEMMA MmuStutter ==
  ASSUME MmuInv, UNCHANGED mvars
  PROVE  MmuInv'
<1>1. UNCHANGED <<mem, root, lev, cover, child, req, pc, backend, tlb, tables, unflushed>>
  BY DEF mvars, vars, memory, locals, ghosts, hwvars
<1>2. /\ InUse' = InUse /\ Reached' = Reached /\ Pending' = Pending /\ Linked' = Linked
      /\ ValidPages' = ValidPages /\ NoTlb' = NoTlb /\ NoTables' = NoTables
      /\ \A t : IsGlobal(t)' = IsGlobal(t)
  BY <1>1 DEF InUse, Reached, Pending, Pages, ValidPages, Linked, Tables, NoTlb, NoTables, IsGlobal, Cpus,
              NoTranslation
<1>3. CoherentInv'
  <2>1. \A v : Translation(v)' = Translation(v)
    BY <1>1, QuietTranslation
  <2> QED
    BY <1>1, <1>2, <2>1 DEF CoherentInv, MmuInv
<1>4. PointerInv' /\ GlobalInv'
  BY <1>1, <1>2 DEF PointerInv, GlobalInv, MmuInv, Cpus, Slots, NoReq
<1> QED
  BY <1>1, <1>2, <1>3, <1>4 DEF MmuInv, Pages

\* What the MMUs hold is inductive together with the tree and its contents: every page
\* translates as the table says unless a flush for it is still to come, and that flush
\* comes before the call returns.
THEOREM MmuInductive ==
  ASSUME GlobalUsers \subseteq GlobalFlushers
  PROVE  /\ MmuInit => IInv /\ ContentInv /\ MmuInv
         /\ IInv /\ ContentInv /\ MmuInv /\ [MmuNext]_mvars => (IInv /\ ContentInv /\ MmuInv)'
<1>1. ASSUME MmuInit
      PROVE  IInv /\ ContentInv /\ MmuInv
  <2>1. IInv /\ ContentInv
    BY <1>1, IInvInductive, ContentInductive DEF MmuInit
  <2>2. /\ ~InUse /\ pc = "idle" /\ req = NoReq /\ tlb = NoTlb /\ tables = NoTables /\ unflushed = {}
        /\ mem = [f \in Frames |-> IF f \in BootFrames THEN BootTree.mem[f] ELSE ZeroTable]
        /\ backend \in Backends /\ (BootGlobal => backend \in GlobalUsers)
    BY <1>1 DEF MmuInit, Init, InUse
  <2>3. GlobalInv
    BY <2>2, EntryTypes DEF GlobalInv, BootGlobal, NoTlb, ZeroTable
  <2> QED
    BY <2>1, <2>2, <2>3 DEF MmuInv, CoherentInv, PointerInv
<1>2. ASSUME IInv, ContentInv, MmuInv, [MmuNext]_mvars
      PROVE  IInv' /\ ContentInv' /\ MmuInv'
  <2>1. [Next]_vars
    BY <1>2 DEF MmuNext, mvars
  <2>2. IInv' /\ ContentInv'
    BY <1>2, <2>1, IInvInductive, ContentInductive
  <2>3. ASSUME MmuNext
        PROVE  MmuInv'
    <3>1. CoherentInv' /\ PointerInv' /\ GlobalInv'
      BY <1>2, <2>2, <2>3, CoherentStep, PointerStep, GlobalStep
    <3>2. backend' \in Backends
      BY <1>2, <2>3 DEF MmuNext, MmuInv
    <3>3. /\ ~InUse' => tlb' = NoTlb /\ tables' = NoTables /\ unflushed' = {}
          /\ pc' \in {"reclaim", "release"} /\ req'.op = "unmap" => req'.start \in Pages(req')
      BY <1>2, <2>2, <2>3, RestStep
    <3> QED
      BY <3>1, <3>2, <3>3 DEF MmuInv, NoTlb, NoTables, ValidPages, Cpus, Pages
  <2> QED
    BY <1>2, <2>2, <2>3, MmuStutter
<1> QED
  BY <1>1, <1>2

\* So it holds in every state.  The assumption is the one that the run mmu_global finds
\* the code to need: a consumer maps global pages only over a backend whose flushes
\* drop them.
THEOREM MmuInvariantHolds ==
  ASSUME GlobalUsers \subseteq GlobalFlushers
  PROVE  MmuSpec => []MmuInv
BY MmuInductive, PTL DEF MmuSpec

\* Whatever a call did and however it ended, the CPUs that its flush vouches for
\* translate as the table says, but for the range of a call that a refused frame ended
\* before its flush.
THEOREM CoherentWhenCallsReturn ==
  ASSUME GlobalUsers \subseteq GlobalFlushers
  PROVE  MmuSpec => []CoherentAtReturn
<1>1. MmuInv => CoherentAtReturn
  BY DEF MmuInv, CoherentInv, Pending, CoherentAtReturn
<1> QED
  BY <1>1, MmuInvariantHolds, PTL

\* And they hold no pointer to a table that was cut off or freed, under every backend
\* but Rv64Tlb: sfence.vma with an address orders leaf entries only.
THEOREM FreedTablesAreForgotten ==
  ASSUME GlobalUsers \subseteq GlobalFlushers, "Rv64Tlb" \notin Backends
  PROVE  MmuSpec => []FreedTablesForgotten
<1>1. MmuInv => FreedTablesForgotten
  BY DEF MmuInv, PointerInv, Pending, FreedTablesForgotten
<1> QED
  BY <1>1, MmuInvariantHolds, PTL

===============================================================================

------------------------- MODULE PageTableWalkerProofs -------------------------
(***************************************************************************)
(* Proofs about PageTableWalker, for every number of frames, levels and    *)
(* entries, every set of calls and every adopted table.                    *)
(***************************************************************************)
EXTENDS PageTableWalker, TLAPS

-------------------------------------------------------------------------------
(* Geometry and entries. *)

\* Every table index is inside the table.
LEMMA IndexInTable ==
  ASSUME NEW l \in 1..LEVELS, NEW v \in Nat
  PROVE  index_at(l, v) \in Slots
<1> DEFINE n == IF l = LEVELS THEN RootEntries ELSE E
<1>1. Span[l] \in Nat \ {0}
  BY GeometryAssumption
<1>2. v \div Span[l] \in Nat
  BY <1>1
<1>3. n \in Nat \ {0} /\ n <= E /\ E \in Nat
  BY GeometryAssumption
<1> HIDE DEF n
<1>4. (v \div Span[l]) % n \in 0..n-1
  BY <1>2, <1>3
<1>5. (v \div Span[l]) % n \in Slots
  BY <1>3, <1>4 DEF Slots
<1> QED
  BY <1>5 DEF index_at, n

LEMMA SizesAreNat == LEVELS \in Nat /\ LEVELS >= 1 /\ E \in Nat /\ E > 1
BY GeometryAssumption DEF MAX_LEVELS

LEMMA PageIsNat ==
  ASSUME NEW v \in ValidPages
  PROVE  v \in Nat
BY GeometryAssumption DEF ValidPages

\* The translated space is not empty: page 0 is valid.
LEMMA ZeroIsValid == 0 \in ValidPages
<1>1. LEVELS \in Nat /\ LEVELS >= 1 /\ Span[LEVELS] \in Nat \ {0}
  BY GeometryAssumption DEF MAX_LEVELS
<1>2. RootEntries \in Nat \ {0}
  BY GeometryAssumption
<1>3. VaSize \in Nat /\ VaSize > 0 /\ 2 * VaSize <= UMAX
  BY <1>1, <1>2, GeometryAssumption DEF VaSize
<1> QED
  BY <1>3, GeometryAssumption DEF ValidPages, vaddr_is_valid

\* The kinds of entries, and what each carries.
LEMMA EntryKinds ==
  ASSUME NEW e \in Entries
  PROVE  /\ e.kind \in {"none", "invalid", "table", "leaf"}
         /\ e.kind = "none" => e = Unused
         /\ e.kind = "table" => e.to \in Frames /\ e = Table(e.to)
         /\ e.kind = "leaf" => e.pa \in Nat /\ e.fl \in Flags
BY DEF Entries, Unused, Invalid, Table

LEMMA EntryTypes ==
  /\ Unused \in Entries /\ Unused.kind = "none"
  /\ \A f \in Frames : Table(f) \in Entries /\ Table(f).kind = "table" /\ Table(f).to = f
  /\ \A p \in Nat, fl \in Flags : Leaf(p, fl) \in Entries /\ Leaf(p, fl).kind = "leaf"
BY DEF Entries, Unused, Table, Leaf

LEMMA ZeroTableType == ZeroTable \in [Slots -> Entries]
BY EntryTypes DEF ZeroTable

-------------------------------------------------------------------------------
(* The tree between calls and inside them. *)

TreeInv == NoDanglingTable /\ NoLostFrame /\ OnePath /\ CoverInv /\ BootInv

\* Outside Drop every table entry of a linked table is a link.
LEMMA LinksOutsideDrop ==
  ASSUME pc # "drop"
  PROVE  \A f \in Frames, i \in Slots : Links(f, i) <=> f \in Linked /\ mem[f][i].kind = "table"
BY DEF Links, Scanned

\* A page a table serves has an entry in it.
LEMMA CoverIndex ==
  ASSUME TypeOK, NEW f \in Tables, NEW v \in cover[f]
  PROVE  /\ f \in Frames /\ lev[f] \in 1..LEVELS /\ v \in ValidPages
         /\ index_at(lev[f], v) \in Slots /\ v \in SlotCover(f, index_at(lev[f], v))
<1>1. f \in Frames /\ lev[f] \in 1..LEVELS
  BY SizesAreNat DEF TypeOK, Tables
<1>2. v \in ValidPages /\ v \in Nat
  BY <1>1, PageIsNat DEF TypeOK
<1> QED
  BY <1>1, <1>2, IndexInTable DEF SlotCover

\* A step that touches neither memory nor the frames nor what is a link keeps
\* the tree.
LEMMA TreeSameLinks ==
  ASSUME IInv, UNCHANGED <<mem, owner, root, lev, cover, child>>,
         \A f \in Frames, i \in Slots : Links(f, i)' <=> Links(f, i)
  PROVE  TreeInv'
<1>1. Tables' = Tables /\ Linked' = Linked
  BY DEF Tables, Linked
<1>2. \A f \in Frames, i \in Slots : SlotCover(f, i)' = SlotCover(f, i)
  BY DEF SlotCover
<1>3. NoDanglingTable'
  BY <1>1, <1>2 DEF IInv, NoDanglingTable
<1>4. NoLostFrame'
  BY <1>1 DEF IInv, NoLostFrame
<1>5. OnePath'
  <2> SUFFICES ASSUME NEW f \in Linked, NEW g \in Linked, NEW v \in cover[f] \cap cover[g]
               PROVE  /\ lev[f] = lev[g] => f = g
                      /\ lev[f] < lev[g] => Links(g, index_at(lev[g], v))'
    BY <1>1 DEF OnePath
  <2>1. g \in Frames /\ index_at(lev[g], v) \in Slots
    BY CoverIndex DEF IInv, Linked
  <2>2. lev[f] < lev[g] => Links(g, index_at(lev[g], v))
    BY DEF IInv, OnePath
  <2>3. Links(g, index_at(lev[g], v))' <=> Links(g, index_at(lev[g], v))
    BY <2>1
  <2> QED
    BY <2>2, <2>3 DEF IInv, OnePath
<1>6. CoverInv' /\ BootInv'
  BY <1>1 DEF IInv, CoverInv, BootInv
<1> QED
  BY <1>3, <1>4, <1>5, <1>6 DEF TreeInv

LEMMA TreeUntouched ==
  ASSUME IInv, pc # "drop", pc' # "drop", UNCHANGED <<mem, owner, root, lev, cover, child>>
  PROVE  TreeInv'
<1>1. \A f \in Frames, i \in Slots : Links(f, i)' <=> Links(f, i)
  BY DEF Links, Scanned, Linked, Tables
<1> QED
  BY <1>1, TreeSameLinks

\* In a descent the table is a linked one and the index a slot of it.
LEMMA AtSlot ==
  ASSUME IInv, pc \in {"walk", "reclaim", "swap"}
  PROVE  /\ cur \in Frames /\ cur \in Linked /\ lvl \in 1..LEVELS /\ lev[cur] = lvl
         /\ req.start \in cover[cur] /\ req.start \in ValidPages /\ req.start \in Nat
         /\ Idx \in Slots /\ Slot \in Entries
         /\ req.start \in SlotCover(cur, Idx)
         /\ root # NoFrame /\ owner[cur] \in {"walker", "adopted"}
<1>1. cur \in Frames /\ cur \in Linked /\ lvl \in 1..LEVELS /\ lev[cur] = lvl /\ req.start \in cover[cur]
  BY DEF IInv, TypeOK, WalkInv, AtTable
<1>2. req.start \in ValidPages
  BY <1>1 DEF IInv, TypeOK
<1>3. req.start \in Nat
  BY <1>2, PageIsNat
<1>4. Idx \in Slots
  BY <1>1, <1>3, IndexInTable DEF Idx
<1>5. Slot \in Entries
  BY <1>1, <1>4 DEF Slot, IInv, TypeOK
<1>6. req.start \in SlotCover(cur, Idx)
  BY <1>1 DEF SlotCover, Idx
<1>7. root # NoFrame /\ owner[cur] \in {"walker", "adopted"}
  BY <1>1 DEF IInv, RootInv, NoLostFrame, Linked
<1> QED
  BY <1>1, <1>2, <1>3, <1>4, <1>5, <1>6, <1>7

\* The table behind an entry is one level down and serves the page as well.
LEMMA NextTable ==
  ASSUME IInv, pc \in {"walk", "reclaim", "swap"}, Slot.kind = "table"
  PROVE  /\ Slot.to \in Linked /\ Slot.to \in Frames \ {root} /\ lvl - 1 \in 1..LEVELS
         /\ lev[Slot.to] = lvl - 1 /\ cover[Slot.to] = SlotCover(cur, Idx)
<1>1. Links(cur, Idx)
  BY AtSlot, LinksOutsideDrop DEF Slot
<1>2. Slot.to \in Linked \ {root} /\ lev[Slot.to] = lev[cur] - 1 /\ cover[Slot.to] = SlotCover(cur, Idx)
  BY <1>1, AtSlot DEF IInv, NoDanglingTable, Slot
<1>3. Slot.to \in Frames /\ lev[Slot.to] > 0
  BY <1>2 DEF Linked, Tables
<1> QED
  BY <1>2, <1>3, AtSlot, SizesAreNat

\* A table is linked from one entry only.
LEMMA UniqueLink ==
  ASSUME IInv, NEW f \in Frames, NEW g \in Frames, NEW i \in Slots, NEW j \in Slots,
         Links(f, i), Links(g, j), mem[f][i].to = mem[g][j].to
  PROVE  f = g /\ i = j
<1> DEFINE t == mem[f][i].to
<1>1. t \in Linked /\ lev[f] = lev[t] + 1 /\ lev[g] = lev[t] + 1
      /\ cover[t] = SlotCover(f, i) /\ cover[t] = SlotCover(g, j)
  <2>1. f \in Frames /\ g \in Frames /\ lev[f] \in Nat /\ lev[g] \in Nat
    BY DEF IInv, TypeOK
  <2> QED
    BY <2>1 DEF IInv, NoDanglingTable, TypeOK
<1>2. PICK v : v \in cover[t]
  BY <1>1 DEF IInv, CoverInv, Linked
<1>3. v \in cover[f] /\ v \in cover[g] /\ index_at(lev[f], v) = i /\ index_at(lev[g], v) = j
  BY <1>1, <1>2 DEF SlotCover
<1>4. f \in Linked /\ g \in Linked
  BY DEF Links
<1>5. f = g
  BY <1>1, <1>3, <1>4 DEF IInv, OnePath
<1> QED
  BY <1>3, <1>5

\* Below an entry whose table links nothing there is that table only.
LEMMA NothingBelow ==
  ASSUME IInv, NEW g \in Frames, NEW i \in Slots, Links(g, i),
         \A j \in Slots : ~Links(mem[g][i].to, j),
         NEW f \in Linked, NEW v \in cover[f], v \in SlotCover(g, i), lev[f] < lev[g]
  PROVE  f = mem[g][i].to
<1> DEFINE t == mem[g][i].to
<1>1. t \in Linked /\ lev[t] = lev[g] - 1 /\ v \in cover[t]
  BY DEF IInv, NoDanglingTable
<1>2. f \in Tables /\ t \in Tables /\ lev[f] \in Int /\ lev[t] \in Int /\ lev[g] \in Int
  BY <1>1 DEF Linked, Tables, IInv, TypeOK
<1>3. ~(lev[f] < lev[t])
  <2>1. index_at(lev[t], v) \in Slots
    BY <1>1, <1>2, CoverIndex DEF IInv
  <2> QED
    BY <1>1, <2>1 DEF IInv, OnePath
<1>4. lev[f] = lev[t]
  BY <1>1, <1>2, <1>3
<1> QED
  BY <1>1, <1>4 DEF IInv, OnePath

-------------------------------------------------------------------------------
(* Stores. *)

\* A store that replaces an entry that is no table by another that is none.
LEMMA LeafWrite ==
  ASSUME IInv, pc = "walk", Slot.kind # "table", pc' # "drop",
         NEW e \in Entries, e.kind # "table", WriteSlot(e),
         UNCHANGED <<owner, root, lev, cover, child>>
  PROVE  TreeInv' /\ mem' \in [Frames -> [Slots -> Entries]]
<1>1. /\ cur \in Frames /\ Idx \in Slots /\ owner[cur] # "boot"
  BY AtSlot
<1>2. mem' = [mem EXCEPT ![cur][Idx] = e] /\ mem \in [Frames -> [Slots -> Entries]]
  BY DEF WriteSlot, IInv, TypeOK
<1>3. mem' \in [Frames -> [Slots -> Entries]]
  BY <1>1, <1>2
<1>4. \A f \in Frames, i \in Slots :
        /\ mem'[f][i].kind = "table" <=> mem[f][i].kind = "table"
        /\ mem[f][i].kind = "table" => mem'[f][i] = mem[f][i]
  BY <1>1, <1>2 DEF Slot
<1>5. Tables' = Tables /\ Linked' = Linked
  BY DEF Tables, Linked
<1>6. \A f \in Frames, i \in Slots : Links(f, i)' <=> Links(f, i)
  BY <1>4, <1>5 DEF Links, Scanned
<1>7. \A f \in Frames, i \in Slots : SlotCover(f, i)' = SlotCover(f, i)
  BY DEF SlotCover
<1>8. \A f \in Frames, i \in Slots : Links(f, i) => mem'[f][i] = mem[f][i]
  BY <1>4 DEF Links
<1>9. NoDanglingTable'
  BY <1>5, <1>6, <1>7, <1>8 DEF IInv, NoDanglingTable
<1>10. NoLostFrame'
  BY <1>5, <1>6, <1>8 DEF IInv, NoLostFrame
<1>11. OnePath'
  <2> SUFFICES ASSUME NEW f \in Linked, NEW g \in Linked, NEW v \in cover[f] \cap cover[g]
               PROVE  /\ lev[f] = lev[g] => f = g
                      /\ lev[f] < lev[g] => Links(g, index_at(lev[g], v))'
    BY <1>5 DEF OnePath
  <2>1. g \in Frames /\ index_at(lev[g], v) \in Slots
    BY CoverIndex DEF IInv, Linked
  <2> QED
    BY <1>6, <2>1 DEF IInv, OnePath
<1>12. CoverInv' /\ BootInv'
  BY <1>1, <1>2, <1>5 DEF IInv, CoverInv, BootInv
<1> QED
  BY <1>3, <1>9, <1>10, <1>11, <1>12 DEF TreeInv

\* Linking table t, which has no table entries itself, from an entry that was no
\* table: a fresh one (map) or the one split_at has filled.
LEMMA LinkTable ==
  ASSUME IInv, pc \in {"walk", "swap"}, Slot.kind # "table", pc' # "drop",
         NEW t \in Frames \ Linked, child \in {NoFrame, t}, child' = NoFrame, root' = root,
         lvl - 1 \in 1..LEVELS,
         mem' \in [Frames -> [Slots -> Entries]],
         mem'[cur][Idx] = Table(t),
         \A i \in Slots : mem'[t][i].kind # "table",
         \A g \in Frames \ {t} :
           /\ owner'[g] = owner[g] /\ lev'[g] = lev[g] /\ cover'[g] = cover[g]
           /\ \A i \in Slots : g # cur \/ i # Idx => mem'[g][i] = mem[g][i],
         owner'[t] = "walker", lev'[t] = lvl - 1, cover'[t] = SlotCover(cur, Idx)
  PROVE  TreeInv'
<1>1. /\ cur \in Frames /\ Idx \in Slots /\ cur \in Linked /\ lvl = lev[cur] /\ t # cur
      /\ lvl \in 1..LEVELS /\ owner[cur] # "boot"
  BY AtSlot
<1>2. Tables' = Tables \cup {t} /\ Linked' = Linked \cup {t}
  <2>1. NoFrame \notin Frames
    BY FrameAssumption
  <2>2. \A g \in Frames : lev'[g] > 0 <=> lev[g] > 0 \/ g = t
    BY SizesAreNat
  <2> QED
    BY <2>1, <2>2 DEF Tables, Linked
<1>3. \A g \in Frames \ {t}, i \in Slots : SlotCover(g, i)' = SlotCover(g, i)
  BY DEF SlotCover
<1>4. \A f \in Frames, i \in Slots :
        Links(f, i)' <=> (f = cur /\ i = Idx) \/ Links(f, i)
  <2>1. mem'[cur][Idx].kind = "table"
    BY EntryTypes
  <2> QED
    BY <1>1, <1>2, <2>1, LinksOutsideDrop DEF Links, Scanned, Slot
<1>5. \A f \in Frames, i \in Slots : Links(f, i) => mem'[f][i] = mem[f][i] /\ f # t
  BY LinksOutsideDrop DEF Slot
<1>6. NoDanglingTable'
  <2> SUFFICES ASSUME NEW f \in Frames, NEW i \in Slots, Links(f, i)'
               PROVE  LET u == mem'[f][i].to IN
                      /\ u \in Linked' \ {root'} /\ lev'[u] = lev'[f] - 1
                      /\ cover'[u] = SlotCover(f, i)'
    BY DEF NoDanglingTable
  <2>1. CASE f = cur /\ i = Idx
    <3>1. root \in Linked /\ t # root
      BY AtSlot DEF IInv, RootInv
    <3> QED
      BY <1>1, <1>2, <1>3, <2>1, <3>1, EntryTypes
  <2>2. CASE Links(f, i)
    <3>1. /\ mem[f][i].to \in Linked \ {root} /\ lev[mem[f][i].to] = lev[f] - 1
          /\ cover[mem[f][i].to] = SlotCover(f, i)
      BY <2>2 DEF IInv, NoDanglingTable
    <3>2. mem[f][i].to \in Frames \ {t}
      BY <3>1 DEF Linked, Tables
    <3> QED
      BY <1>2, <1>3, <1>5, <2>2, <3>1, <3>2
  <2> QED
    BY <1>4, <2>1, <2>2
<1>7. NoLostFrame'
  <2>1. \A f \in Frames : owner'[f] = "walker" => f \in Tables'
    BY <1>2 DEF IInv, NoLostFrame
  <2>2. \A f \in Tables' : owner'[f] \in {"walker", "adopted"}
    BY <1>2 DEF IInv, NoLostFrame, Tables
  <2>3. ASSUME NEW u \in Tables' \ {root', child'}
        PROVE  \E f \in Frames, i \in Slots : Links(f, i)' /\ mem'[f][i].to = u
    <3>1. CASE u = t
      BY <1>1, <1>4, <3>1, EntryTypes
    <3>2. CASE u # t
      <4>1. PICK f \in Frames, i \in Slots : Links(f, i) /\ mem[f][i].to = u
        BY <1>2, <3>2 DEF IInv, NoLostFrame, Tables
      <4> QED
        BY <1>4, <1>5, <4>1
    <3> QED
      BY <3>1, <3>2
  <2> QED
    BY <2>1, <2>2, <2>3 DEF NoLostFrame
<1>8. OnePath'
  <2> SUFFICES ASSUME NEW f \in Linked', NEW g \in Linked', NEW v \in cover'[f] \cap cover'[g]
               PROVE  /\ lev'[f] = lev'[g] => f = g
                      /\ lev'[f] < lev'[g] => Links(g, index_at(lev[g], v))'
    BY DEF OnePath
  <2>1. \A x \in Linked : /\ x \in Frames
                          /\ v \in cover[x] => /\ lev[x] \in 1..LEVELS
                                               /\ index_at(lev[x], v) \in Slots
    BY CoverIndex DEF IInv, Linked, Tables
  <2>2. CASE f # t /\ g # t
    BY <1>2, <1>4, <2>1, <2>2 DEF IInv, OnePath
  <2>3. CASE f = t /\ g = t
    BY <2>3, <1>1
  <2>4. ASSUME NEW x \in Linked, v \in cover[x], v \in SlotCover(cur, Idx)
        PROVE  lev[x] >= lvl /\ Links(x, index_at(lev[x], v))'
    <3>1. x \in Frames /\ lev[x] \in 1..LEVELS /\ index_at(lev[x], v) \in Slots /\ v \in cover[cur]
          /\ index_at(lvl, v) = Idx
      BY <1>1, <2>1, <2>4 DEF SlotCover
    <3>2. ~Links(cur, Idx)
      BY <1>1, LinksOutsideDrop DEF Slot
    <3>3. ~(lev[x] < lvl)
      BY <1>1, <3>1, <3>2, <2>4 DEF IInv, OnePath
    <3>4. CASE lev[x] = lvl
      <4>1. x = cur
        BY <1>1, <3>1, <3>4, <2>4 DEF IInv, OnePath
      <4> QED
        BY <1>1, <1>4, <3>1, <3>4, <4>1
    <3>5. CASE lvl < lev[x]
      BY <1>1, <1>4, <3>1, <3>5, <2>4 DEF IInv, OnePath
    <3> QED
      BY <1>1, <3>1, <3>3, <3>4, <3>5, SizesAreNat
  <2>5. CASE f = t /\ g # t
    BY <1>1, <1>2, <2>1, <2>4, <2>5, SizesAreNat
  <2>6. CASE f # t /\ g = t
    BY <1>1, <1>2, <2>1, <2>4, <2>6, SizesAreNat
  <2> QED
    BY <2>2, <2>3, <2>5, <2>6
<1>9. CoverInv'
  BY <1>2, AtSlot DEF IInv, CoverInv, Tables
<1>10. BootInv'
  <2> SUFFICES ASSUME NEW f \in Frames, owner'[f] = "boot"
               PROVE  f \in BootFrames /\ mem'[f] = BootTree.mem[f]
    BY DEF BootInv
  <2>1. f # t /\ f # cur /\ owner[f] = "boot"
    BY <1>1
  <2>2. mem'[f] = mem[f]
    BY <2>1 DEF IInv, TypeOK
  <2> QED
    BY <2>1, <2>2 DEF IInv, BootInv
<1> QED
  BY <1>6, <1>7, <1>8, <1>9, <1>10 DEF TreeInv

\* Cutting off a table that links nothing (an empty one, or one of mergeable
\* leaves): it becomes the table in transit.
LEMMA CutTable ==
  ASSUME IInv, pc # "drop", pc' # "drop",
         NEW h \in Frames, NEW k \in Slots, NEW c, Links(h, k), c = mem[h][k].to,
         \A i \in Slots : mem[c][i].kind # "table",
         NEW e \in Entries, e.kind # "table", mem' = [mem EXCEPT ![h][k] = e],
         child = NoFrame, child' = c, UNCHANGED <<owner, root, lev, cover>>
  PROVE  TreeInv' /\ mem' \in [Frames -> [Slots -> Entries]] /\ c \in Tables' \ {root'}
<1>1. c \in Linked \ {root} /\ c \in Frames /\ c \in Tables /\ h \in Linked /\ h \in Tables
      /\ lev[c] = lev[h] - 1 /\ cover[c] = SlotCover(h, k) /\ c # h
  <2>1. c \in Linked \ {root} /\ lev[c] = lev[h] - 1 /\ cover[c] = SlotCover(h, k)
    BY DEF IInv, NoDanglingTable
  <2>2. lev[h] \in Nat
    BY DEF IInv, TypeOK
  <2> QED
    BY <2>1, <2>2 DEF Links, Linked, Tables
<1>2. mem' \in [Frames -> [Slots -> Entries]]
  BY DEF IInv, TypeOK
<1>3. Tables' = Tables /\ Linked' = Linked \ {c} /\ Linked = Tables
  BY FrameAssumption DEF Tables, Linked
<1>4. \A f \in Frames, i \in Slots :
        /\ Links(f, i)' <=> Links(f, i) /\ ~(f = h /\ i = k)
        /\ Links(f, i)' => mem'[f][i] = mem[f][i]
        /\ Links(f, i) => f # c
  <2>1. \A f \in Frames, i \in Slots :
          mem'[f][i] = IF f = h /\ i = k THEN e ELSE mem[f][i]
    BY DEF IInv, TypeOK
  <2> QED
    BY <1>1, <1>3, <2>1, LinksOutsideDrop DEF Links, Scanned
<1>5. \A f \in Frames, i \in Slots : SlotCover(f, i)' = SlotCover(f, i)
  BY DEF SlotCover
<1>6. NoDanglingTable'
  <2> SUFFICES ASSUME NEW f \in Frames, NEW i \in Slots, Links(f, i)'
               PROVE  LET u == mem'[f][i].to IN
                      /\ u \in Linked' \ {root'} /\ lev'[u] = lev'[f] - 1
                      /\ cover'[u] = SlotCover(f, i)'
    BY DEF NoDanglingTable
  <2>1. Links(f, i) /\ ~(f = h /\ i = k) /\ mem'[f][i] = mem[f][i]
    BY <1>4
  <2>2. mem[f][i].to # c
    BY <2>1, UniqueLink
  <2> QED
    BY <1>3, <1>5, <2>1, <2>2 DEF IInv, NoDanglingTable
<1>7. NoLostFrame'
  <2>1. ASSUME NEW u \in Tables' \ {root', child'}
        PROVE  \E f \in Frames, i \in Slots : Links(f, i)' /\ mem'[f][i].to = u
    <3>1. PICK f \in Frames, i \in Slots : Links(f, i) /\ mem[f][i].to = u
      BY <1>3, FrameAssumption DEF IInv, NoLostFrame, Tables
    <3> QED
      BY <1>4, <3>1
  <2> QED
    BY <1>3, <2>1 DEF IInv, NoLostFrame
<1>8. OnePath'
  <2> SUFFICES ASSUME NEW f \in Linked', NEW g \in Linked', NEW v \in cover[f] \cap cover[g]
               PROVE  /\ lev[f] = lev[g] => f = g
                      /\ lev[f] < lev[g] => Links(g, index_at(lev[g], v))'
    BY DEF OnePath
  <2>1. g \in Frames /\ index_at(lev[g], v) \in Slots /\ v \in SlotCover(g, index_at(lev[g], v))
    BY <1>3, CoverIndex DEF IInv
  <2>2. ASSUME lev[f] < lev[g]
        PROVE  Links(g, index_at(lev[g], v))'
    <3>1. Links(g, index_at(lev[g], v))
      BY <1>3, <2>2 DEF IInv, OnePath
    <3>2. ASSUME g = h, index_at(lev[g], v) = k
          PROVE  FALSE
      <4>1. \A j \in Slots : ~Links(mem[h][k].to, j)
        BY <1>1, <1>4
      <4>2. f \in Linked /\ f # c /\ v \in cover[f] /\ v \in SlotCover(h, k)
        BY <1>3, <2>1, <3>2
      <4> QED
        BY <2>2, <3>2, <4>1, <4>2, NothingBelow
    <3> QED
      BY <1>4, <2>1, <3>1, <3>2
  <2> QED
    BY <1>3, <2>2 DEF IInv, OnePath
<1>9. CoverInv' /\ BootInv'
  <2>1. owner[h] # "boot"
    BY <1>1 DEF IInv, NoLostFrame
  <2> QED
    BY <1>3, <2>1 DEF IInv, CoverInv, BootInv, TypeOK
<1> QED
  BY <1>1, <1>2, <1>3, <1>6, <1>7, <1>8, <1>9 DEF TreeInv

\* Freeing the table in transit, which nothing links any more.
LEMMA FreeChild ==
  ASSUME IInv, pc = "release", pc' # "drop",
         dealloc_table_frame(child), child' = NoFrame, root' = root
  PROVE  /\ TreeInv' /\ Linked' = Linked /\ mem' \in [Frames -> [Slots -> Entries]]
         /\ owner' \in [Frames -> {"free", "walker", "boot", "adopted"}]
         /\ lev' \in [Frames -> 0..LEVELS] /\ cover' \in [Frames -> SUBSET ValidPages]
         /\ \A f \in Frames \ {child} :
              mem'[f] = mem[f] /\ lev'[f] = lev[f] /\ cover'[f] = cover[f]
<1>1. child \in Frames /\ child \in Tables /\ child # root /\ owner[child] \in {"walker", "adopted"}
  BY DEF IInv, ChildInv, Tables, NoLostFrame
<1>2. /\ mem \in [Frames -> [Slots -> Entries]]
      /\ owner \in [Frames -> {"free", "walker", "boot", "adopted"}]
      /\ lev \in [Frames -> 0..LEVELS] /\ cover \in [Frames -> SUBSET ValidPages]
  BY DEF IInv, TypeOK
<1>3. lev' = [lev EXCEPT ![child] = 0] /\ cover' = [cover EXCEPT ![child] = {}]
  BY DEF dealloc_table_frame
<1>4. /\ mem' \in [Frames -> [Slots -> Entries]]
      /\ owner' \in [Frames -> {"free", "walker", "boot", "adopted"}]
      /\ \A f \in Frames \ {child} : mem'[f] = mem[f] /\ owner'[f] = owner[f]
      /\ owner'[child] \in {"free", "adopted"}
  BY <1>1, <1>2, ZeroTableType DEF dealloc_table_frame, CanFree
<1>5. lev' \in [Frames -> 0..LEVELS] /\ cover' \in [Frames -> SUBSET ValidPages]
  <2>1. 0 \in 0..LEVELS /\ {} \in SUBSET ValidPages
    BY SizesAreNat
  <2> QED
    BY <1>1, <1>2, <1>3, <2>1
<1>6. \A f \in Frames \ {child} : lev'[f] = lev[f] /\ cover'[f] = cover[f]
  BY <1>2, <1>3
<1>7. Tables' = Tables \ {child} /\ Linked' = Linked /\ Linked = Tables \ {child}
  <2>1. lev'[child] = 0
    BY <1>1, <1>2, <1>3
  <2> QED
    BY <1>6, <2>1, FrameAssumption DEF Tables, Linked
<1>8. \A f \in Frames, i \in Slots :
        /\ Links(f, i)' <=> Links(f, i)
        /\ Links(f, i) => mem'[f][i] = mem[f][i] /\ f # child
  BY <1>4, <1>7 DEF Links, Scanned
<1>9. \A f \in Frames \ {child}, i \in Slots : SlotCover(f, i)' = SlotCover(f, i)
  BY <1>6 DEF SlotCover
<1>10. NoDanglingTable'
  <2> SUFFICES ASSUME NEW f \in Frames, NEW i \in Slots, Links(f, i)'
               PROVE  LET u == mem'[f][i].to IN
                      /\ u \in Linked' \ {root'} /\ lev'[u] = lev'[f] - 1
                      /\ cover'[u] = SlotCover(f, i)'
    BY DEF NoDanglingTable
  <2>1. Links(f, i) /\ mem'[f][i] = mem[f][i] /\ f # child
    BY <1>8
  <2>2. /\ mem[f][i].to \in Linked \ {root} /\ lev[mem[f][i].to] = lev[f] - 1
        /\ cover[mem[f][i].to] = SlotCover(f, i)
    BY <2>1 DEF IInv, NoDanglingTable
  <2>3. mem[f][i].to \in Frames \ {child}
    BY <1>7, <2>2 DEF Tables
  <2> QED
    BY <1>6, <1>7, <1>9, <2>1, <2>2, <2>3
<1>11. NoLostFrame'
  <2>1. ASSUME NEW u \in Tables' \ {root', child'}
        PROVE  \E f \in Frames, i \in Slots : Links(f, i)' /\ mem'[f][i].to = u
    <3>1. PICK f \in Frames, i \in Slots : Links(f, i) /\ mem[f][i].to = u
      BY <1>7 DEF IInv, NoLostFrame
    <3> QED
      BY <1>8, <3>1
  <2>2. \A f \in Frames : owner'[f] = "walker" => f \in Tables'
    BY <1>4, <1>7 DEF IInv, NoLostFrame
  <2>3. \A f \in Tables' : owner'[f] \in {"walker", "adopted"}
    BY <1>4, <1>7 DEF IInv, NoLostFrame, Tables
  <2> QED
    BY <2>1, <2>2, <2>3 DEF NoLostFrame
<1>12. OnePath'
  <2> SUFFICES ASSUME NEW f \in Linked', NEW g \in Linked', NEW v \in cover'[f] \cap cover'[g]
               PROVE  /\ lev'[f] = lev'[g] => f = g
                      /\ lev'[f] < lev'[g] => Links(g, index_at(lev[g], v))'
    BY DEF OnePath
  <2>1. /\ f \in Linked /\ g \in Linked /\ v \in cover[f] /\ v \in cover[g]
        /\ lev'[f] = lev[f] /\ lev'[g] = lev[g]
    BY <1>6, <1>7 DEF Tables
  <2>2. g \in Frames /\ index_at(lev[g], v) \in Slots
    BY <1>7, <2>1, CoverIndex DEF IInv
  <2> QED
    BY <1>8, <2>1, <2>2 DEF IInv, OnePath
<1>13. CoverInv' /\ BootInv'
  BY <1>4, <1>6, <1>7 DEF IInv, CoverInv, BootInv, Tables
<1> QED
  BY <1>4, <1>5, <1>6, <1>7, <1>10, <1>11, <1>12, <1>13 DEF TreeInv

-------------------------------------------------------------------------------
(* Steps that leave the tree alone. *)

ControlInv == RootInv /\ WalkInv /\ ChildInv /\ DropInv

LEMMA WalkFacts ==
  ASSUME IInv, pc \in {"walk", "reclaim", "flush", "return"}
  PROVE  /\ child = NoFrame /\ pos = NoPos /\ root # NoFrame
         /\ root \in Linked /\ lev[root] = LEVELS /\ cover[root] = ValidPages
BY DEF IInv, ChildInv, DropInv, RootInv

\* A call ends without touching the table: its refusals, and the flush.
LEMMA EndStep ==
  ASSUME IInv, pc \in {"walk", "flush"}, NEW r \in Results, Finish(r), untidy' \in BOOLEAN,
         UNCHANGED <<memory, ghosts, req, locals>>
  PROVE  IInv'
<1>1. TreeInv'
  BY TreeUntouched DEF Finish, memory, ghosts, locals
<1>2. TypeOK'
  BY DEF IInv, TypeOK, Finish, memory, ghosts, locals
<1>3. ControlInv'
  BY WalkFacts DEF ControlInv, IInv, RootInv, WalkInv, ChildInv, DropInv, Finish, memory, ghosts,
     locals, Linked, Tables
<1> QED
  BY <1>1, <1>2, <1>3 DEF IInv, TreeInv, ControlInv

LEMMA RefuseSteps ==
  ASSUME IInv,
         \/ MapRefuse \/ ExactRefuse \/ MergeRefuse \/ MergeNothing \/ Flush
         \/ \E e \in AllocErrors : MapStarve(e) \/ SplitStarve(e)
  PROVE  IInv'
<1>1. untidy \in BOOLEAN
  BY DEF IInv, TypeOK
<1>2. ASSUME NEW r \in Results, Fail(r), pc = "walk"
      PROVE  IInv'
  BY <1>1, <1>2, EndStep DEF Fail
<1>3. CASE MapRefuse
  BY <1>2, <1>3 DEF MapRefuse, Mapping, Results
<1>4. CASE ExactRefuse
  <2>1. LeafCheck \in Results
    BY DEF LeafCheck, Results
  <2> QED
    BY <1>2, <1>4, <2>1 DEF ExactRefuse, Exact, Results
<1>5. CASE MergeRefuse
  <2>1. MergeCheck(Slot.to) \in Results
    BY DEF MergeCheck, Results
  <2> QED
    BY <1>2, <1>5, <2>1 DEF MergeRefuse, Merging, Results
<1>6. CASE MergeNothing
  BY <1>2, <1>6 DEF MergeNothing, Merging, Results
<1>7. CASE Flush
  BY <1>1, <1>7, EndStep DEF Flush, Results
<1>8. ASSUME NEW e \in AllocErrors, MapStarve(e) \/ SplitStarve(e)
      PROVE  IInv'
  <2>1. e \in Results
    BY DEF AllocErrors, Results
  <2>2. CASE MapStarve(e)
    BY <2>1, <2>2, EndStep DEF MapStarve, Mapping
  <2>3. CASE SplitStarve(e)
    BY <1>2, <2>1, <2>3 DEF SplitStarve, AtLeaf, Exact
  <2> QED
    BY <1>8, <2>2, <2>3
<1> QED
  BY <1>3, <1>4, <1>5, <1>6, <1>7, <1>8

LEMMA ReturnStep ==
  ASSUME IInv, Return
  PROVE  IInv'
<1>1. UNCHANGED <<mem, owner, root, lev, cover, child>> /\ pc = "return" /\ pc' = "idle"
  BY WalkFacts DEF Return, memory, ghosts
<1>2. TreeInv'
  BY <1>1, TreeUntouched
<1>3. TypeOK'
  BY SizesAreNat DEF IInv, TypeOK, Return, memory, ghosts, NoPath, NoPos, Results
<1>4. ControlInv'
  BY <1>1, WalkFacts DEF ControlInv, IInv, RootInv, WalkInv, ChildInv, DropInv, Return, Linked, Tables
<1> QED
  BY <1>2, <1>3, <1>4 DEF IInv, TreeInv, ControlInv

\* One level down towards the start of the range.
LEMMA StepDownStep ==
  ASSUME IInv, pc = "walk", StepDown
  PROVE  IInv'
<1>1. /\ UNCHANGED <<mem, owner, root, lev, cover, child, pos, req, pc>>
      /\ cur' = Slot.to /\ lvl' = lvl - 1 /\ Slot.kind = "table"
      /\ path' = IF req.op = "unmap" THEN [path EXCEPT ![lvl] = cur] ELSE path
  BY DEF StepDown, memory, ghosts
<1>2. TreeInv'
  BY <1>1, TreeUntouched
<1>3. /\ Slot.to \in Linked /\ Slot.to \in Frames /\ lvl - 1 \in 1..LEVELS /\ lvl \in 1..LEVELS
      /\ lev[Slot.to] = lvl - 1 /\ req.start \in cover[Slot.to]
      /\ cur \in Linked /\ cur \in Frames /\ lev[cur] = lvl /\ req.start \in cover[cur]
  BY <1>1, NextTable, AtSlot
<1>4. TypeOK'
  BY <1>1, <1>3, SizesAreNat DEF IInv, TypeOK, StepDown
<1>5. RootInv' /\ ChildInv' /\ DropInv'
  BY <1>1, WalkFacts DEF IInv, RootInv, ChildInv, DropInv, Linked, Tables
<1>6. WalkInv'
  <2>1. AtTable'
    BY <1>1, <1>3 DEF AtTable, Linked, Tables
  <2>2. ASSUME req.op = "unmap", NEW l \in lvl'+1..LEVELS
        PROVE  Above(l)'
    <3>1. path' = [path EXCEPT ![lvl] = cur] /\ path \in [1..LEVELS -> Frames \cup {NoFrame}]
      BY <1>1, <2>2 DEF IInv, TypeOK
    <3>2. l \in lvl..LEVELS /\ l \in 1..LEVELS
      BY <1>1, <1>3, SizesAreNat
    <3>3. CASE l = lvl
      BY <1>1, <1>3, <3>1, <3>3 DEF Above, Linked, Tables
    <3>4. CASE l # lvl
      <4>1. l \in lvl+1..LEVELS /\ path'[l] = path[l]
        BY <1>3, <3>1, <3>2, <3>4, SizesAreNat
      <4> QED
        BY <1>1, <2>2, <4>1 DEF IInv, WalkInv, Above, Linked, Tables
    <3> QED
      BY <3>3, <3>4
  <2> QED
    BY <1>1, <2>1, <2>2 DEF IInv, WalkInv
<1> QED
  BY <1>2, <1>4, <1>5, <1>6 DEF IInv, TreeInv

LEMMA DescendSteps ==
  ASSUME IInv, MapDescend \/ ExactDescend \/ MergeDescend
  PROVE  IInv'
BY StepDownStep DEF MapDescend, Mapping, ExactDescend, Exact, MergeDescend, Merging

LEMMA CallTypes ==
  ASSUME NEW r \in Calls
  PROVE  /\ r.op \in Ops /\ r.start \in 0..UMAX-1 /\ r.end \in 0..UMAX-1
         /\ r.pa \in Nat /\ r.fl \in Flags
BY DEF Calls

LEMMA CallInProgress ==
  ASSUME IInv, req.op \in Ops
  PROVE  req \in Calls /\ req.pa \in Nat /\ req.fl \in Flags
<1>1. req # NoReq
  BY DEF NoReq, Ops, ExactOps
<1> QED
  BY <1>1, CallTypes DEF IInv, TypeOK

\* Accepted arguments start at a valid page, and their size is a leaf's where the
\* operation needs to know the level.
LEMMA AcceptedArguments ==
  ASSUME NEW r \in Calls, ArgCheck(r) = "Ok"
  PROVE  /\ r.start \in ValidPages
         /\ r.op \in {"map", "merge_at"} => size_is_supported(Size(r))
<1>1. r.op \in Ops /\ r.start \in 0..UMAX-1
  BY CallTypes
<1>2. vaddr_is_valid(r.start)
  BY <1>1 DEF ArgCheck, exact_leaf_size, check_leaf_range, Ops, ExactOps
<1>3. r.op \in {"map", "merge_at"} => size_is_supported(Size(r))
  BY DEF ArgCheck, exact_leaf_size
<1> QED
  BY <1>1, <1>2, <1>3 DEF ValidPages

LEMMA ArgCheckType ==
  ASSUME NEW r \in Calls, ~NeedsCursor(r)
  PROVE  ArgCheck(r) \in Results
<1>1. r.op \in Ops
  BY CallTypes
<1>2. check_leaf_range(r) \in Results
  BY DEF check_leaf_range, Results
<1>3. exact_leaf_size(r, r.pa) \in Results \cup {"None"}
  BY <1>2 DEF exact_leaf_size, Results
<1>4. CASE r.op = "map"
  BY <1>3, <1>4 DEF ArgCheck, NeedsCursor, Results
<1>5. CASE r.op = "merge_at"
  BY <1>2, <1>5 DEF ArgCheck, Results
<1>6. CASE r.op = "remap"
  BY <1>6 DEF ArgCheck, Results
<1>7. CASE r.op \in {"protect", "unmap", "split_at"}
  BY <1>7 DEF ArgCheck, Results
<1> QED
  BY <1>1, <1>4, <1>5, <1>6, <1>7 DEF Ops, ExactOps

LEMMA CallStep ==
  ASSUME IInv, NEW r \in Requests, Call(r)
  PROVE  IInv'
<1>. r \in Calls
  BY RequestAssumption
<1>1. /\ UNCHANGED <<mem, owner, root, lev, cover, child, pos>> /\ req' = r
      /\ pc = "idle" /\ root # NoFrame /\ pc' \in {"walk", "return"}
  BY DEF Call, Finish, memory, ghosts
<1>2. /\ root \in Linked /\ root \in Frames /\ lev[root] = LEVELS /\ cover[root] = ValidPages
      /\ child = NoFrame /\ pos = NoPos
  BY <1>1 DEF IInv, RootInv, ChildInv, DropInv, Linked, Tables
<1>3. TreeInv'
  BY <1>1, TreeUntouched
<1>4. pc' = "walk" => ArgCheck(r) = "Ok" /\ cur' = root /\ lvl' = LEVELS
  BY DEF Call, Finish
<1>5. TypeOK'
  <2>1. CASE ArgCheck(r) = "Ok"
    BY <1>1, <1>2, <2>1, SizesAreNat DEF IInv, TypeOK, Call, memory, ghosts
  <2>2. CASE ArgCheck(r) # "Ok"
    BY <1>1, <2>2, ArgCheckType DEF IInv, TypeOK, Call, memory, ghosts, Finish
  <2> QED
    BY <2>1, <2>2
<1>6. RootInv' /\ ChildInv' /\ DropInv'
  BY <1>1, <1>2 DEF RootInv, ChildInv, DropInv, Linked, Tables
<1>7. WalkInv'
  <2>1. pc' = "walk" => AtTable'
    BY <1>1, <1>2, <1>4, AcceptedArguments DEF AtTable, Linked, Tables
  <2>2. \A l \in LEVELS+1..LEVELS : FALSE
    BY SizesAreNat
  <2> QED
    BY <1>1, <1>4, <2>1, <2>2, AcceptedArguments DEF WalkInv
<1> QED
  BY <1>3, <1>5, <1>6, <1>7 DEF IInv, TreeInv

-------------------------------------------------------------------------------
(* map, remap, protect, and the stores of unmap. *)

\* The level the code derives from a supported size is one that has leaves.
LEMMA TargetLevelType ==
  ASSUME NEW n, size_is_supported(n)
  PROVE  size_to_level(n) \in LeafLevels /\ size_to_level(n) \in 1..LEVELS
BY GeometryAssumption DEF size_is_supported, size_to_level

\* A leaf or an absent entry takes the place of a leaf or an absent entry.
LEMMA LeafWriteSteps ==
  ASSUME IInv, MapInstall \/ Rewrite \/ UnmapClear
  PROVE  IInv'
<1>1. /\ pc = "walk" /\ pc' \in {"flush", "reclaim"} /\ Slot.kind # "table"
      /\ pc' = "reclaim" => req.op = "unmap"
      /\ UNCHANGED <<owner, root, lev, cover, req, cur, lvl, path, pos, child, ret, untidy>>
  BY DEF MapInstall, Mapping, Rewrite, UnmapClear, AtLeaf, Exact, is_present, ghosts, locals
<1>2. PICK e \in Entries : e.kind # "table" /\ WriteSlot(e)
  <2>1. req \in Calls /\ req.pa \in Nat /\ req.fl \in Flags
    <3>1. req.op \in Ops
      BY DEF MapInstall, Mapping, Rewrite, UnmapClear, AtLeaf, Exact, Ops
    <3> QED
      BY <3>1, CallInProgress
  <2>2. Leaf(req.pa, req.fl) \in Entries /\ Leaf(req.pa, req.fl).kind = "leaf"
    BY <2>1, EntryTypes
  <2>3. CASE MapInstall
    BY <2>2, <2>3 DEF MapInstall
  <2>4. CASE Rewrite
    <3>1. Slot \in Entries /\ Slot.kind = "leaf"
      BY <1>1, <2>4, AtSlot DEF Rewrite, AtLeaf
    <3>2. Leaf(Slot.pa, req.fl) \in Entries /\ Leaf(Slot.pa, req.fl).kind = "leaf"
      BY <2>1, <3>1, EntryKinds, EntryTypes
    <3> QED
      BY <2>2, <2>4, <3>2 DEF Rewrite
  <2>5. CASE UnmapClear
    BY <2>5, EntryTypes DEF UnmapClear
  <2> QED
    BY <2>3, <2>4, <2>5
<1>3. TreeInv' /\ mem' \in [Frames -> [Slots -> Entries]]
  BY <1>1, <1>2, LeafWrite
<1>4. TypeOK'
  BY <1>1, <1>3 DEF IInv, TypeOK
<1>5. Linked' = Linked /\ Tables' = Tables
  BY <1>1 DEF Linked, Tables
<1>6. ControlInv'
  BY <1>1, <1>5, WalkFacts DEF IInv, ControlInv, RootInv, WalkInv, AtTable, Above, ChildInv, DropInv
<1> QED
  BY <1>3, <1>4, <1>6 DEF IInv, TreeInv, ControlInv

LEMMA MapGrowStep ==
  ASSUME IInv, NEW f \in Frames, MapGrow(f)
  PROVE  IInv'
<1>1. /\ pc = "walk" /\ req.op = "map" /\ lvl > TargetLevel /\ Slot.kind = "none"
      /\ owner[f] = "free" /\ owner' = [owner EXCEPT ![f] = "walker"]
      /\ lev' = [lev EXCEPT ![f] = lvl - 1] /\ cover' = [cover EXCEPT ![f] = SlotCover(cur, Idx)]
      /\ mem' = [mem EXCEPT ![f] = ZeroTable, ![cur][Idx] = Table(f)]
      /\ cur' = f /\ lvl' = lvl - 1 /\ UNCHANGED <<root, req, pc, path, pos, child, ret, untidy>>
  BY DEF MapGrow, Mapping, alloc_table_frame, is_present
<1>2. /\ cur \in Frames /\ cur \in Linked /\ Idx \in Slots /\ lvl \in 1..LEVELS /\ lev[cur] = lvl
      /\ owner[cur] \in {"walker", "adopted"} /\ req.start \in SlotCover(cur, Idx)
      /\ child = NoFrame /\ root # NoFrame /\ pos = NoPos
  BY <1>1, AtSlot, WalkFacts
<1>3. f # cur /\ f \notin Tables /\ f \notin Linked
  BY <1>1, <1>2 DEF IInv, NoLostFrame, Linked
<1>4. lvl - 1 \in 1..LEVELS
  BY <1>1, <1>2, TargetLevelType, SizesAreNat DEF IInv, WalkInv, TargetLevel
<1>5. SlotCover(cur, Idx) \in SUBSET ValidPages
  BY <1>2 DEF IInv, TypeOK, SlotCover
<1>6. TypeOK'
  <2>1. mem' \in [Frames -> [Slots -> Entries]]
    BY <1>1, <1>2, <1>3, ZeroTableType, EntryTypes DEF IInv, TypeOK
  <2>2. owner' \in [Frames -> {"free", "walker", "boot", "adopted"}]
    BY <1>1 DEF IInv, TypeOK
  <2>3. lev' \in [Frames -> 0..LEVELS] /\ lvl' \in 0..LEVELS /\ lvl' \in 1..LEVELS
    BY <1>1, <1>4, SizesAreNat DEF IInv, TypeOK
  <2>4. cover' \in [Frames -> SUBSET ValidPages]
    BY <1>1, <1>5 DEF IInv, TypeOK
  <2> QED
    BY <1>1, <2>1, <2>2, <2>3, <2>4 DEF IInv, TypeOK
<1>7. TreeInv'
  <2>1. mem'[cur][Idx] = Table(f) /\ mem'[f] = ZeroTable
    BY <1>1, <1>2, <1>3 DEF IInv, TypeOK
  <2>2. \A g \in Frames \ {f} :
           /\ owner'[g] = owner[g] /\ lev'[g] = lev[g] /\ cover'[g] = cover[g]
           /\ \A i \in Slots : g # cur \/ i # Idx => mem'[g][i] = mem[g][i]
    BY <1>1, <1>2, <1>3 DEF IInv, TypeOK
  <2>3. owner'[f] = "walker" /\ lev'[f] = lvl - 1 /\ cover'[f] = SlotCover(cur, Idx)
    BY <1>1 DEF IInv, TypeOK
  <2>4. \A i \in Slots : mem'[f][i].kind # "table"
    BY <2>1 DEF ZeroTable, Unused
  <2>5. mem' \in [Frames -> [Slots -> Entries]]
    BY <1>6 DEF TypeOK
  <2> QED
    BY <1>1, <1>2, <1>3, <1>4, <2>1, <2>2, <2>3, <2>4, <2>5, LinkTable
<1>8. Linked \subseteq Linked' /\ f \in Linked' /\ req.start \in cover'[f] /\ lev'[f] = lvl - 1
  BY <1>1, <1>2, <1>3, <1>4, FrameAssumption, SizesAreNat DEF IInv, TypeOK, Linked, Tables
<1>9. \A g \in Linked : lev'[g] = lev[g] /\ cover'[g] = cover[g]
  BY <1>1, <1>3 DEF IInv, TypeOK, Linked, Tables
<1>10. ControlInv'
  BY <1>1, <1>2, <1>8, <1>9 DEF IInv, ControlInv, RootInv, WalkInv, AtTable, Above, ChildInv, DropInv
<1> QED
  BY <1>6, <1>7, <1>10 DEF IInv, TreeInv, ControlInv

-------------------------------------------------------------------------------
(* split_at. *)

LEMMA SplitBuildStep ==
  ASSUME IInv, NEW f \in Frames, SplitBuild(f)
  PROVE  IInv'
<1> DEFINE filled == [i \in Slots |-> Leaf(Slot.pa + i * Span[lvl-1], Slot.fl)]
<1>1. /\ pc = "walk" /\ pc' = "swap" /\ req.op = "split_at" /\ Slot.kind = "leaf" /\ lvl # 1
      /\ owner[f] = "free" /\ owner' = [owner EXCEPT ![f] = "walker"]
      /\ lev' = [lev EXCEPT ![f] = lvl - 1] /\ cover' = [cover EXCEPT ![f] = SlotCover(cur, Idx)]
      /\ mem' = [mem EXCEPT ![f] = filled]
      /\ child' = f /\ UNCHANGED <<root, req, cur, lvl, path, pos, ret, untidy>>
  BY DEF SplitBuild, AtLeaf, Exact, LeafCheck, alloc_table_frame
<1>2. /\ cur \in Frames /\ cur \in Linked /\ Idx \in Slots /\ lvl \in 1..LEVELS /\ lev[cur] = lvl
      /\ req.start \in SlotCover(cur, Idx) /\ owner[cur] \in {"walker", "adopted"}
      /\ Slot \in Entries /\ child = NoFrame /\ root # NoFrame /\ pos = NoPos /\ root \in Linked
  BY <1>1, AtSlot, WalkFacts
<1>3. f # cur /\ f \notin Tables /\ f \notin Linked /\ f # root
  BY <1>1, <1>2 DEF IInv, NoLostFrame, Linked
<1>4. lvl - 1 \in 1..LEVELS
  BY <1>1, <1>2, SizesAreNat
<1>5. filled \in [Slots -> Entries] /\ \A i \in Slots : filled[i].kind = "leaf"
  <2>1. \A i \in Slots : Slot.pa + i * Span[lvl-1] \in Nat
    <3>1. Span[lvl-1] \in Nat
      BY <1>4, GeometryAssumption
    <3>2. \A i \in Slots : i \in Nat
      BY SizesAreNat DEF Slots
    <3>3. \A i \in Slots : i * Span[lvl-1] \in Nat
      BY <3>1, <3>2
    <3> QED
      BY <1>1, <1>2, <3>3, EntryKinds
  <2>2. Slot.fl \in Flags
    BY <1>1, <1>2, EntryKinds
  <2> QED
    BY <2>1, <2>2, EntryTypes
<1> HIDE DEF filled
<1>6. SlotCover(cur, Idx) \in SUBSET ValidPages
  BY <1>2 DEF IInv, TypeOK, SlotCover
<1>7. /\ mem' \in [Frames -> [Slots -> Entries]]
      /\ owner' \in [Frames -> {"free", "walker", "boot", "adopted"}]
      /\ lev' \in [Frames -> 0..LEVELS] /\ cover' \in [Frames -> SUBSET ValidPages]
  <2>1. mem' \in [Frames -> [Slots -> Entries]]
    BY <1>1, <1>5 DEF IInv, TypeOK
  <2>2. lev' \in [Frames -> 0..LEVELS]
    BY <1>1, <1>4, SizesAreNat DEF IInv, TypeOK
  <2> QED
    BY <1>1, <1>6, <2>1, <2>2 DEF IInv, TypeOK
<1>8. TypeOK'
  BY <1>1, <1>2, <1>7 DEF IInv, TypeOK
<1>9. /\ \A g \in Frames \ {f} :
           owner'[g] = owner[g] /\ lev'[g] = lev[g] /\ cover'[g] = cover[g] /\ mem'[g] = mem[g]
      /\ owner'[f] = "walker" /\ lev'[f] = lvl - 1 /\ cover'[f] = SlotCover(cur, Idx)
      /\ mem'[f] = filled
  BY <1>1 DEF IInv, TypeOK
<1>10. Tables' = Tables \cup {f} /\ Linked' = Linked /\ Linked = Tables
  BY <1>1, <1>2, <1>3, <1>4, <1>9, FrameAssumption DEF Tables, Linked
<1>11. \A g \in Frames, i \in Slots :
         /\ Links(g, i)' <=> Links(g, i)
         /\ Links(g, i) => mem'[g][i] = mem[g][i] /\ g # f
  BY <1>1, <1>3, <1>9, <1>10 DEF Links, Scanned
<1>12. \A g \in Frames \ {f}, i \in Slots : SlotCover(g, i)' = SlotCover(g, i)
  BY <1>9 DEF SlotCover
<1>13. \A g \in Linked : g \in Frames \ {f}
  BY <1>3, <1>10 DEF Tables
<1>14. NoDanglingTable'
  <2> SUFFICES ASSUME NEW g \in Frames, NEW i \in Slots, Links(g, i)'
               PROVE  LET u == mem'[g][i].to IN
                      /\ u \in Linked' \ {root'} /\ lev'[u] = lev'[g] - 1
                      /\ cover'[u] = SlotCover(g, i)'
    BY DEF NoDanglingTable
  <2>1. Links(g, i) /\ mem'[g][i] = mem[g][i] /\ g # f
    BY <1>11
  <2>2. /\ mem[g][i].to \in Linked \ {root} /\ lev[mem[g][i].to] = lev[g] - 1
        /\ cover[mem[g][i].to] = SlotCover(g, i)
    BY <2>1 DEF IInv, NoDanglingTable
  <2> QED
    BY <1>1, <1>9, <1>10, <1>12, <1>13, <2>1, <2>2
<1>15. NoLostFrame'
  <2>1. ASSUME NEW u \in Tables' \ {root', child'}
        PROVE  \E g \in Frames, i \in Slots : Links(g, i)' /\ mem'[g][i].to = u
    <3>1. PICK g \in Frames, i \in Slots : Links(g, i) /\ mem[g][i].to = u
      BY <1>1, <1>2, <1>10, FrameAssumption DEF IInv, NoLostFrame, Tables
    <3> QED
      BY <1>11, <3>1
  <2> QED
    BY <1>9, <1>10, <2>1 DEF IInv, NoLostFrame, Tables
<1>16. OnePath'
  <2> SUFFICES ASSUME NEW x \in Linked, NEW g \in Linked, NEW v \in cover[x] \cap cover[g]
               PROVE  /\ lev[x] = lev[g] => x = g
                      /\ lev[x] < lev[g] => Links(g, index_at(lev[g], v))'
    <3>1. \A x \in Linked : lev'[x] = lev[x] /\ cover'[x] = cover[x]
      BY <1>9, <1>13
    <3> QED
      BY <1>10, <3>1 DEF OnePath
  <2>1. g \in Frames /\ index_at(lev[g], v) \in Slots /\ lev'[g] = lev[g]
    BY <1>9, <1>10, <1>13, CoverIndex DEF IInv
  <2>2. /\ lev[x] = lev[g] => x = g
        /\ lev[x] < lev[g] => Links(g, index_at(lev[g], v))
    BY DEF IInv, OnePath
  <2> QED
    BY <1>11, <2>1, <2>2
<1>17. CoverInv' /\ BootInv'
  <2>1. \A g \in Frames : owner'[g] = "boot" => g # f /\ owner[g] = "boot" /\ mem'[g] = mem[g]
    BY <1>9
  <2>2. BootInv'
    BY <2>1 DEF IInv, BootInv
  <2>3. cover'[f] # {} /\ \A g \in Tables : cover'[g] = cover[g]
    BY <1>2, <1>9, <1>3 DEF Tables
  <2> QED
    BY <1>10, <2>2, <2>3 DEF IInv, CoverInv
<1>18. AtTable' /\ Idx' = Idx /\ Slot' = Slot /\ SlotCover(cur, Idx)' = SlotCover(cur, Idx)
  BY <1>1, <1>2, <1>3, <1>9, <1>10, <1>12 DEF IInv, WalkInv, AtTable, Idx, Slot
<1>19. ControlInv'
  BY <1>1, <1>2, <1>3, <1>5, <1>9, <1>10, <1>18, FrameAssumption
     DEF IInv, ControlInv, RootInv, WalkInv, ChildInv, DropInv, Tables
<1> QED
  BY <1>8, <1>14, <1>15, <1>16, <1>17, <1>19 DEF IInv, TreeInv, ControlInv

LEMMA SplitSwapStep ==
  ASSUME IInv, SplitSwap
  PROVE  IInv'
<1>1. /\ pc = "swap" /\ pc' = "flush" /\ mem' = [mem EXCEPT ![cur][Idx] = Table(child)]
      /\ child' = NoFrame
      /\ UNCHANGED <<owner, root, lev, cover, req, cur, lvl, path, pos, ret, untidy>>
  BY DEF SplitSwap, WriteSlot, ghosts
<1>2. /\ child \in Tables \ {root} /\ child \in Frames /\ child \notin Linked
      /\ owner[child] = "walker" /\ lev[child] = lvl - 1 /\ cover[child] = SlotCover(cur, Idx)
      /\ Slot.kind = "leaf" /\ \A i \in Slots : mem[child][i].kind = "leaf"
  BY <1>1 DEF IInv, ChildInv, Linked, Tables
<1>3. /\ cur \in Frames /\ cur \in Linked /\ Idx \in Slots /\ lvl \in 1..LEVELS
      /\ root # NoFrame /\ pos = NoPos
  BY <1>1, AtSlot DEF IInv, DropInv
<1>4. cur # child /\ lvl - 1 \in 1..LEVELS
  BY <1>2, <1>3, SizesAreNat DEF Tables
<1>5. mem' \in [Frames -> [Slots -> Entries]]
  BY <1>1, <1>2, <1>3, EntryTypes DEF IInv, TypeOK
<1>6. TypeOK'
  BY <1>1, <1>5 DEF IInv, TypeOK
<1>7. TreeInv'
  <2>1. mem'[cur][Idx] = Table(child) /\ \A i \in Slots : mem'[child][i].kind # "table"
    BY <1>1, <1>2, <1>3, <1>4 DEF IInv, TypeOK
  <2>2. \A g \in Frames, i \in Slots : g # cur \/ i # Idx => mem'[g][i] = mem[g][i]
    BY <1>1, <1>3 DEF IInv, TypeOK
  <2>3. child \in Frames \ Linked /\ owner'[child] = "walker"
    BY <1>1, <1>2
  <2> QED
    BY <1>1, <1>2, <1>4, <1>5, <2>1, <2>2, <2>3, LinkTable
<1>8. Tables' = Tables /\ Linked \subseteq Linked'
  BY <1>1, <1>2, FrameAssumption DEF Tables, Linked
<1>9. ControlInv'
  BY <1>1, <1>3, <1>8 DEF IInv, ControlInv, RootInv, WalkInv, ChildInv, DropInv
<1> QED
  BY <1>6, <1>7, <1>9 DEF IInv, TreeInv, ControlInv

-------------------------------------------------------------------------------
(* unmap's reclaim, and merge_at. *)

LEMMA ReclaimStopStep ==
  ASSUME IInv, ReclaimStop
  PROVE  IInv'
<1>1. /\ pc = "reclaim" /\ pc' = "flush"
      /\ UNCHANGED <<mem, owner, root, lev, cover, req, cur, lvl, path, pos, child, ret, untidy>>
  BY DEF ReclaimStop, memory, ghosts, locals
<1>2. TreeInv'
  BY <1>1, TreeUntouched
<1>3. TypeOK'
  BY <1>1 DEF IInv, TypeOK
<1>4. ControlInv'
  BY <1>1, WalkFacts DEF IInv, ControlInv, RootInv, WalkInv, ChildInv, DropInv, Linked, Tables
<1> QED
  BY <1>2, <1>3, <1>4 DEF IInv, TreeInv, ControlInv

\* The parent that unmap remembers is the one table that links the emptied one.
LEMMA ParentLink ==
  ASSUME IInv, pc = "reclaim", lvl # LEVELS
  PROVE  LET h == path[lvl+1]  k == index_at(lvl + 1, req.start) IN
         /\ h \in Frames /\ k \in Slots /\ Links(h, k) /\ mem[h][k].to = cur
         /\ lvl + 1 \in 1..LEVELS
<1> DEFINE h == path[lvl+1]
           k == index_at(lvl + 1, req.start)
<1>1. /\ cur \in Linked /\ lev[cur] = lvl /\ lvl + 1 \in 1..LEVELS /\ lvl + 1 \in lvl+1..LEVELS
      /\ lvl \in 1..LEVELS /\ req.start \in cover[cur] /\ req.start \in Nat /\ req.op = "unmap"
  BY AtSlot, SizesAreNat DEF IInv, WalkInv
<1>2. h \in Linked /\ h \in Frames /\ lev[h] = lvl + 1 /\ req.start \in cover[h]
  BY <1>1 DEF IInv, WalkInv, Above, Linked, Tables
<1>3. k \in Slots
  BY <1>1, IndexInTable
<1>4. Links(h, k)
  BY <1>1, <1>2 DEF IInv, OnePath
<1>5. /\ mem[h][k].to \in Linked /\ lev[mem[h][k].to] = lvl /\ cover[mem[h][k].to] = SlotCover(h, k)
  BY <1>1, <1>2, <1>3, <1>4 DEF IInv, NoDanglingTable
<1>6. req.start \in cover[mem[h][k].to]
  BY <1>2, <1>5 DEF SlotCover
<1>7. mem[h][k].to = cur
  BY <1>1, <1>5, <1>6 DEF IInv, OnePath
<1> QED
  BY <1>1, <1>2, <1>3, <1>4, <1>7

LEMMA ReclaimUnlinkStep ==
  ASSUME IInv, ReclaimUnlink
  PROVE  IInv'
<1> DEFINE h == path[lvl+1]
           k == index_at(lvl + 1, req.start)
<1>1. /\ pc = "reclaim" /\ pc' = "release" /\ lvl # LEVELS /\ is_table_empty(cur)
      /\ mem' = [mem EXCEPT ![h][k] = Unused] /\ child' = cur
      /\ UNCHANGED <<owner, root, lev, cover, req, cur, lvl, path, pos, ret, untidy>>
  BY DEF ReclaimUnlink, ReclaimDone, ghosts
<1>2. h \in Frames /\ k \in Slots /\ Links(h, k) /\ mem[h][k].to = cur /\ lvl + 1 \in 1..LEVELS
  BY <1>1, ParentLink
<1>3. \A i \in Slots : mem[cur][i].kind # "table"
  BY <1>1 DEF is_table_empty, is_present
<1>4. /\ child = NoFrame /\ pos = NoPos /\ root # NoFrame /\ req.op = "unmap"
      /\ root \in Linked /\ lev[root] = LEVELS /\ cover[root] = ValidPages
      /\ cur \in Linked /\ cur \in Frames /\ lvl \in 1..LEVELS /\ lev[cur] = lvl
  BY <1>1, WalkFacts, AtSlot DEF IInv, WalkInv
<1> HIDE DEF h, k
<1>5. Unused \in Entries /\ Unused.kind # "table"
  BY EntryTypes
<1>6. TreeInv' /\ mem' \in [Frames -> [Slots -> Entries]] /\ cur \in Tables' \ {root'}
  BY <1>1, <1>2, <1>3, <1>4, <1>5, CutTable
<1>7. TypeOK'
  BY <1>1, <1>4, <1>6 DEF IInv, TypeOK
<1>8. Tables' = Tables /\ Linked' = Linked \ {cur}
  BY <1>1, <1>4, FrameAssumption DEF Tables, Linked
<1>9. \A l \in lvl+1..LEVELS : Above(l)'
  <2> SUFFICES ASSUME NEW l \in lvl+1..LEVELS PROVE Above(l)'
    OBVIOUS
  <2>1. Above(l)
    BY <1>1, <1>4 DEF IInv, WalkInv
  <2>2. l # lvl
    BY <1>4, SizesAreNat
  <2> QED
    BY <1>1, <1>4, <1>8, <2>1, <2>2 DEF Above
<1>10. ControlInv'
  <2>1. RootInv'
    BY <1>1, <1>4, <1>6, <1>8 DEF RootInv
  <2>2. WalkInv'
    BY <1>1, <1>9 DEF WalkInv
  <2>3. ChildInv'
    BY <1>1, <1>4, <1>6, SizesAreNat DEF ChildInv
  <2>4. DropInv'
    BY <1>1, <1>4 DEF DropInv
  <2> QED
    BY <2>1, <2>2, <2>3, <2>4 DEF ControlInv
<1> QED
  BY <1>6, <1>7, <1>10 DEF IInv, TreeInv, ControlInv

LEMMA MergeWriteStep ==
  ASSUME IInv, MergeWrite
  PROVE  IInv'
<1>1. /\ pc = "walk" /\ pc' = "release" /\ Slot.kind = "table" /\ req.op = "merge_at"
      /\ WriteSlot(Leaf(mem[Slot.to][0].pa, mem[Slot.to][0].fl)) /\ child' = Slot.to
      /\ MergeCheck(Slot.to) = "Ok"
      /\ UNCHANGED <<owner, root, lev, cover, req, cur, lvl, path, pos, ret, untidy>>
  BY DEF MergeWrite, Merging, ghosts
<1>2. /\ cur \in Frames /\ Idx \in Slots /\ Slot.to \in Frames /\ Links(cur, Idx)
      /\ cur \in Linked /\ lvl \in 1..LEVELS
  BY <1>1, AtSlot, NextTable, LinksOutsideDrop DEF Slot
<1>3. mem[Slot.to][0] \in Entries /\ mem[Slot.to][0].kind = "leaf"
  <2>1. 0 \in Slots
    BY SizesAreNat DEF Slots
  <2>2. mem[Slot.to][0] \in Entries
    BY <1>2, <2>1 DEF IInv, TypeOK
  <2> QED
    BY <1>1, <2>2 DEF MergeCheck
<1>4. \A i \in Slots : mem[Slot.to][i].kind # "table"
  <2>1. \A i \in Slots :
          mem[Slot.to][i] = Leaf(mem[Slot.to][0].pa + i * Span[lvl-1], mem[Slot.to][0].fl)
    BY <1>1 DEF MergeCheck
  <2>2. \A n, fl : Leaf(n, fl).kind = "leaf"
    BY DEF Leaf
  <2> QED
    BY <2>1, <2>2
<1>5. PICK e \in Entries : e.kind # "table" /\ mem' = [mem EXCEPT ![cur][Idx] = e]
  BY <1>1, <1>3, EntryKinds, EntryTypes DEF WriteSlot
<1>6. /\ child = NoFrame /\ pos = NoPos /\ root # NoFrame
      /\ root \in Linked /\ lev[root] = LEVELS /\ cover[root] = ValidPages
  BY <1>1, WalkFacts
<1>7. TreeInv' /\ mem' \in [Frames -> [Slots -> Entries]] /\ Slot.to \in Tables' \ {root'}
  <2>1. Slot.to = mem[cur][Idx].to
    BY DEF Slot
  <2>2. pc # "drop" /\ pc' # "drop" /\ UNCHANGED <<owner, root, lev, cover>>
    BY <1>1
  <2> QED
    BY <1>1, <1>2, <1>4, <1>5, <1>6, <2>1, <2>2, CutTable
<1>8. TypeOK'
  BY <1>1, <1>2, <1>7 DEF IInv, TypeOK
<1>9. Linked' = Linked \ {Slot.to} /\ Tables' = Tables
  BY <1>1, <1>6, FrameAssumption DEF Tables, Linked
<1>10. ControlInv'
  <2>1. RootInv'
    BY <1>1, <1>6, <1>7, <1>9 DEF RootInv
  <2>2. WalkInv' /\ DropInv'
    BY <1>1, <1>6 DEF WalkInv, DropInv
  <2>3. ChildInv'
    BY <1>1, <1>6, <1>7 DEF ChildInv
  <2> QED
    BY <2>1, <2>2, <2>3 DEF ControlInv
<1> QED
  BY <1>7, <1>8, <1>10 DEF IInv, TreeInv, ControlInv

\* Both calls that release a table go on from a tree without it.
LEMMA ReleaseSteps ==
  ASSUME IInv, ReclaimFree \/ MergeFree
  PROVE  IInv'
<1>1. /\ pc = "release" /\ dealloc_table_frame(child) /\ child' = NoFrame
      /\ pc' \in {"reclaim", "flush", "return"} /\ ret' \in Results /\ untidy' \in BOOLEAN
      /\ UNCHANGED <<root, req, path, pos>>
      /\ MergeFree => pc' # "reclaim" /\ UNCHANGED <<cur, lvl>>
      /\ ReclaimFree => req.op = "unmap" /\ cur' = path[lvl+1] /\ lvl' = lvl + 1
  <2>1. ret \in Results /\ untidy \in BOOLEAN /\ "DeallocRefused" \in Results
    BY DEF IInv, TypeOK, Results
  <2> QED
    BY <2>1 DEF ReclaimFree, MergeFree, Finish
<1>2. /\ child \in Frames /\ child \in Tables \ {root} /\ pos = NoPos
      /\ root # NoFrame /\ root \in Linked /\ lev[root] = LEVELS /\ cover[root] = ValidPages
  BY <1>1 DEF IInv, ChildInv, DropInv, RootInv, Tables
<1>3. /\ TreeInv' /\ Linked' = Linked /\ mem' \in [Frames -> [Slots -> Entries]]
      /\ owner' \in [Frames -> {"free", "walker", "boot", "adopted"}]
      /\ lev' \in [Frames -> 0..LEVELS] /\ cover' \in [Frames -> SUBSET ValidPages]
      /\ \A f \in Frames \ {child} :
              mem'[f] = mem[f] /\ lev'[f] = lev[f] /\ cover'[f] = cover[f]
  BY <1>1, FreeChild
<1>4. ASSUME ReclaimFree
      PROVE  /\ lvl + 1 \in 1..LEVELS /\ lvl \in 1..LEVELS
             /\ \A l \in lvl+1..LEVELS : Above(l)
  <2>1. lvl \in 1..LEVELS /\ lvl < LEVELS
    BY <1>1, <1>4 DEF IInv, TypeOK, ChildInv
  <2> QED
    BY <1>1, <1>4, <2>1, SizesAreNat DEF IInv, WalkInv
<1>5. \A l \in 1..LEVELS : Above(l) =>
        path[l] \in Linked /\ path[l] \in Frames /\ Above(l)' /\ lev'[path[l]] = l /\ req.start \in cover'[path[l]]
  <2> SUFFICES ASSUME NEW l \in 1..LEVELS, Above(l)
               PROVE  /\ path[l] \in Linked /\ path[l] \in Frames /\ Above(l)'
                      /\ lev'[path[l]] = l /\ req.start \in cover'[path[l]]
    OBVIOUS
  <2>1. path[l] \in Linked /\ path[l] \in Frames \ {child}
    BY DEF Above, Linked, Tables
  <2> QED
    BY <1>1, <1>3, <2>1 DEF Above
<1>6. TypeOK'
  <2>1. cur' \in Frames \cup {NoFrame} /\ lvl' \in 0..LEVELS
    BY <1>1, <1>4, SizesAreNat DEF IInv, TypeOK
  <2>2. pc' = "reclaim" => cur' \in Frames /\ lvl' \in 1..LEVELS
    <3>1. CASE ReclaimFree
      <4>1. Above(lvl+1)
        BY <1>4, <3>1, SizesAreNat
      <4> QED
        BY <1>1, <1>4, <1>5, <3>1, <4>1
    <3> QED
      BY <1>1, <3>1
  <2> QED
    BY <1>1, <1>3, <2>1, <2>2 DEF IInv, TypeOK
<1>7. RootInv'
  <2>1. root \in Frames \ {child}
    BY <1>2 DEF Linked, Tables
  <2> QED
    BY <1>1, <1>2, <1>3, <2>1 DEF RootInv
<1>8. WalkInv'
  <2>1. ASSUME ReclaimFree, pc' = "reclaim"
        PROVE  AtTable' /\ \A l \in lvl'+1..LEVELS : Above(l)'
    <3>1. Above(lvl+1) /\ \A l \in lvl+2..LEVELS : l \in 1..LEVELS /\ Above(l)
      BY <1>4, <2>1, SizesAreNat
    <3>2. lvl' + 1 = lvl + 2
      BY <1>1, <1>4, <2>1
    <3> QED
      BY <1>1, <1>3, <1>4, <1>5, <2>1, <3>1, <3>2 DEF AtTable
  <2> QED
    BY <1>1, <2>1 DEF WalkInv
<1>9. ChildInv' /\ DropInv'
  BY <1>1, <1>2 DEF ChildInv, DropInv
<1> QED
  BY <1>3, <1>6, <1>7, <1>8, <1>9 DEF IInv, TreeInv

-------------------------------------------------------------------------------
(* The constructors. *)

LEMMA TryNewStep ==
  ASSUME IInv, NEW f \in Frames, try_new(f)
  PROVE  IInv'
<1>1. /\ pc = "idle" /\ root = NoFrame /\ owner[f] = "free"
      /\ owner' = [owner EXCEPT ![f] = "walker"] /\ lev' = [lev EXCEPT ![f] = LEVELS]
      /\ cover' = [cover EXCEPT ![f] = ValidPages] /\ mem' = [mem EXCEPT ![f] = ZeroTable]
      /\ root' = f /\ UNCHANGED <<req, pc, cur, lvl, path, pos, child, ret, untidy>>
  BY DEF try_new, alloc_table_frame, locals
<1>2. Tables = {} /\ child = NoFrame /\ pos = NoPos
  BY <1>1 DEF IInv, RootInv, ChildInv, DropInv
<1>3. TypeOK'
  <2>1. mem' \in [Frames -> [Slots -> Entries]]
    BY <1>1, ZeroTableType DEF IInv, TypeOK
  <2>2. lev' \in [Frames -> 0..LEVELS]
    BY <1>1, SizesAreNat DEF IInv, TypeOK
  <2>3. cover' \in [Frames -> SUBSET ValidPages]
    BY <1>1 DEF IInv, TypeOK
  <2> QED
    BY <1>1, <2>1, <2>2, <2>3 DEF IInv, TypeOK
<1>4. /\ mem'[f] = ZeroTable /\ lev'[f] = LEVELS /\ cover'[f] = ValidPages /\ owner'[f] = "walker"
      /\ \A g \in Frames \ {f} : mem'[g] = mem[g] /\ lev'[g] = lev[g] /\ owner'[g] = owner[g]
  BY <1>1 DEF IInv, TypeOK
<1>5. Tables' = {f} /\ Linked' = {f}
  <2>1. \A g \in Frames : lev'[g] > 0 <=> g = f
    BY <1>2, <1>4, SizesAreNat DEF Tables
  <2>2. child' = NoFrame /\ f # NoFrame
    BY <1>1, <1>2, FrameAssumption
  <2> QED
    BY <2>1, <2>2 DEF Tables, Linked
<1>6. \A g \in Frames, i \in Slots : ~Links(g, i)'
  BY <1>4, <1>5 DEF Links, ZeroTable, Unused
<1>7. NoDanglingTable'
  BY <1>6 DEF NoDanglingTable
<1>8. NoLostFrame'
  BY <1>1, <1>2, <1>4, <1>5 DEF IInv, NoLostFrame
<1>9. OnePath'
  BY <1>4, <1>5, SizesAreNat DEF OnePath
<1>10. CoverInv' /\ BootInv'
  BY <1>4, <1>5, ZeroIsValid DEF IInv, CoverInv, BootInv
<1>11. RootInv'
  BY <1>1, <1>4, <1>5, FrameAssumption DEF RootInv
<1>12. WalkInv' /\ ChildInv' /\ DropInv'
  BY <1>1, <1>2 DEF WalkInv, ChildInv, DropInv
<1> QED
  BY <1>3, <1>7, <1>8, <1>9, <1>10, <1>11, <1>12 DEF IInv

LEMMA AdoptStep ==
  ASSUME IInv, adopt
  PROVE  IInv'
<1>1. /\ pc = "idle" /\ root = NoFrame /\ BootFrames # {}
      /\ \A f \in BootFrames : owner[f] = "boot"
      /\ owner' = [f \in Frames |-> IF f \in BootFrames THEN "adopted" ELSE owner[f]]
      /\ root' = BootTree.root
      /\ lev' = [f \in Frames |-> IF f \in BootFrames THEN BootTree.lev[f] ELSE 0]
      /\ cover' = [f \in Frames |-> IF f \in BootFrames THEN BootTree.cover[f] ELSE {}]
      /\ untidy' \in BOOLEAN
      /\ UNCHANGED <<mem, req, pc, cur, lvl, path, pos, child, ret>>
  BY DEF adopt, locals, Loose
<1>2. Tables = {} /\ child = NoFrame /\ pos = NoPos
  BY <1>1 DEF IInv, RootInv, ChildInv, DropInv
<1>3. BootFrames \subseteq Frames /\ BootTree.root \in BootFrames /\ NoFrame \notin Frames
  BY <1>1, FrameAssumption, BootAssumption
<1>4. BootTree.lev \in [BootFrames -> 1..LEVELS]
      /\ BootTree.cover \in [BootFrames -> (SUBSET ValidPages) \ {{}}]
  BY <1>1, BootAssumption
<1>5. TypeOK'
  <2>1. owner' \in [Frames -> {"free", "walker", "boot", "adopted"}]
    BY <1>1 DEF IInv, TypeOK
  <2>2. lev' \in [Frames -> 0..LEVELS]
    BY <1>1, <1>4, SizesAreNat
  <2>3. cover' \in [Frames -> SUBSET ValidPages]
    BY <1>1, <1>4
  <2>4. root' \in Frames \cup {NoFrame}
    BY <1>1, <1>3
  <2> QED
    BY <1>1, <2>1, <2>2, <2>3, <2>4 DEF IInv, TypeOK
<1>6. \A f \in BootFrames :
        /\ mem'[f] = BootTree.mem[f] /\ lev'[f] = BootTree.lev[f]
        /\ cover'[f] = BootTree.cover[f] /\ owner'[f] = "adopted"
  BY <1>1, <1>3 DEF IInv, BootInv
<1>7. Tables' = BootFrames /\ Linked' = BootFrames
  <2>1. \A f \in Frames : lev'[f] > 0 <=> f \in BootFrames
    BY <1>1, <1>4, SizesAreNat
  <2> QED
    BY <1>1, <1>2, <1>3, <2>1 DEF Tables, Linked
<1>8. \A f \in Frames, i \in Slots :
        /\ Links(f, i)' <=> BootLinks(f, i)
        /\ Links(f, i)' => f \in BootFrames /\ SlotCover(f, i)' = BootCover(f, i)
  BY <1>1, <1>6, <1>7 DEF Links, Scanned, BootLinks, SlotCover, BootCover
<1>9. NoDanglingTable'
  <2> SUFFICES ASSUME NEW f \in Frames, NEW i \in Slots, Links(f, i)'
               PROVE  LET u == mem'[f][i].to IN
                      /\ u \in Linked' \ {root'} /\ lev'[u] = lev'[f] - 1
                      /\ cover'[u] = SlotCover(f, i)'
    BY DEF NoDanglingTable
  <2>1. BootLinks(f, i) /\ f \in BootFrames /\ SlotCover(f, i)' = BootCover(f, i)
    BY <1>8
  <2>2. /\ BootTree.mem[f][i].to \in BootFrames \ {BootTree.root}
        /\ BootTree.lev[BootTree.mem[f][i].to] = BootTree.lev[f] - 1
        /\ BootTree.cover[BootTree.mem[f][i].to] = BootCover(f, i)
    BY <1>1, <2>1, BootAssumption
  <2> QED
    BY <1>1, <1>6, <1>7, <2>1, <2>2
<1>10. NoLostFrame'
  <2>1. ASSUME NEW t \in BootFrames \ {BootTree.root}
        PROVE  \E f \in Frames, i \in Slots : Links(f, i)' /\ mem'[f][i].to = t
    <3>1. PICK f \in BootFrames, i \in Slots : BootLinks(f, i) /\ BootTree.mem[f][i].to = t
      BY <1>1, BootAssumption
    <3> QED
      BY <1>3, <1>6, <1>8, <3>1
  <2>2. \A f \in Frames : owner'[f] # "walker"
    BY <1>1, <1>2 DEF IInv, NoLostFrame
  <2> QED
    BY <1>1, <1>6, <1>7, <2>1, <2>2 DEF NoLostFrame
<1>11. OnePath'
  <2> SUFFICES ASSUME NEW f \in BootFrames, NEW g \in BootFrames,
                      NEW v \in BootTree.cover[f] \cap BootTree.cover[g]
               PROVE  /\ BootTree.lev[f] = BootTree.lev[g] => f = g
                      /\ BootTree.lev[f] < BootTree.lev[g] =>
                           BootLinks(g, index_at(BootTree.lev[g], v))
    <3>1. ASSUME NEW g \in BootFrames, NEW v \in BootTree.cover[g]
          PROVE  BootLinks(g, index_at(BootTree.lev[g], v)) <=> Links(g, index_at(lev[g], v))'
      <4>1. index_at(BootTree.lev[g], v) \in Slots
        BY <1>4, PageIsNat, IndexInTable
      <4> QED
        BY <1>3, <1>6, <1>8, <4>1
    <3> QED
      BY <1>6, <1>7, <3>1 DEF OnePath
  <2> QED
    BY <1>1, BootAssumption
<1>12. CoverInv' /\ BootInv'
  <2>1. CoverInv'
    BY <1>4, <1>6, <1>7 DEF CoverInv
  <2>2. \A f \in Frames : owner'[f] # "boot"
    BY <1>1 DEF IInv, BootInv
  <2> QED
    BY <2>1, <2>2 DEF BootInv
<1>13. RootInv'
  BY <1>1, <1>3, <1>6, <1>7, BootAssumption DEF RootInv
<1>14. WalkInv' /\ ChildInv' /\ DropInv'
  BY <1>1, <1>2 DEF WalkInv, ChildInv, DropInv
<1> QED
  BY <1>5, <1>9, <1>10, <1>11, <1>12, <1>13, <1>14 DEF IInv

-------------------------------------------------------------------------------
(* Drop. *)

\* drop_subtree is at a linked table and, below the root, got there by the entry
\* before the next one of the parent.
LEMMA DropFacts ==
  ASSUME IInv, pc = "drop"
  PROVE  /\ lvl \in 1..LEVELS /\ cur = path[lvl] /\ path[LEVELS] = root
         /\ \A l \in lvl..LEVELS : path[l] \in Linked /\ path[l] \in Frames /\ lev[path[l]] = l
         /\ cur \in Linked /\ cur \in Frames /\ lev[cur] = lvl
         /\ pos \in [1..LEVELS -> 0..E] /\ path \in [1..LEVELS -> Frames \cup {NoFrame}]
         /\ child = NoFrame /\ root # NoFrame /\ Linked = Tables
         /\ root \in Linked /\ lev[root] = LEVELS /\ cover[root] = ValidPages
         /\ \A l \in lvl+1..LEVELS : pos[l] > 0 /\ mem[path[l]][pos[l]-1] = Table(path[l-1])
<1>1. /\ cur = path[lvl] /\ path[LEVELS] = root
      /\ \A l \in lvl..LEVELS : path[l] \in Linked /\ lev[path[l]] = l
      /\ \A l \in lvl+1..LEVELS : pos[l] > 0 /\ mem[path[l]][pos[l]-1] = Table(path[l-1])
  BY DEF IInv, DropInv
<1>2. /\ lvl \in 1..LEVELS /\ child = NoFrame /\ root # NoFrame
      /\ pos \in [1..LEVELS -> 0..E] /\ path \in [1..LEVELS -> Frames \cup {NoFrame}]
      /\ root \in Linked /\ lev[root] = LEVELS /\ cover[root] = ValidPages
  BY DEF IInv, TypeOK, ChildInv, RootInv
<1>3. lvl \in lvl..LEVELS
  BY <1>2, SizesAreNat
<1>4. \A f \in Linked : f \in Frames
  BY DEF Linked, Tables
<1>5. Linked = Tables
  BY <1>2, FrameAssumption DEF Linked, Tables
<1> QED
  BY <1>1, <1>2, <1>3, <1>4, <1>5

LEMMA DropStartStep ==
  ASSUME IInv, DropStart
  PROVE  IInv'
<1>1. /\ pc = "idle" /\ root # NoFrame /\ pc' = "drop" /\ cur' = root /\ lvl' = LEVELS
      /\ path' = [path EXCEPT ![LEVELS] = root]
      /\ UNCHANGED <<mem, owner, root, lev, cover, req, pos, child, ret, untidy>>
  BY DEF DropStart, memory, ghosts
<1>2. /\ root \in Linked /\ root \in Frames /\ lev[root] = LEVELS /\ cover[root] = ValidPages
      /\ child = NoFrame /\ pos = NoPos
  BY <1>1 DEF IInv, RootInv, ChildInv, DropInv, Linked, Tables
<1>3. TypeOK'
  BY <1>1, <1>2, SizesAreNat DEF IInv, TypeOK
<1>4. path'[LEVELS] = root
  BY <1>1, SizesAreNat DEF IInv, TypeOK
<1>5. Tables' = Tables /\ Linked' = Linked
  BY <1>1 DEF Tables, Linked
<1>6. ASSUME NEW f \in Frames, NEW i \in Slots
      PROVE  Links(f, i)' <=> Links(f, i)
  <2>1. lev[f] \in 0..LEVELS /\ i \in Nat
    BY SizesAreNat DEF IInv, TypeOK, Slots
  <2>2. ~Scanned(f, i)
    BY <1>1 DEF Scanned
  <2>3. ~Scanned(f, i)'
    <3>1. lev[f] >= LEVELS => lev[f] = LEVELS /\ pos[lev[f]] = 0
      BY <1>2, <2>1, SizesAreNat DEF NoPos
    <3> QED
      BY <1>1, <2>1, <3>1 DEF Scanned
  <2> QED
    BY <1>1, <1>5, <2>2, <2>3 DEF Links
<1>7. TreeInv'
  BY <1>1, <1>6, TreeSameLinks
<1>8. RootInv' /\ WalkInv' /\ ChildInv'
  BY <1>1, <1>2, <1>5 DEF RootInv, WalkInv, ChildInv
<1>9. DropInv'
  <2>1. LEVELS..LEVELS = {LEVELS} /\ LEVELS+1..LEVELS = {}
    BY SizesAreNat
  <2> QED
    BY <1>1, <1>2, <1>4, <1>5, <2>1 DEF DropInv
<1> QED
  BY <1>3, <1>7, <1>8, <1>9 DEF IInv, TreeInv

LEMMA DropScanStep ==
  ASSUME IInv, DropScan
  PROVE  IInv'
<1> DEFINE k == pos[lvl]
           e == mem[cur][k]
<1>1. /\ pc = "drop" /\ pc' = "drop" /\ lvl > 1 /\ k < E
      /\ e.kind = "table" => /\ cur' = e.to /\ lvl' = lvl - 1
                             /\ path' = [path EXCEPT ![lvl-1] = e.to]
                             /\ pos' = [pos EXCEPT ![lvl] = k + 1, ![lvl-1] = 0]
      /\ e.kind # "table" => pos' = [pos EXCEPT ![lvl] = k + 1] /\ UNCHANGED <<cur, lvl, path>>
      /\ UNCHANGED <<mem, owner, root, lev, cover, req, child, ret, untidy>>
  BY DEF DropScan, memory, ghosts
<1>2. /\ lvl \in 1..LEVELS /\ cur = path[lvl] /\ path[LEVELS] = root
      /\ \A l \in lvl..LEVELS : path[l] \in Linked /\ path[l] \in Frames /\ lev[path[l]] = l
      /\ cur \in Linked /\ cur \in Frames /\ lev[cur] = lvl
      /\ pos \in [1..LEVELS -> 0..E] /\ path \in [1..LEVELS -> Frames \cup {NoFrame}]
      /\ child = NoFrame /\ root # NoFrame
      /\ root \in Linked /\ lev[root] = LEVELS /\ cover[root] = ValidPages
      /\ \A l \in lvl+1..LEVELS : pos[l] > 0 /\ mem[path[l]][pos[l]-1] = Table(path[l-1])
  BY <1>1, DropFacts
<1>3. k \in Slots /\ k \in Nat /\ e \in Entries
  <2>1. k \in 0..E-1 /\ k \in Nat
    BY <1>1, <1>2, SizesAreNat
  <2> QED
    BY <1>2, <2>1 DEF Slots, IInv, TypeOK
<1>4. Tables' = Tables /\ Linked' = Linked
  BY <1>1 DEF Tables, Linked
<1>5. \A f \in Frames, i \in Slots : lev[f] \in 0..LEVELS /\ i \in Nat
  BY SizesAreNat DEF IInv, TypeOK, Slots
<1>6. RootInv' /\ WalkInv' /\ ChildInv'
  BY <1>1, <1>2, <1>4 DEF RootInv, WalkInv, ChildInv
<1>7. CASE e.kind = "table"
  <2>1. /\ cur' = e.to /\ lvl' = lvl - 1 /\ path' = [path EXCEPT ![lvl-1] = e.to]
        /\ pos' = [pos EXCEPT ![lvl] = k + 1, ![lvl-1] = 0]
    BY <1>1, <1>7
  <2>2. Links(cur, k)
    BY <1>2, <1>3, <1>7 DEF Links, Scanned
  <2>3. /\ e.to \in Linked /\ e.to \in Frames /\ lev[e.to] = lvl - 1 /\ e = Table(e.to)
    BY <1>2, <1>3, <1>7, <2>2, EntryKinds DEF IInv, NoDanglingTable
  <2>4. lvl - 1 \in 1..LEVELS /\ lvl # lvl - 1
    BY <1>1, <1>2, SizesAreNat
  <2>5. /\ path'[lvl-1] = e.to /\ \A l \in 1..LEVELS \ {lvl-1} : path'[l] = path[l]
        /\ pos'[lvl-1] = 0 /\ pos'[lvl] = k + 1
        /\ \A l \in 1..LEVELS \ {lvl-1, lvl} : pos'[l] = pos[l]
    BY <1>2, <2>1, <2>4
  <2>6. TypeOK'
    <3>1. path' \in [1..LEVELS -> Frames \cup {NoFrame}] /\ lvl' \in 0..LEVELS /\ lvl' \in 1..LEVELS
      BY <1>2, <2>1, <2>3, <2>4, SizesAreNat
    <3>2. pos' \in [1..LEVELS -> 0..E]
      BY <1>1, <1>2, <1>3, <2>1, <2>4, SizesAreNat
    <3> QED
      BY <1>1, <2>1, <2>3, <3>1, <3>2 DEF IInv, TypeOK
  <2>7. ASSUME NEW f \in Frames, NEW i \in Slots
        PROVE  Links(f, i)' <=> Links(f, i)
    <3>1. Scanned(f, i)' <=> Scanned(f, i)
      <4>1. CASE lev[f] < lvl - 1
        BY <1>1, <1>2, <1>5, <2>1, <4>1, SizesAreNat DEF Scanned
      <4>2. CASE lev[f] = lvl - 1
        <5>1. ~Scanned(f, i)
          BY <1>2, <4>2, SizesAreNat DEF Scanned
        <5>2. pos'[lev'[f]] = 0 /\ i \in Nat
          BY <1>1, <1>5, <2>5, <4>2
        <5> QED
          BY <5>1, <5>2 DEF Scanned
      <4>3. CASE lev[f] = lvl
        <5>1. lev'[f] = lvl /\ pos'[lvl] = k + 1 /\ path'[lvl] = path[lvl] /\ lvl' = lvl - 1 /\ lvl \in Nat
          BY <1>1, <1>2, <2>1, <2>4, <2>5, <4>3
        <5>2. i < k + 1 /\ i # k + 1 - 1 <=> i < k
          BY <1>3, <1>5
        <5>3. Scanned(f, i) <=> path[lvl] = f /\ i < k
          BY <1>1, <1>2, <4>3, SizesAreNat DEF Scanned
        <5>4. Scanned(f, i)' <=> path[lvl] = f /\ i < k + 1 /\ i # k + 1 - 1
          <6>1. Scanned(f, i)' <=>
                  /\ pc' = "drop" /\ lev'[f] >= lvl' /\ path'[lev'[f]] = f
                  /\ i < pos'[lev'[f]] /\ (lev'[f] > lvl' => i # pos'[lev'[f]] - 1)
            BY DEF Scanned
          <6>2. /\ pc' = "drop" /\ lev'[f] >= lvl' /\ lev'[f] > lvl'
                /\ path'[lev'[f]] = path[lvl] /\ pos'[lev'[f]] = k + 1
            BY <1>1, <5>1
          <6> QED
            BY <1>3, <1>5, <6>1, <6>2
        <5> QED
          BY <5>2, <5>3, <5>4
      <4>4. CASE lev[f] > lvl
        <5>1. lev[f] \in 1..LEVELS \ {lvl-1, lvl}
          BY <1>2, <1>5, <4>4, SizesAreNat
        <5> QED
          BY <1>1, <1>2, <1>5, <2>1, <2>5, <4>4, <5>1, SizesAreNat DEF Scanned
      <4> QED
        BY <1>2, <1>5, <4>1, <4>2, <4>3, <4>4, SizesAreNat
    <3> QED
      BY <1>1, <1>4, <3>1 DEF Links
  <2>8. TreeInv'
    BY <1>1, <2>7, TreeSameLinks
  <2>9. DropInv'
    <3>1. path'[LEVELS] = root' /\ cur' = path'[lvl']
      BY <1>1, <1>2, <2>1, <2>4, <2>5, SizesAreNat
    <3>2. ASSUME NEW l \in lvl'..LEVELS
          PROVE  path'[l] \in Linked' /\ lev'[path'[l]] = l
      <4>1. CASE l = lvl - 1
        BY <1>1, <1>4, <2>3, <2>5, <4>1
      <4>2. CASE l # lvl - 1
        <5>1. l \in lvl..LEVELS /\ l \in 1..LEVELS \ {lvl-1}
          BY <1>2, <2>1, <4>2, SizesAreNat
        <5> QED
          BY <1>1, <1>2, <1>4, <2>5, <5>1
      <4> QED
        BY <4>1, <4>2
    <3>3. ASSUME NEW l \in lvl'+1..LEVELS
          PROVE  pos'[l] > 0 /\ mem'[path'[l]][pos'[l]-1] = Table(path'[l-1])
      <4>1. CASE l = lvl
        <5>1. pos'[lvl] > 0 /\ pos'[lvl] - 1 = k /\ path'[lvl] = cur
          BY <1>2, <1>3, <2>4, <2>5
        <5> QED
          BY <1>1, <2>3, <2>5, <4>1, <5>1
      <4>2. CASE l # lvl
        <5>1. l \in lvl+1..LEVELS /\ l \in 1..LEVELS \ {lvl-1, lvl} /\ l-1 \in 1..LEVELS \ {lvl-1}
          BY <1>2, <2>1, <4>2, SizesAreNat
        <5> QED
          BY <1>1, <1>2, <2>5, <5>1
      <4> QED
        BY <4>1, <4>2
    <3> QED
      BY <1>1, <3>1, <3>2, <3>3 DEF DropInv
  <2> QED
    BY <1>6, <2>6, <2>8, <2>9 DEF IInv, TreeInv
<1>8. CASE e.kind # "table"
  <2>1. pos' = [pos EXCEPT ![lvl] = k + 1] /\ UNCHANGED <<cur, lvl, path>>
    BY <1>1, <1>8
  <2>2. pos'[lvl] = k + 1 /\ \A l \in 1..LEVELS \ {lvl} : pos'[l] = pos[l]
    BY <1>2, <2>1
  <2>3. TypeOK'
    <3>1. pos' \in [1..LEVELS -> 0..E]
      BY <1>1, <1>2, <1>3, <2>1, SizesAreNat
    <3> QED
      BY <1>1, <2>1, <3>1 DEF IInv, TypeOK
  <2>4. ASSUME NEW f \in Frames, NEW i \in Slots
        PROVE  Links(f, i)' <=> Links(f, i)
    <3>1. CASE f = cur /\ i = k
      BY <1>1, <1>8, <3>1 DEF Links
    <3>2. CASE f # cur \/ i # k
      <4>1. CASE lev[f] = lvl
        BY <1>1, <1>2, <1>3, <1>4, <1>5, <2>1, <2>2, <3>2, <4>1, SizesAreNat DEF Scanned, Links
      <4>2. CASE lev[f] < lvl
        BY <1>1, <1>2, <1>4, <1>5, <2>1, <4>2, SizesAreNat DEF Scanned, Links
      <4>3. CASE lev[f] > lvl
        <5>1. lev[f] \in 1..LEVELS \ {lvl}
          BY <1>2, <1>5, <4>3, SizesAreNat
        <5> QED
          BY <1>1, <1>4, <2>1, <2>2, <5>1 DEF Scanned, Links
      <4> QED
        BY <1>2, <1>5, <4>1, <4>2, <4>3, SizesAreNat
    <3> QED
      BY <3>1, <3>2
  <2>5. TreeInv'
    BY <1>1, <2>4, TreeSameLinks
  <2>6. DropInv'
    <3>1. \A l \in lvl+1..LEVELS : l \in 1..LEVELS \ {lvl}
      BY <1>2, SizesAreNat
    <3> QED
      BY <1>1, <1>2, <1>4, <2>1, <2>2, <3>1 DEF DropInv
  <2> QED
    BY <1>6, <2>3, <2>5, <2>6 DEF IInv, TreeInv
<1> QED
  BY <1>7, <1>8

\* A fully scanned table has no link left, so no table is below it.
LEMMA ScannedOut ==
  ASSUME IInv, pc = "drop", DropScanned
  PROVE  \A i \in Slots : ~Links(cur, i)
<1>1. lvl \in 1..LEVELS /\ cur = path[lvl] /\ cur \in Frames /\ lev[cur] = lvl
  BY DropFacts
<1>2. CASE lvl = 1
  <2> SUFFICES ASSUME NEW i \in Slots, Links(cur, i) PROVE FALSE
    OBVIOUS
  <2>1. mem[cur][i].to \in Linked /\ lev[mem[cur][i].to] = 0
    BY <1>1, <1>2 DEF IInv, NoDanglingTable
  <2> QED
    BY <2>1 DEF Linked, Tables
<1>3. CASE lvl # 1
  <2>1. pos[lvl] = E /\ \A i \in Slots : i < E
    BY <1>3, SizesAreNat DEF DropScanned, Slots
  <2> QED
    BY <1>1, <2>1 DEF Links, Scanned
<1> QED
  BY <1>2, <1>3

\* Freeing the root, the last table.
LEMMA DropRoot ==
  ASSUME IInv, DropFree, lvl = LEVELS
  PROVE  IInv'
<1>1. /\ pc = "drop" /\ DropScanned /\ dealloc_table_frame(cur)
      /\ root' = NoFrame /\ pc' = "idle" /\ untidy' = FALSE
      /\ cur' = NoFrame /\ lvl' = 0 /\ path' = NoPath /\ pos' = NoPos
      /\ UNCHANGED <<req, child, ret>>
  BY DEF DropFree
<1>2. /\ cur = root /\ cur \in Frames /\ child = NoFrame /\ root # NoFrame /\ Linked = Tables
      /\ root \in Linked /\ lev[root] = LEVELS /\ cover[root] = ValidPages
  BY <1>1, DropFacts
<1>3. Tables = {root}
  <2> SUFFICES ASSUME NEW f \in Linked PROVE f = root
    BY <1>2
  <2>1. PICK v : v \in cover[f]
    BY <1>2 DEF IInv, CoverInv
  <2>2. f \in Frames /\ lev[f] \in 1..LEVELS /\ v \in ValidPages
    BY <1>2, <2>1, CoverIndex DEF IInv
  <2>3. index_at(lev[root], v) \in Slots
    BY <1>2, <2>2, CoverIndex DEF IInv
  <2>4. ~(lev[f] < lev[root])
    BY <1>1, <1>2, <2>1, <2>2, <2>3, ScannedOut DEF IInv, OnePath
  <2>5. lev[f] = lev[root]
    BY <1>2, <2>2, <2>4, SizesAreNat
  <2> QED
    BY <1>2, <2>1, <2>2, <2>5 DEF IInv, OnePath
<1>4. /\ mem \in [Frames -> [Slots -> Entries]]
      /\ owner \in [Frames -> {"free", "walker", "boot", "adopted"}]
      /\ lev \in [Frames -> 0..LEVELS] /\ cover \in [Frames -> SUBSET ValidPages]
  BY DEF IInv, TypeOK
<1>5. /\ mem' \in [Frames -> [Slots -> Entries]]
      /\ owner' \in [Frames -> {"free", "walker", "boot", "adopted"}]
      /\ \A f \in Frames \ {cur} : mem'[f] = mem[f] /\ owner'[f] = owner[f]
      /\ owner'[cur] # "walker"
      /\ owner'[cur] = "boot" => owner[cur] = "boot" /\ mem'[cur] = mem[cur]
  BY <1>1, <1>2, <1>4, ZeroTableType DEF dealloc_table_frame, CanFree
<1>6. /\ lev' = [lev EXCEPT ![cur] = 0] /\ cover' = [cover EXCEPT ![cur] = {}]
  BY <1>1 DEF dealloc_table_frame
<1>7. lev' \in [Frames -> 0..LEVELS] /\ cover' \in [Frames -> SUBSET ValidPages]
  <2>1. 0 \in 0..LEVELS /\ {} \in SUBSET ValidPages
    BY SizesAreNat
  <2> QED
    BY <1>2, <1>4, <1>6, <2>1
<1>8. Tables' = {} /\ Linked' = {}
  <2>1. \A f \in Frames : ~(lev'[f] > 0)
    BY <1>2, <1>3, <1>4, <1>6 DEF Tables
  <2> QED
    BY <2>1 DEF Tables, Linked
<1>9. TypeOK'
  <2>1. 0 \in 0..LEVELS /\ NoPath \in [1..LEVELS -> Frames \cup {NoFrame}] /\ NoPos \in [1..LEVELS -> 0..E]
    BY SizesAreNat DEF NoPath, NoPos
  <2> QED
    BY <1>1, <1>5, <1>7, <2>1 DEF IInv, TypeOK
<1>10. NoDanglingTable' /\ OnePath' /\ CoverInv'
  BY <1>8 DEF NoDanglingTable, OnePath, CoverInv, Links
<1>11. NoLostFrame'
  BY <1>2, <1>3, <1>5, <1>8 DEF IInv, NoLostFrame
<1>12. BootInv'
  BY <1>5 DEF IInv, BootInv
<1>13. RootInv' /\ WalkInv' /\ ChildInv' /\ DropInv'
  BY <1>1, <1>2, <1>8 DEF RootInv, WalkInv, ChildInv, DropInv
<1> QED
  BY <1>9, <1>10, <1>11, <1>12, <1>13 DEF IInv

\* Freeing a table below the root and going on in its parent.
LEMMA DropBelow ==
  ASSUME IInv, DropFree, lvl # LEVELS
  PROVE  IInv'
<1> DEFINE h == path[lvl+1]
           k == pos[lvl+1] - 1
<1>1. /\ pc = "drop" /\ DropScanned /\ dealloc_table_frame(cur)
      /\ cur' = h /\ lvl' = lvl + 1 /\ path' = [path EXCEPT ![lvl] = NoFrame]
      /\ pos' = [pos EXCEPT ![lvl] = 0] /\ UNCHANGED <<root, pc, untidy, req, child, ret>>
  BY DEF DropFree
<1>2. /\ lvl \in 1..LEVELS /\ cur = path[lvl] /\ path[LEVELS] = root
      /\ \A l \in lvl..LEVELS : path[l] \in Linked /\ path[l] \in Frames /\ lev[path[l]] = l
      /\ cur \in Linked /\ cur \in Frames /\ lev[cur] = lvl
      /\ pos \in [1..LEVELS -> 0..E] /\ path \in [1..LEVELS -> Frames \cup {NoFrame}]
      /\ child = NoFrame /\ root # NoFrame /\ Linked = Tables
      /\ root \in Linked /\ lev[root] = LEVELS /\ cover[root] = ValidPages
      /\ \A l \in lvl+1..LEVELS : pos[l] > 0 /\ mem[path[l]][pos[l]-1] = Table(path[l-1])
  BY <1>1, DropFacts
<1>3. /\ lvl + 1 \in 1..LEVELS /\ lvl + 1 \in lvl+1..LEVELS /\ lvl + 1 \in lvl..LEVELS
      /\ lvl + 1 - 1 = lvl /\ lvl # lvl + 1
  BY <1>2, SizesAreNat
<1>4. h \in Linked /\ h \in Frames /\ lev[h] = lvl + 1 /\ h # cur
  BY <1>2, <1>3
<1>5. k \in Slots /\ k \in Nat /\ k = pos[lvl+1] - 1 /\ mem[h][k] = Table(cur)
  <2>1. pos[lvl+1] > 0 /\ pos[lvl+1] \in 0..E /\ mem[h][k] = Table(path[lvl+1-1])
    BY <1>2, <1>3
  <2>2. k \in Nat /\ k \in 0..E-1
    BY <2>1, SizesAreNat
  <2> QED
    BY <1>2, <1>3, <2>1, <2>2 DEF Slots
<1>6. Links(h, k) /\ mem[h][k].to = cur /\ mem[h][k].kind = "table"
  BY <1>2, <1>4, <1>5, EntryTypes DEF Links, Scanned
<1> HIDE DEF h, k
<1>7. cur # root
  BY <1>4, <1>5, <1>6 DEF IInv, NoDanglingTable
<1>8. \A i \in Slots : ~Links(cur, i)
  BY <1>1, ScannedOut
<1>9. /\ mem \in [Frames -> [Slots -> Entries]]
      /\ owner \in [Frames -> {"free", "walker", "boot", "adopted"}]
      /\ lev \in [Frames -> 0..LEVELS] /\ cover \in [Frames -> SUBSET ValidPages]
  BY DEF IInv, TypeOK
<1>10. /\ mem' \in [Frames -> [Slots -> Entries]]
       /\ owner' \in [Frames -> {"free", "walker", "boot", "adopted"}]
       /\ \A f \in Frames \ {cur} : mem'[f] = mem[f] /\ owner'[f] = owner[f]
       /\ owner'[cur] # "walker"
       /\ owner'[cur] = "boot" => owner[cur] = "boot" /\ mem'[cur] = mem[cur]
  <2>1. CASE owner[cur] = "walker"
    <3>1. owner' = [owner EXCEPT ![cur] = "free"] /\ mem' = [mem EXCEPT ![cur] = ZeroTable]
      BY <1>1, <2>1 DEF dealloc_table_frame, CanFree
    <3> QED
      BY <1>2, <1>9, <3>1, ZeroTableType
  <2>2. CASE owner[cur] # "walker"
    <3>1. owner' = owner /\ mem' = mem
      BY <1>1, <2>2 DEF dealloc_table_frame, CanFree
    <3> QED
      BY <1>9, <2>2, <3>1
  <2> QED
    BY <2>1, <2>2
<1>11. /\ lev' = [lev EXCEPT ![cur] = 0] /\ cover' = [cover EXCEPT ![cur] = {}]
  BY <1>1 DEF dealloc_table_frame
<1>12. /\ lev' \in [Frames -> 0..LEVELS] /\ cover' \in [Frames -> SUBSET ValidPages]
       /\ lev'[cur] = 0
       /\ \A f \in Frames \ {cur} : lev'[f] = lev[f] /\ cover'[f] = cover[f]
  <2>1. 0 \in 0..LEVELS /\ {} \in SUBSET ValidPages
    BY SizesAreNat
  <2> QED
    BY <1>2, <1>9, <1>11, <2>1
<1>13. Tables' = Tables \ {cur} /\ Linked' = Linked \ {cur} /\ Linked' = Tables'
  <2>1. \A f \in Frames : lev'[f] > 0 <=> lev[f] > 0 /\ f # cur
    BY <1>12
  <2> QED
    BY <1>1, <1>2, <2>1, FrameAssumption DEF Tables, Linked
<1>14. /\ path'[lvl] = NoFrame /\ \A l \in 1..LEVELS \ {lvl} : path'[l] = path[l]
       /\ pos'[lvl] = 0 /\ \A l \in 1..LEVELS \ {lvl} : pos'[l] = pos[l]
       /\ path'[lvl+1] = h /\ pos'[lvl+1] = k + 1
  <2>1. pos[lvl+1] = k + 1
    BY <1>2, <1>3, <1>5
  <2> QED
    BY <1>1, <1>2, <1>3, <2>1 DEF h
<1>15. TypeOK'
  <2>1. path' \in [1..LEVELS -> Frames \cup {NoFrame}] /\ pos' \in [1..LEVELS -> 0..E]
    BY <1>1, <1>2, SizesAreNat
  <2>2. lvl' \in 0..LEVELS /\ lvl' \in 1..LEVELS
    BY <1>1, <1>3, SizesAreNat
  <2> QED
    BY <1>1, <1>4, <1>10, <1>12, <2>1, <2>2 DEF IInv, TypeOK
<1>16. ASSUME NEW f \in Frames, NEW i \in Slots
       PROVE  /\ Links(f, i)' <=> Links(f, i) /\ ~(f = h /\ i = k)
              /\ Links(f, i) => mem'[f][i] = mem[f][i] /\ f # cur
              /\ f # cur => SlotCover(f, i)' = SlotCover(f, i)
  <2>1. CASE f = cur
    BY <1>4, <1>8, <1>13, <2>1 DEF Links
  <2>2. CASE f # cur
    <3>1. /\ mem'[f] = mem[f] /\ lev'[f] = lev[f] /\ lev[f] \in 0..LEVELS /\ i \in Nat
          /\ SlotCover(f, i)' = SlotCover(f, i)
      BY <1>9, <1>10, <1>12, <2>2, SizesAreNat DEF Slots, SlotCover
    <3>2. CASE lev[f] <= lvl
      <4>1. ~Scanned(f, i) /\ ~Scanned(f, i)' /\ f # h
        BY <1>1, <1>2, <1>4, <2>2, <3>1, <3>2, SizesAreNat DEF Scanned
      <4> QED
        BY <1>13, <2>2, <3>1, <4>1 DEF Links
    <3>3. CASE lev[f] = lvl + 1
      <4>1. Scanned(f, i) <=> f = h /\ i < k + 1 /\ i # k
        BY <1>1, <1>2, <1>3, <1>5, <3>3, SizesAreNat DEF Scanned, h
      <4>2. Scanned(f, i)' <=> f = h /\ i < k + 1
        BY <1>1, <1>2, <1>14, <3>1, <3>3, SizesAreNat DEF Scanned
      <4>3. Scanned(f, i)' <=> Scanned(f, i) \/ (f = h /\ i = k)
        BY <1>5, <3>1, <4>1, <4>2
      <4> QED
        BY <1>13, <2>2, <3>1, <4>3 DEF Links
    <3>4. CASE lev[f] > lvl + 1
      <4>1. lev[f] \in 1..LEVELS \ {lvl} /\ f # h /\ lev[f] >= lvl + 1 /\ lev[f] >= lvl /\ lev[f] > lvl
        BY <1>2, <1>4, <3>1, <3>4, SizesAreNat
      <4>2. Scanned(f, i)' <=> Scanned(f, i)
        BY <1>1, <1>14, <3>1, <3>4, <4>1 DEF Scanned
      <4> QED
        BY <1>13, <2>2, <3>1, <4>1, <4>2 DEF Links
    <3> QED
      BY <1>2, <3>1, <3>2, <3>3, <3>4, SizesAreNat
  <2> QED
    BY <2>1, <2>2
<1>17. NoDanglingTable'
  <2> SUFFICES ASSUME NEW f \in Frames, NEW i \in Slots, Links(f, i)'
               PROVE  LET u == mem'[f][i].to IN
                      /\ u \in Linked' \ {root'} /\ lev'[u] = lev'[f] - 1
                      /\ cover'[u] = SlotCover(f, i)'
    BY DEF NoDanglingTable
  <2>1. Links(f, i) /\ ~(f = h /\ i = k) /\ mem'[f][i] = mem[f][i] /\ f # cur
    BY <1>16
  <2>2. mem[f][i].to # cur
    BY <1>4, <1>5, <1>6, <2>1, UniqueLink
  <2>3. /\ mem[f][i].to \in Linked \ {root} /\ lev[mem[f][i].to] = lev[f] - 1
        /\ cover[mem[f][i].to] = SlotCover(f, i)
    BY <2>1 DEF IInv, NoDanglingTable
  <2>4. mem[f][i].to \in Frames \ {cur}
    BY <2>2, <2>3 DEF Linked, Tables
  <2> QED
    BY <1>1, <1>12, <1>13, <1>16, <2>1, <2>3, <2>4
<1>18. NoLostFrame'
  <2>1. ASSUME NEW u \in Tables' \ {root', child'}
        PROVE  \E f \in Frames, i \in Slots : Links(f, i)' /\ mem'[f][i].to = u
    <3>1. PICK f \in Frames, i \in Slots : Links(f, i) /\ mem[f][i].to = u
      BY <1>1, <1>13 DEF IInv, NoLostFrame
    <3>2. ~(f = h /\ i = k)
      BY <1>6, <1>13, <3>1
    <3> QED
      BY <1>16, <3>1, <3>2
  <2>2. \A f \in Frames : owner'[f] = "walker" => f \in Tables'
    BY <1>10, <1>13 DEF IInv, NoLostFrame
  <2>3. \A f \in Tables' : owner'[f] \in {"walker", "adopted"}
    BY <1>10, <1>13 DEF IInv, NoLostFrame, Tables
  <2> QED
    BY <2>1, <2>2, <2>3 DEF NoLostFrame
<1>19. OnePath'
  <2> SUFFICES ASSUME NEW f \in Linked', NEW g \in Linked', NEW v \in cover'[f] \cap cover'[g]
               PROVE  /\ lev'[f] = lev'[g] => f = g
                      /\ lev'[f] < lev'[g] => Links(g, index_at(lev[g], v))'
    BY DEF OnePath
  <2>1. /\ f \in Linked \ {cur} /\ g \in Linked \ {cur} /\ v \in cover[f] /\ v \in cover[g]
        /\ lev'[f] = lev[f] /\ lev'[g] = lev[g]
    BY <1>12, <1>13 DEF Tables
  <2>2. g \in Frames /\ index_at(lev[g], v) \in Slots /\ v \in SlotCover(g, index_at(lev[g], v))
    BY <1>2, <2>1, CoverIndex DEF IInv
  <2>3. ASSUME lev[f] < lev[g]
        PROVE  Links(g, index_at(lev[g], v)) /\ ~(g = h /\ index_at(lev[g], v) = k)
    <3>1. Links(g, index_at(lev[g], v))
      BY <2>1, <2>3 DEF IInv, OnePath
    <3>2. ASSUME g = h, index_at(lev[g], v) = k
          PROVE  FALSE
      <4>1. \A j \in Slots : ~Links(mem[h][k].to, j)
        BY <1>6, <1>8
      <4>2. f \in Linked /\ f # cur /\ v \in cover[f] /\ v \in SlotCover(h, k) /\ lev[f] < lev[h]
        BY <2>1, <2>2, <2>3, <3>2
      <4> QED
        BY <1>4, <1>5, <1>6, <4>1, <4>2, NothingBelow
    <3> QED
      BY <3>1, <3>2
  <2>4. lev[f] < lev[g] => Links(g, index_at(lev[g], v))'
    BY <1>16, <2>1, <2>2, <2>3
  <2> QED
    BY <2>1, <2>4 DEF IInv, OnePath
<1>20. CoverInv' /\ BootInv'
  <2>1. CoverInv'
    BY <1>12, <1>13 DEF IInv, CoverInv, Tables
  <2>2. BootInv'
    BY <1>10 DEF IInv, BootInv
  <2> QED
    BY <2>1, <2>2
<1>21. RootInv' /\ WalkInv' /\ ChildInv'
  <2>1. root \in Frames \ {cur}
    BY <1>2, <1>7 DEF Linked, Tables
  <2> QED
    BY <1>1, <1>2, <1>7, <1>12, <1>13, <2>1 DEF RootInv, WalkInv, ChildInv
<1>22. DropInv'
  <2>1. \A l \in lvl'..LEVELS : l \in lvl..LEVELS /\ l \in 1..LEVELS \ {lvl} /\ path[l] # cur
    BY <1>1, <1>2, SizesAreNat
  <2>2. path'[LEVELS] = root' /\ cur' = path'[lvl']
    BY <1>1, <1>2, <1>3, <1>14, SizesAreNat
  <2>3. \A l \in lvl'..LEVELS : path'[l] \in Linked' /\ lev'[path'[l]] = l
    BY <1>2, <1>12, <1>13, <1>14, <2>1
  <2>4. ASSUME NEW l \in lvl'+1..LEVELS
        PROVE  pos'[l] > 0 /\ mem'[path'[l]][pos'[l]-1] = Table(path'[l-1])
    <3>1. /\ l \in lvl+1..LEVELS /\ l \in lvl'..LEVELS /\ l \in 1..LEVELS \ {lvl}
          /\ l - 1 \in 1..LEVELS \ {lvl} /\ l \in lvl..LEVELS
      BY <1>1, <1>2, SizesAreNat
    <3>2. path[l] \in Frames \ {cur}
      BY <1>2, <2>1, <3>1
    <3> QED
      BY <1>2, <1>10, <1>14, <3>1, <3>2
  <2> QED
    BY <1>1, <2>2, <2>3, <2>4 DEF DropInv
<1> QED
  BY <1>15, <1>17, <1>18, <1>19, <1>20, <1>21, <1>22 DEF IInv

-------------------------------------------------------------------------------
(* The invariant. *)

LEMMA InitIInv ==
  ASSUME Init
  PROVE  IInv
<1>1. \A f \in Frames : lev[f] = 0 /\ owner[f] # "walker"
  BY DEF Init
<1>2. Tables = {} /\ Linked = {}
  <2>1. \A f \in Frames : ~(lev[f] > 0)
    BY <1>1
  <2> QED
    BY <2>1 DEF Tables, Linked
<1>3. TypeOK
  <2>1. mem \in [Frames -> [Slots -> Entries]]
    <3>1. ASSUME NEW f \in BootFrames PROVE BootTree.mem[f] \in [Slots -> Entries]
      BY BootAssumption
    <3> QED
      BY <3>1, ZeroTableType DEF Init
  <2>2. owner \in [Frames -> {"free", "walker", "boot", "adopted"}]
    BY DEF Init
  <2>3. 0 \in 0..LEVELS /\ NoPath \in [1..LEVELS -> Frames \cup {NoFrame}] /\ NoPos \in [1..LEVELS -> 0..E]
    BY SizesAreNat DEF NoPath, NoPos
  <2>4. lev \in [Frames -> 0..LEVELS] /\ cover \in [Frames -> SUBSET ValidPages]
    BY <2>3 DEF Init
  <2> QED
    BY <2>1, <2>2, <2>3, <2>4 DEF Init, TypeOK, Results
<1>4. NoDanglingTable /\ NoLostFrame /\ OnePath /\ CoverInv
  BY <1>1, <1>2 DEF NoDanglingTable, NoLostFrame, OnePath, CoverInv, Links
<1>5. BootInv
  BY DEF Init, BootInv
<1>6. RootInv /\ WalkInv /\ ChildInv /\ DropInv
  BY <1>2 DEF Init, RootInv, WalkInv, ChildInv, DropInv
<1> QED
  BY <1>3, <1>4, <1>5, <1>6 DEF IInv

LEMMA StutterStep ==
  ASSUME IInv, UNCHANGED vars
  PROVE  IInv'
<1>1. UNCHANGED <<mem, owner, root, lev, cover, req, pc, cur, lvl, path, pos, child, ret, untidy>>
  BY DEF vars, memory, locals, ghosts
<1>2. Tables' = Tables /\ Linked' = Linked
  BY <1>1 DEF Tables, Linked
<1>3. TreeInv'
  BY <1>1, <1>2, TreeSameLinks DEF Links, Scanned
<1>4. TypeOK'
  BY <1>1 DEF IInv, TypeOK
<1>5. ControlInv'
  BY <1>1, <1>2 DEF IInv, ControlInv, RootInv, WalkInv, AtTable, Above, ChildInv, SlotCover, Slot,
     Idx, DropInv
<1> QED
  BY <1>3, <1>4, <1>5 DEF IInv, TreeInv, ControlInv

\* The inductive invariant: the tree of tables is sound, and each step of each
\* call stands where it believes to stand, initially and after every step.
THEOREM IInvInductive ==
  /\ Init => IInv
  /\ IInv /\ [Next]_vars => IInv'
<1>1. Init => IInv
  BY InitIInv
<1>2. ASSUME IInv, [Next]_vars
      PROVE  IInv'
  <2>1. CASE \E f \in Frames : try_new(f)
    BY <1>2, <2>1, TryNewStep
  <2>2. CASE adopt
    BY <1>2, <2>2, AdoptStep
  <2>3. CASE \E r \in Requests : Call(r)
    BY <1>2, <2>3, CallStep
  <2>4. CASE DropStart \/ DropScan
    BY <1>2, <2>4, DropStartStep, DropScanStep
  <2>5. CASE DropFree
    BY <1>2, <2>5, DropRoot, DropBelow
  <2>6. CASE MapDescend \/ ExactDescend \/ MergeDescend
    BY <1>2, <2>6, DescendSteps
  <2>7. CASE MapRefuse \/ ExactRefuse \/ MergeRefuse \/ MergeNothing \/ Flush
             \/ \E e \in AllocErrors : MapStarve(e) \/ SplitStarve(e)
    BY <1>2, <2>7, RefuseSteps
  <2>8. CASE MapInstall \/ Rewrite \/ UnmapClear
    BY <1>2, <2>8, LeafWriteSteps
  <2>9. CASE \E f \in Frames : MapGrow(f) \/ SplitBuild(f)
    BY <1>2, <2>9, MapGrowStep, SplitBuildStep
  <2>10. CASE ReclaimStop \/ ReclaimUnlink \/ ReclaimFree
    BY <1>2, <2>10, ReclaimStopStep, ReclaimUnlinkStep, ReleaseSteps
  <2>11. CASE SplitSwap \/ MergeWrite \/ MergeFree \/ Return
    BY <1>2, <2>11, SplitSwapStep, MergeWriteStep, ReleaseSteps, ReturnStep
  <2>12. CASE UNCHANGED vars
    BY <1>2, <2>12, StutterStep
  <2> QED
    BY <1>2, <2>1, <2>2, <2>3, <2>4, <2>5, <2>6, <2>7, <2>8, <2>9, <2>10, <2>11, <2>12
       DEF Next, Step
<1> QED
  BY <1>1, <1>2

THEOREM InvariantHolds == Spec => []IInv
BY IInvInductive, PTL DEF Spec

\* The state stays in its types: no step of walker.rs leaves a level below 1,
\* an index outside its table, or an entry the format has no encoding for.
THEOREM TypeSafe == Spec => []TypeOK
<1>1. IInv => TypeOK
  BY DEF IInv
<1> QED
  BY <1>1, InvariantHolds, PTL

\* In every reachable state, also in the middle of a call or of drop_subtree, no
\* table entry that translation can follow points at a freed frame.
THEOREM NeverDangling == Spec => []NoDanglingTable
<1>1. IInv => NoDanglingTable
  BY DEF IInv
<1> QED
  BY <1>1, InvariantHolds, PTL

\* No frame taken from the allocator is ever lost, whatever fails half-way.
THEOREM NeverLost == Spec => []NoLostFrame
<1>1. IInv => NoLostFrame
  BY DEF IInv
<1> QED
  BY <1>1, InvariantHolds, PTL

\* The tables are a tree: a page is translated along one path.
THEOREM AlwaysOnePath == Spec => []OnePath
<1>1. IInv => OnePath
  BY DEF IInv
<1> QED
  BY <1>1, InvariantHolds, PTL

===============================================================================

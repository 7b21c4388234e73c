---------------------------- MODULE ActivationProofs ----------------------------
(* Theorems of Activation and of the entries it walks: what an entry encodes  *)
(* is what it reads back as, and what every call leaves in the registers.     *)
EXTENDS Activation, SequenceTheorems, NaturalsInduction, WellFoundedInduction, TLAPS

-------------------------------------------------------------------------------
(* Entries. *)

AllAccess == {"READ", "WRITE", "EXECUTE", "USER", "GLOBAL"}

\* Flags a caller can make, and those an entry can be read as.
FlagTypes ==
  [access : {a \in SUBSET AllAccess : "READ" \in a}, cache : Policies,
   share : {"NonShareable", "Inner", "Outer", "System"}]

\* Flags that can be asked for have the types of their fields.
LEMMA LeafFlagsTyped == LeafFlags \subseteq FlagTypes
<1>1. \A a \in Accesses : a \cup {"READ"} \in {b \in SUBSET AllAccess : "READ" \in b}
  <2>. SUFFICES ASSUME NEW a \in Accesses PROVE a \cup {"READ"} \in SUBSET AllAccess
    OBVIOUS
  <2>1. a \subseteq AllAccess
    BY FormatAssumption DEF AllAccess
  <2>. QED  BY <2>1 DEF AllAccess
<1>2. \A s \in Shares : s \in {"NonShareable", "Inner", "Outer", "System"}
  BY FormatAssumption
<1>. QED  BY <1>1, <1>2 DEF LeafFlags, FlagTypes

-------------------------------------------------------------------------------
(* Geometry: which level holds a leaf of which size. *)

\* The eleven formats are of three architectures.
LEMMA Archs ==
  ASSUME fmt \in Formats
  PROVE  /\ Arch = "x86_64" <=> fmt.meta \in X86Metas
         /\ Arch = "riscv64" <=> fmt.meta \in Rv64Metas
         /\ Arch = "aarch64" <=> fmt.meta \in A64Metas
         /\ Arch \in {"x86_64", "riscv64", "aarch64"}
         /\ fmt.svpbmt \in BOOLEAN
<1>1. fmt.meta \in X86Metas \cup Rv64Metas \cup A64Metas /\ fmt.svpbmt \in BOOLEAN
  <2>1. PICK m \in Metas : fmt \in {[meta |-> m, svpbmt |-> b] : b \in BOOLEAN}
    BY DEF Formats
  <2>. QED  BY <2>1, FormatAssumption
<1>2. /\ X86Metas \cap Rv64Metas = {} /\ X86Metas \cap A64Metas = {}
      /\ Rv64Metas \cap A64Metas = {}
  BY DEF X86Metas, Rv64Metas, A64Metas
<1>. QED  BY <1>1, <1>2 DEF Arch

\* The size of a leaf tells its level, which decides the bit the decoder goes by.
LEMMA LeafLevels ==
  ASSUME fmt \in Formats, NEW l, HoldsLeaf(l)
  PROVE  LET size == leaf_size_at_level(fmt.meta, l) IN
         /\ Arch = "x86_64" => \/ l = 1 /\ size = 12
                               \/ l = 2 /\ size = 21
                               \/ l = 3 /\ size = 30
         /\ Arch = "aarch64" => \/ l = 1 /\ size \in {12, 14, 16}
                                \/ l \in {2, 3} /\ size \in {21, 25, 29, 30, 36, 42}
         /\ Arch = "riscv64" => l \in 1..4
<1>. DEFINE size == leaf_size_at_level(fmt.meta, l)
<1>1. l \in DOMAIN Meta(fmt.meta).leaves /\ Meta(fmt.meta).leaves[l] = size
  BY DEF HoldsLeaf, level_supports_leaf
<1>. HIDE DEF size
<1>2. CASE Arch = "x86_64"
  <2>1. Meta(fmt.meta).leaves = <<12, 21, 30>>
    BY <1>2, Archs DEF Meta, X86Metas, X86Meta48, X86Meta57, Geometry
  <2>. QED  BY <1>1, <1>2, <2>1 DEF size
<1>3. CASE Arch = "aarch64"
  <2>1. Meta(fmt.meta).leaves \in {<<12, 21, 30>>, <<14, 25, 36>>, <<16, 29, 42>>}
    BY <1>3, Archs
    DEF Meta, A64Metas, A64Meta4K48, A64Meta4K52, A64Meta16K48, A64Meta16K52, A64Meta64K48,
        A64Meta64K52, Geometry
  <2>. QED  BY <1>1, <1>3, <2>1 DEF size
<1>4. CASE Arch = "riscv64"
  <2>1. Meta(fmt.meta).leaves \in {<<12, 21, 30>>, <<12, 21, 30, 39>>}
    BY <1>4, Archs DEF Meta, Rv64Metas, Rv64Meta39, Rv64Meta48, Rv64Meta57, Geometry
  <2>. QED  BY <1>1, <1>4, <2>1 DEF size
<1>. QED  BY <1>2, <1>3, <1>4, Archs DEF size

-------------------------------------------------------------------------------
(* One leaf of each architecture, written and read back. *)

\* An x86-64 leaf reads back as the flags it was made from.
LEMMA X86Reads ==
  ASSUME fmt \in Formats, Arch = "x86_64", NEW fl \in FlagTypes, NEW pa, NEW size,
         NEW e, e = X86Leaf(pa, fl, size)
  PROVE  /\ e.pa = pa /\ is_present(e)
         /\ X86Flags(e).access = fl.access /\ HwRights(e) = fl.access
         /\ e.index \in 0..3 /\ e.index = X86PatIndex(fl.cache)
         /\ "bit7" \in e.bits <=> size \in {21, 30}
<1>1. e = Entry(X86LeafBits(fl, size), pa, X86PatIndex(fl.cache), "none")
  BY DEF X86Leaf
<1>2. e.bits = X86LeafBits(fl, size) /\ e.pa = pa /\ e.index = X86PatIndex(fl.cache)
  BY <1>1 DEF Entry
<1>3. fl.access \in SUBSET AllAccess /\ "READ" \in fl.access /\ fl.cache \in Policies
  BY DEF FlagTypes
<1>4. /\ "P" \in e.bits
      /\ "W" \in e.bits <=> "WRITE" \in fl.access
      /\ "U" \in e.bits <=> "USER" \in fl.access
      /\ "G" \in e.bits <=> "GLOBAL" \in fl.access
      /\ "NX" \in e.bits <=> "EXECUTE" \notin fl.access
      /\ "bit7" \in e.bits <=> size \in {21, 30}
  BY <1>2 DEF X86LeafBits
<1>5. X86Flags(e).access = fl.access
  BY <1>3, <1>4 DEF X86Flags, AllAccess
<1>6. HwRights(e) = fl.access
  BY <1>3, <1>4 DEF HwRights, AllAccess
<1>7. X86PatIndex(fl.cache) \in 0..3
  BY <1>3 DEF X86PatIndex, Policies
<1>. QED  BY <1>2, <1>4, <1>5, <1>6, <1>7 DEF is_present

\* The cache policy behind the low bits of an index.
LEMMA X86Policy ==
  ASSUME NEW e, NEW c \in Policies, e.index % 4 = X86PatIndex(c)
  PROVE  X86Flags(e).cache = c
<1>1. \A d \in Policies : X86PatIndex(d) = X86PatIndex(c) => d = c
  BY DEF X86PatIndex, Policies
<1>. QED  BY <1>1 DEF X86Flags

\* So does a RISC-V one, but for what the format has no bits for.
LEMMA Rv64Reads ==
  ASSUME fmt \in Formats, Arch = "riscv64", NEW fl \in FlagTypes, NEW pa,
         NEW e, e = Rv64Leaf(pa, fl, fmt.svpbmt)
  PROVE  /\ e.pa = pa /\ is_present(e)
         /\ Rv64Flags(e, fmt.svpbmt) = Kept(fl) /\ HwRights(e) = fl.access
         /\ \A l : Rv64Kind(e, l, fmt.svpbmt) = "leaf" /\ HwKind(e, l) = "leaf"
         /\ Pbmt[e.index + 1] = Expressible(fl.cache)
<1>1. e = Entry(Rv64LeafBits(fl), pa, Rv64Pbmt(fl.cache, fmt.svpbmt), "none")
  BY DEF Rv64Leaf
<1>2. /\ e.bits = Rv64LeafBits(fl) /\ e.pa = pa
      /\ e.index = Rv64Pbmt(fl.cache, fmt.svpbmt)
  BY <1>1 DEF Entry
<1>3. fl.access \in SUBSET AllAccess /\ "READ" \in fl.access /\ fl.cache \in Policies
  BY DEF FlagTypes
<1>4. /\ "V" \in e.bits /\ "A" \in e.bits /\ "R" \in e.bits
      /\ "W" \in e.bits <=> "WRITE" \in fl.access
      /\ "D" \in e.bits <=> "WRITE" \in fl.access
      /\ "X" \in e.bits <=> "EXECUTE" \in fl.access
      /\ "U" \in e.bits <=> "USER" \in fl.access
      /\ "G" \in e.bits <=> "GLOBAL" \in fl.access
  BY <1>2, <1>3 DEF Rv64LeafBits
<1>5. fmt.svpbmt \in BOOLEAN
  BY Archs
<1>6. \A b : Rv64Flags(e, b).access = fl.access
  BY <1>3, <1>4 DEF Rv64Flags, AllAccess
<1>7. /\ e.index \in 0..2
      /\ ~fmt.svpbmt => e.index = 0
      /\ Rv64Flags(e, fmt.svpbmt).cache = Expressible(fl.cache)
      /\ Pbmt[e.index + 1] = Expressible(fl.cache)
  BY <1>2, <1>3, <1>5 DEF Rv64Flags, Rv64Pbmt, Expressible, Policies, Pbmt
<1>8. Rv64Flags(e, fmt.svpbmt) = Kept(fl)
  BY <1>6, <1>7 DEF Rv64Flags, Kept
<1>9. valid_encoding(e, fmt.svpbmt)
  BY <1>4, <1>7 DEF valid_encoding
<1>10. \A l : Rv64Kind(e, l, fmt.svpbmt) = "leaf"
  BY <1>4, <1>9 DEF Rv64Kind
<1>11. is_present(e)
  BY <1>4 DEF is_present
<1>12. \A l : HwKind(e, l) = "leaf"
  BY <1>4, <1>5, <1>7, <1>11 DEF HwKind
<1>13. HwRights(e) = fl.access
  BY <1>6 DEF HwRights
<1>. QED  BY <1>2, <1>7, <1>8, <1>10, <1>11, <1>12, <1>13

\* And an AArch64 one.
LEMMA A64Reads ==
  ASSUME fmt \in Formats, Arch = "aarch64", NEW fl \in FlagTypes, NEW pa, NEW size,
         NEW e, e = A64Leaf(pa, fl, size)
  PROVE  /\ e.pa = pa /\ is_present(e) /\ "valid" \in e.bits
         /\ A64Flags(e) = Kept(fl) /\ HwRights(e) = fl.access
         /\ "form" \in e.bits <=> size \in {12, 14, 16}
         /\ A64_MAIR_EL1_VALUE[e.index + 1] = Expressible(fl.cache)
<1>1. e = Entry(A64LeafBits(fl, size), pa, A64AttrIndex(fl.cache), A64Sharing(fl.share))
  BY DEF A64Leaf
<1>2. /\ e.bits = A64LeafBits(fl, size) /\ e.pa = pa
      /\ e.index = A64AttrIndex(fl.cache) /\ e.share = A64Sharing(fl.share)
  BY <1>1 DEF Entry
<1>3. fl.access \in SUBSET AllAccess /\ "READ" \in fl.access /\ fl.cache \in Policies
  BY DEF FlagTypes
<1>4. /\ "valid" \in e.bits
      /\ "form" \in e.bits <=> size \in {12, 14, 16}
      /\ "apWrite" \in e.bits <=> "WRITE" \in fl.access
      /\ "apUser" \in e.bits <=> "USER" \in fl.access
      /\ "XN" \in e.bits <=> "EXECUTE" \notin fl.access
      /\ "nG" \in e.bits <=> "GLOBAL" \notin fl.access
  BY <1>2 DEF A64LeafBits, access_to_ap
<1>5. A64Flags(e).access = fl.access
  BY <1>3, <1>4 DEF A64Flags, AllAccess
<1>6. HwRights(e) = fl.access
  BY <1>3, <1>4 DEF HwRights, AllAccess
<1>7. \A d \in Policies : A64AttrIndex(d) = e.index => d = fl.cache
  BY <1>2, <1>3 DEF A64AttrIndex, Policies
<1>8. A64Flags(e).cache = fl.cache
  BY <1>2, <1>3, <1>7 DEF A64Flags
<1>9. A64Flags(e) = Kept(fl)
  BY <1>2, <1>5, <1>8 DEF A64Flags, Kept, Expressible
<1>10. A64_MAIR_EL1_VALUE[e.index + 1] = fl.cache
  BY <1>2, <1>3 DEF A64AttrIndex, Policies, A64_MAIR_EL1_VALUE
<1>. QED  BY <1>2, <1>4, <1>6, <1>9, <1>10 DEF is_present, Expressible

-------------------------------------------------------------------------------
(* A leaf, whatever the architecture. *)

\* What a leaf entry at level l says, to the walker and to the hardware.
Says(e, l, pa, fl) ==
  /\ is_present(e) /\ entry_kind(e, l) = "leaf" /\ e.pa = pa /\ flags(e) = Kept(fl)
  /\ HwKind(e, l) = "leaf" /\ HwRights(e) = fl.access
  /\ HwType(e, X86_PAT_MSR_VALUE, A64_MAIR_EL1_VALUE) = Expressible(fl.cache)

\* What a format loses, it loses once.
LEMMA KeptTwice ==
  ASSUME fmt \in Formats, NEW fl \in FlagTypes
  PROVE  /\ Kept(fl) \in FlagTypes /\ Kept(Kept(fl)) = Kept(fl)
         /\ Kept(fl).access = fl.access /\ Expressible(Kept(fl).cache) = Expressible(fl.cache)
<1>1. Expressible(fl.cache) \in Policies /\ Expressible(Expressible(fl.cache)) = Expressible(fl.cache)
  BY DEF Expressible, Policies, FlagTypes
<1>2. /\ A64Sharing(fl.share) \in {"NonShareable", "Inner", "Outer", "System"}
      /\ A64Sharing(A64Sharing(fl.share)) = A64Sharing(fl.share)
  BY DEF A64Sharing, FlagTypes
<1>. QED  BY <1>1, <1>2 DEF Kept, FlagTypes

\* Flags read back from a leaf of any level are those it was made with.
LEMMA FlagsRead ==
  ASSUME fmt \in Formats, NEW fl \in FlagTypes, NEW pa, NEW l
  PROVE  flags(new_leaf(pa, fl, l)) = Kept(fl)
<1>1. CASE Arch = "x86_64"
  <2>. DEFINE size == leaf_size_at_level(fmt.meta, l)
              e == X86Leaf(pa, fl, size)
  <2>1. /\ X86Flags(e).access = fl.access /\ e.index = X86PatIndex(fl.cache) /\ e.index \in 0..3
    BY <1>1, X86Reads
  <2>2. X86Flags(e).cache = fl.cache
    <3>1. fl.cache \in Policies /\ e.index % 4 = X86PatIndex(fl.cache)
      BY <2>1 DEF FlagTypes
    <3>. QED  BY <3>1, X86Policy
  <2>3. X86Flags(e) = Kept(fl)
    BY <1>1, <2>1, <2>2 DEF X86Flags, Kept, Expressible
  <2>. QED  BY <1>1, <2>3 DEF flags, new_leaf
<1>2. CASE Arch = "riscv64"
  BY <1>2, Rv64Reads DEF flags, new_leaf
<1>3. CASE Arch = "aarch64"
  BY <1>3, A64Reads DEF flags, new_leaf
<1>. QED  BY <1>1, <1>2, <1>3, Archs

\* A leaf made from flags reads back as what is kept of them, by code and by hardware.
LEMMA LeafSays ==
  ASSUME fmt \in Formats, NEW fl \in FlagTypes, NEW pa, NEW l, HoldsLeaf(l)
  PROVE  Says(new_leaf(pa, fl, l), l, pa, fl)
<1>. DEFINE size == leaf_size_at_level(fmt.meta, l)
            e == new_leaf(pa, fl, l)
<1>1. flags(e) = Kept(fl)
  BY FlagsRead
<1>2. CASE Arch = "x86_64"
  <2>1. e = X86Leaf(pa, fl, size)
    BY <1>2 DEF new_leaf
  <2>2. /\ e.pa = pa /\ is_present(e) /\ HwRights(e) = fl.access
        /\ e.index \in 0..3 /\ e.index = X86PatIndex(fl.cache)
        /\ "bit7" \in e.bits <=> size \in {21, 30}
    BY <1>2, <2>1, X86Reads
  <2>3. l \in 1..3 /\ (l = 1 \/ "bit7" \in e.bits)
    BY <1>2, <2>2, LeafLevels
  <2>4. entry_kind(e, l) = "leaf" /\ HwKind(e, l) = "leaf"
    BY <1>2, <2>2, <2>3 DEF entry_kind, X86Kind, HwKind
  <2>5. X86_PAT_MSR_VALUE[e.index + 1] = fl.cache
    BY <2>2 DEF X86PatIndex, X86_PAT_MSR_VALUE, FlagTypes, Policies
  <2>. QED  BY <1>1, <1>2, <2>2, <2>4, <2>5 DEF Says, HwType, Expressible
<1>3. CASE Arch = "riscv64"
  <2>1. e = Rv64Leaf(pa, fl, fmt.svpbmt)
    BY <1>3 DEF new_leaf
  <2>2. /\ e.pa = pa /\ is_present(e) /\ HwRights(e) = fl.access
        /\ Rv64Kind(e, l, fmt.svpbmt) = "leaf" /\ HwKind(e, l) = "leaf"
        /\ Pbmt[e.index + 1] = Expressible(fl.cache)
    BY <1>3, <2>1, Rv64Reads
  <2>. QED  BY <1>1, <1>3, <2>2 DEF Says, HwType, entry_kind
<1>4. CASE Arch = "aarch64"
  <2>1. e = A64Leaf(pa, fl, size)
    BY <1>4 DEF new_leaf
  <2>2. /\ e.pa = pa /\ is_present(e) /\ "valid" \in e.bits /\ HwRights(e) = fl.access
        /\ "form" \in e.bits <=> size \in {12, 14, 16}
        /\ A64_MAIR_EL1_VALUE[e.index + 1] = Expressible(fl.cache)
    BY <1>4, <2>1, A64Reads
  <2>3. l \in 1..3 /\ ("form" \in e.bits <=> l = 1)
    BY <1>4, <2>2, LeafLevels
  <2>4. entry_kind(e, l) = "leaf" /\ HwKind(e, l) = "leaf"
    BY <1>4, <2>2, <2>3 DEF entry_kind, A64Kind, HwKind
  <2>. QED  BY <1>1, <1>4, <2>2, <2>4 DEF Says, HwType
<1>. QED  BY <1>2, <1>3, <1>4, Archs

\* A 4 KiB leaf of other code, with the PAT bit.
HighPat(e) == [e EXCEPT !.bits = @ \cup {"bit7"}, !.index = @ + 4]

\* A 4 KiB leaf with the PAT bit set is a leaf with the policy of the lower slot.
LEMMA HighPatSays ==
  ASSUME fmt \in Formats, Arch = "x86_64", NEW fl \in FlagTypes, fl.cache # "WriteCombine", NEW pa
  PROVE  Says(HighPat(new_leaf(pa, fl, 1)), 1, pa, fl)
<1>. DEFINE size == leaf_size_at_level(fmt.meta, 1)
            e == X86Leaf(pa, fl, size)
            h == HighPat(e)
<1>1. /\ e.pa = pa /\ is_present(e) /\ X86Flags(e).access = fl.access /\ HwRights(e) = fl.access
      /\ e.index \in 0..3 /\ e.index = X86PatIndex(fl.cache)
  BY X86Reads
<1>2. h.bits = e.bits \cup {"bit7"} /\ h.index = e.index + 4 /\ h.pa = e.pa
  BY DEF HighPat, X86Leaf, Entry
<1>3. X86Flags(h).access = fl.access /\ HwRights(h) = fl.access /\ is_present(h)
  BY <1>1, <1>2 DEF X86Flags, HwRights, is_present
<1>4. X86Flags(h).cache = fl.cache
  <2>1. fl.cache \in Policies /\ h.index % 4 = X86PatIndex(fl.cache)
    BY <1>1, <1>2 DEF FlagTypes
  <2>. QED  BY <2>1, X86Policy
<1>5. flags(h) = Kept(fl)
  BY <1>3, <1>4 DEF flags, X86Flags, Kept, Expressible
<1>6. entry_kind(h, 1) = "leaf" /\ HwKind(h, 1) = "leaf"
  BY <1>3 DEF entry_kind, X86Kind, HwKind
<1>7. X86_PAT_MSR_VALUE[h.index + 1] = fl.cache
  BY <1>1, <1>2 DEF X86PatIndex, X86_PAT_MSR_VALUE, FlagTypes, Policies
<1>. QED  BY <1>1, <1>2, <1>3, <1>5, <1>6, <1>7 DEF Says, HwType, Expressible, new_leaf

-------------------------------------------------------------------------------
(* The slot, through any sequence of writes. *)

\* An entry that holds what was asked of the slot: flags that lost what the format
\* cannot say, and nothing else, on their way through earlier entries.
HoldsAsked(e, l, w) ==
  \/ w = Vacant /\ e = Cleared
  \/ w.kind = "table" /\ l > 1 /\ e = new_table(w.pa)
  \/ /\ w = Asked("leaf", w.pa, w.fl) /\ w.fl \in FlagTypes /\ HoldsLeaf(l)
     /\ \E fl \in FlagTypes : Kept(fl) = Kept(w.fl) /\ Says(e, l, w.pa, fl)

\* What ReadsBack and HardwareAgrees need to be inductive.
EntryInv == fmt \in Formats /\ lvl \in Nat /\ HoldsAsked(pte, lvl, want)

\* A table entry is a table, by code and by hardware.
LEMMA TableSays ==
  ASSUME fmt \in Formats, NEW pa, NEW l \in Nat, l > 1
  PROVE  LET e == new_table(pa) IN
         /\ is_present(e) /\ entry_kind(e, l) = "table" /\ e.pa = pa /\ HwKind(e, l) = "table"
         /\ Arch = "x86_64" => e.bits = {"P", "W", "U"}
<1>. DEFINE e == new_table(pa)
<1>1. CASE Arch = "x86_64"
  <2>1. e.bits = {"P", "W", "U"} /\ e.pa = pa
    BY <1>1 DEF new_table, X86Table, Entry
  <2>. QED  BY <1>1, <2>1 DEF is_present, entry_kind, X86Kind, HwKind
<1>2. CASE Arch = "riscv64"
  <2>1. e.bits = {"V"} /\ e.pa = pa /\ e.index = 0
    BY <1>2 DEF new_table, Rv64Table, Entry
  <2>2. is_present(e) /\ valid_encoding(e, fmt.svpbmt)
    BY <2>1 DEF is_present, valid_encoding
  <2>. QED  BY <1>2, <2>1, <2>2 DEF entry_kind, Rv64Kind, HwKind
<1>3. CASE Arch = "aarch64"
  <2>1. e.bits = {"valid", "form"} /\ e.pa = pa
    BY <1>3 DEF new_table, A64Table, Entry
  <2>. QED  BY <1>3, <2>1 DEF is_present, entry_kind, A64Kind, HwKind
<1>. QED  BY <1>1, <1>2, <1>3, Archs

\* A cleared entry is neither.
LEMMA ClearedSays == ~is_present(Cleared) /\ HwKind(Cleared, lvl) = "none"
BY DEF is_present, Cleared, Entry, HwKind

\* Both properties follow from the invariant.
LEMMA InvReads == EntryInv => ReadsBack /\ HardwareAgrees
<1>. SUFFICES ASSUME EntryInv PROVE ReadsBack /\ HardwareAgrees
  OBVIOUS
<1>. USE DEF EntryInv
<1>1. CASE want = Vacant /\ pte = Cleared
  BY <1>1, ClearedSays DEF ReadsBack, HardwareAgrees, Vacant, Asked
<1>2. CASE want.kind = "table" /\ lvl > 1 /\ pte = new_table(want.pa)
  <2>1. /\ is_present(pte) /\ entry_kind(pte, lvl) = "table" /\ pte.pa = want.pa
        /\ HwKind(pte, lvl) = "table"
        /\ Arch = "x86_64" => pte.bits = {"P", "W", "U"}
    BY <1>2, TableSays
  <2>. QED  BY <1>2, <2>1 DEF ReadsBack, HardwareAgrees
<1>3. CASE want = Asked("leaf", want.pa, want.fl) /\ want.fl \in FlagTypes
           /\ \E fl \in FlagTypes : Kept(fl) = Kept(want.fl) /\ Says(pte, lvl, want.pa, fl)
  <2>1. PICK fl \in FlagTypes : Kept(fl) = Kept(want.fl) /\ Says(pte, lvl, want.pa, fl)
    BY <1>3
  <2>2. fl.access = want.fl.access /\ Expressible(fl.cache) = Expressible(want.fl.cache)
    BY <2>1 DEF Kept
  <2>3. want.kind = "leaf"
    BY <1>3 DEF Asked
  <2>. QED  BY <2>1, <2>2, <2>3 DEF ReadsBack, HardwareAgrees, Says
<1>. QED  BY <1>1, <1>2, <1>3 DEF HoldsAsked

\* The format is fixed, and everything that depends on nothing else.
LEMMA SameFormat ==
  ASSUME UNCHANGED fmt, NEW e, NEW l, NEW w
  PROVE  HoldsAsked(e, l, w)' = HoldsAsked(e, l, w)
<1>1. Arch' = Arch
  BY DEF Arch
<1>2. \A x : Expressible(x)' = Expressible(x)
  BY <1>1 DEF Expressible
<1>3. \A x : Kept(x)' = Kept(x)
  BY <1>1, <1>2 DEF Kept
<1>4. /\ \A x : new_table(x)' = new_table(x)
      /\ \A x, k : entry_kind(x, k)' = entry_kind(x, k)
      /\ \A x : flags(x)' = flags(x)
      /\ \A x, k : HwKind(x, k)' = HwKind(x, k)
      /\ \A x : HwRights(x)' = HwRights(x)
      /\ \A x : HwType(x, X86_PAT_MSR_VALUE, A64_MAIR_EL1_VALUE)' = HwType(x, X86_PAT_MSR_VALUE, A64_MAIR_EL1_VALUE)
  BY <1>1 DEF new_table, entry_kind, flags, HwKind, HwRights, HwType
<1>5. \A k : HoldsLeaf(k)' = HoldsLeaf(k)
  BY DEF HoldsLeaf
<1>6. \A x, k, pa, fl : Says(x, k, pa, fl)' = Says(x, k, pa, fl)
  BY <1>2, <1>3, <1>4 DEF Says
<1>. QED  BY <1>3, <1>4, <1>5, <1>6 DEF HoldsAsked

\* A write that leaves a leaf with the flags asked for, or with what was kept of them.
LEMMA LeafWritten ==
  ASSUME fmt \in Formats, NEW l \in Nat, HoldsLeaf(l), NEW pa, NEW fl \in FlagTypes,
         NEW w, w = Asked("leaf", pa, w.fl), w.fl \in FlagTypes, Kept(w.fl) = Kept(fl)
  PROVE  HoldsAsked(new_leaf(pa, fl, l), l, w)
<1>1. w.pa = pa
  BY DEF Asked
<1>. QED  BY <1>1, LeafSays DEF HoldsAsked

\* What was asked of a leaf is what its entry says, but for what the format cannot keep.
LEMMA LeafAsked ==
  ASSUME EntryInv, IsLeaf
  PROVE  /\ want = Asked("leaf", want.pa, want.fl) /\ want.fl \in FlagTypes /\ pte.pa = want.pa /\ HoldsLeaf(lvl)
         /\ flags(pte) = Kept(want.fl) /\ flags(pte) \in FlagTypes
         /\ Kept(flags(pte)) = Kept(want.fl)
<1>1. ReadsBack
  BY InvReads
<1>2. want.kind = "leaf" /\ pte.pa = want.pa /\ flags(pte) = Kept(want.fl)
  BY <1>1 DEF ReadsBack, IsLeaf
<1>3. want = Asked("leaf", want.pa, want.fl) /\ want.fl \in FlagTypes /\ HoldsLeaf(lvl)
  BY <1>2 DEF EntryInv, HoldsAsked, Vacant, Asked
<1>. QED  BY <1>2, <1>3, KeptTwice DEF EntryInv

-------------------------------------------------------------------------------
(* Every write of the walker keeps the invariant. *)

\* A store leaves the slot as it was asked.
LEMMA Written ==
  ASSUME EntryInv, NEW l \in Nat, NEW e, NEW w, Write(l, e, w), HoldsAsked(e, l, w)
  PROVE  EntryInv'
<1>1. lvl' = l /\ pte' = e /\ want' = w /\ UNCHANGED fmt
  BY DEF Write
<1>2. HoldsAsked(e, l, w)'
  BY <1>1, SameFormat
<1>. QED  BY <1>1, <1>2 DEF EntryInv, Formats, HoldsAsked, Says

\* Every x86-64 format has 4 KiB leaves.
LEMMA SmallestLeaf ==
  ASSUME fmt \in Formats, Arch = "x86_64"
  PROVE  HoldsLeaf(1)
<1>1. Meta(fmt.meta) \in {X86Meta48, X86Meta57}
  BY Archs DEF Meta, X86Metas
<1>2. /\ Meta(fmt.meta).leaves = <<12, 21, 30>>
      /\ Meta(fmt.meta).BASE = 12 /\ Meta(fmt.meta).INDEX_BITS = 9
  BY <1>1 DEF X86Meta48, X86Meta57, Geometry
<1>3. leaf_size_at_level(fmt.meta, 1) = 12
  BY <1>2 DEF leaf_size_at_level, level_shift, PageSizes
<1>. QED  BY <1>2, <1>3 DEF HoldsLeaf, level_supports_leaf

\* The slot begins cleared.
LEMMA EntryInitInv == EntryInit => EntryInv
<1>. SUFFICES ASSUME EntryInit PROVE EntryInv
  OBVIOUS
<1>1. fmt \in Formats /\ pte = Cleared /\ want = Vacant /\ lvl \in 1..Meta(fmt.meta).LEVELS
  BY DEF EntryInit
<1>. QED  BY <1>1 DEF EntryInv, HoldsAsked

\* Each store keeps the slot as it was asked, split and merge included.
LEMMA EntryStep == EntryInv /\ [EntryNext]_evars => EntryInv'
<1>. SUFFICES ASSUME EntryInv, [EntryNext]_evars PROVE EntryInv'
  OBVIOUS
<1>1. fmt \in Formats /\ lvl \in Nat
  BY DEF EntryInv
<1>2. Plain \in FlagTypes
  BY DEF Plain, FlagTypes, AllAccess, Policies
<1>3. ASSUME NEW pa \in Bases, NEW fl \in LeafFlags, map_leaf_direct(pa, fl)
      PROVE  EntryInv'
  <2>1. fl \in FlagTypes /\ HoldsLeaf(lvl)
    BY <1>3, LeafFlagsTyped DEF map_leaf_direct
  <2>2. HoldsAsked(new_leaf(pa, fl, lvl), lvl, Asked("leaf", pa, fl))
    BY <1>1, <2>1, LeafWritten DEF Asked
  <2>. QED  BY <1>1, <1>3, <2>2, Written DEF map_leaf_direct
<1>4. ASSUME NEW pa \in Bases, NEW fl \in LeafFlags, remap_no_flush(pa, fl)
      PROVE  EntryInv'
  <2>1. fl \in FlagTypes /\ HoldsLeaf(lvl)
    BY <1>4, LeafFlagsTyped, LeafAsked DEF remap_no_flush
  <2>2. HoldsAsked(new_leaf(pa, fl, lvl), lvl, Asked("leaf", pa, fl))
    BY <1>1, <2>1, LeafWritten DEF Asked
  <2>. QED  BY <1>1, <1>4, <2>2, Written DEF remap_no_flush
<1>5. ASSUME NEW pa \in Bases, NEW fl \in LeafFlags, merge_over(pa, fl)
      PROVE  EntryInv'
  <2>1. fl \in FlagTypes /\ HoldsLeaf(lvl)
    BY <1>5, LeafFlagsTyped DEF merge_over
  <2>2. flags(new_leaf(pa, fl, lvl - 1)) = Kept(fl)
    BY <1>1, <2>1, FlagsRead
  <2>3. Kept(fl) \in FlagTypes /\ Kept(Kept(fl)) = Kept(fl)
    BY <1>1, <2>1, KeptTwice
  <2>4. HoldsAsked(new_leaf(pa, Kept(fl), lvl), lvl, Asked("leaf", pa, fl))
    BY <1>1, <2>1, <2>3, LeafWritten DEF Asked
  <2>. QED  BY <1>1, <1>5, <2>2, <2>4, Written DEF merge_over
<1>6. ASSUME NEW fl \in LeafFlags, protect_no_flush(fl)
      PROVE  EntryInv'
  <2>1. fl \in FlagTypes /\ HoldsLeaf(lvl) /\ pte.pa = want.pa
    BY <1>6, LeafFlagsTyped, LeafAsked DEF protect_no_flush
  <2>2. HoldsAsked(new_leaf(pte.pa, fl, lvl), lvl, Asked("leaf", want.pa, fl))
    BY <1>1, <2>1, LeafWritten DEF Asked
  <2>. QED  BY <1>1, <1>6, <2>2, Written DEF protect_no_flush
<1>7. ASSUME NEW fl \in LeafFlags, AdoptHighPat(fl)
      PROVE  EntryInv'
  <2>1. fl \in FlagTypes /\ Arch = "x86_64" /\ fl.cache # "WriteCombine" /\ lvl = 1
    BY <1>7, LeafFlagsTyped DEF AdoptHighPat
  <2>2. Says(HighPat(new_leaf(0, fl, 1)), 1, 0, fl)
    BY <1>1, <2>1, HighPatSays
  <2>3. HoldsLeaf(1)
    BY <1>1, <2>1, SmallestLeaf
  <2>4. HoldsAsked(HighPat(new_leaf(0, fl, 1)), 1, Asked("leaf", 0, fl))
    BY <2>1, <2>2, <2>3 DEF HoldsAsked, Asked
  <2>5. Write(1, HighPat(new_leaf(0, fl, 1)), Asked("leaf", 0, fl))
    BY <1>7 DEF AdoptHighPat, HighPat
  <2>. QED  BY <2>4, <2>5, Written
<1>8. ASSUME NEW pa \in Bases, link_table(pa)
      PROVE  EntryInv'
  <2>1. HoldsAsked(new_table(pa), lvl, Asked("table", pa, Plain))
    BY <1>8 DEF HoldsAsked, Asked, link_table
  <2>. QED  BY <1>1, <1>8, <2>1, Written DEF link_table
<1>9. ASSUME NEW i \in 0..Fanout-1, split_at(i)
      PROVE  EntryInv'
  <2>. DEFINE pa == want.pa + i * LeafPages(lvl - 1)
              w == Asked("leaf", pa, want.fl)
  <2>1. HoldsLeaf(lvl - 1) /\ lvl - 1 \in Nat /\ IsLeaf
    BY <1>1, <1>9 DEF split_at
  <2>2. /\ pte.pa = want.pa /\ want.fl \in FlagTypes
        /\ flags(pte) \in FlagTypes /\ Kept(flags(pte)) = Kept(want.fl)
    BY <2>1, LeafAsked
  <2>3. Write(lvl - 1, new_leaf(pa, flags(pte), lvl - 1), w)
    BY <1>9, <2>2 DEF split_at
  <2>. HIDE DEF pa
  <2>4. w = Asked("leaf", pa, w.fl) /\ w.fl = want.fl
    BY DEF Asked
  <2>5. HoldsAsked(new_leaf(pa, flags(pte), lvl - 1), lvl - 1, w)
    BY <1>1, <2>1, <2>2, <2>4, LeafWritten
  <2>. QED  BY <2>1, <2>3, <2>5, Written
<1>10. ASSUME merge_at
       PROVE  EntryInv'
  <2>1. HoldsLeaf(lvl + 1) /\ lvl + 1 \in Nat
    BY <1>1, <1>10 DEF merge_at
  <2>2. /\ want = Asked("leaf", pte.pa, want.fl) /\ want.fl \in FlagTypes
        /\ flags(pte) \in FlagTypes /\ Kept(flags(pte)) = Kept(want.fl)
    BY <1>10, LeafAsked DEF merge_at
  <2>3. HoldsAsked(new_leaf(pte.pa, flags(pte), lvl + 1), lvl + 1, want)
    BY <1>1, <2>1, <2>2, LeafWritten
  <2>. QED  BY <1>10, <2>1, <2>3, Written DEF merge_at
<1>11. ASSUME unmap_no_flush
       PROVE  EntryInv'
  <2>1. HoldsAsked(Cleared, lvl, Vacant)
    BY DEF HoldsAsked
  <2>. QED  BY <1>1, <1>11, <2>1, Written DEF unmap_no_flush
<1>12. ASSUME UNCHANGED evars
       PROVE  EntryInv'
  <2>1. HoldsAsked(pte, lvl, want)' = HoldsAsked(pte, lvl, want)
    BY <1>12, SameFormat DEF evars
  <2>. QED  BY <1>12, <2>1 DEF EntryInv, evars, Formats
<1>. QED
  BY <1>3, <1>4, <1>5, <1>6, <1>7, <1>8, <1>9, <1>10, <1>11, <1>12 DEF EntryNext

\* The CPU's steps write no entry.
LEMMA StepWrites == [Next]_avars => [EntryNext]_evars
<1>1. Next => EntryNext \/ UNCHANGED evars
  BY DEF Next
<1>2. UNCHANGED avars => UNCHANGED evars
  BY DEF avars
<1>. QED  BY <1>1, <1>2

\* So it is always what was asked.
LEMMA EntryInvHolds == Spec => []EntryInv
<1>1. Init => EntryInv
  BY EntryInitInv DEF Init
<1>2. EntryInv /\ [Next]_avars => EntryInv'
  BY StepWrites, EntryStep
<1>. QED  BY <1>1, <1>2, PTL DEF Spec

\* However an entry came to be, whatever the format, the flags, the addresses and the
\* order of maps, splits, merges, protections and remaps, entry_kind, paddr and flags
\* read in it what was last asked for.
THEOREM EntriesReadBack == Spec => []ReadsBack
BY EntryInvHolds, InvReads, PTL

\* And the hardware makes the same of it: no leaf is walked as a table or trapped as
\* reserved, none grants other rights or gets another memory type than the asked one.
THEOREM EntriesAgreed == Spec => []HardwareAgrees
BY EntryInvHolds, InvReads, PTL

-------------------------------------------------------------------------------
(* Powers. *)

\* A set of numbers has a least one.
LEMMA LeastNumber ==
  ASSUME NEW T \in SUBSET Nat, NEW x \in T
  PROVE  \E y \in T : \A z \in T : y <= z
<1>1. IsWellFoundedOn(OpToRel(<, Nat), Nat)
  BY NatLessThanWellFounded
<1>2. PICK y \in T : \A z \in T : ~(<<z, y>> \in OpToRel(<, Nat))
  BY <1>1, WFMin
<1>3. \A z \in T : ~(z < y)
  BY <1>2 DEF OpToRel
<1>. QED  BY <1>3

\* The powers up to the n-th, when the one before the k-th is p[k-1].
Powers(p, base, n) == [k \in 0..n |-> IF k = 0 THEN 1 ELSE base * p[k-1]]

\* Power is defined by recursion: the powers exist.
LEMMA PowersExist ==
  ASSUME NEW base, NEW max \in Nat
  PROVE  \E p : p = Powers(p, base, max)
<1>. DEFINE T == {n \in 0..max : ~\E p : p = Powers(p, base, n)}
<1>. SUFFICES ASSUME max \in T PROVE FALSE
  OBVIOUS
<1>1. PICK n \in T : \A k \in T : n <= k
  <2>1. T \in SUBSET Nat
    OBVIOUS
  <2>. HIDE DEF T
  <2>. QED  BY <2>1, LeastNumber
<1>2. n \in 0..max /\ ~\E p : p = Powers(p, base, n)
  BY <1>1
<1>3. CASE n = 0
  <2>. DEFINE p == [k \in 0..0 |-> 1]
  <2>1. p = Powers(p, base, 0)
    BY DEF Powers
  <2>. QED  BY <1>2, <1>3, <2>1
<1>4. CASE n # 0
  <2>1. n - 1 \in 0..max /\ n - 1 \notin T
    BY <1>1, <1>2, <1>4
  <2>2. PICK p : p = Powers(p, base, n - 1)
    BY <2>1
  <2>. DEFINE q == [k \in 0..n |-> IF k = n THEN base * p[n-1] ELSE p[k]]
  <2>3. ASSUME NEW k \in 0..n
        PROVE  q[k] = Powers(q, base, n)[k]
    <3>1. CASE k = n
      <4>1. q[n-1] = p[n-1] /\ q[k] = base * p[n-1]
        BY <1>2, <1>4, <3>1
      <4>. HIDE DEF q
      <4>. QED  BY <1>4, <3>1, <4>1 DEF Powers
    <3>2. CASE k # n
      <4>1. k \in 0..n-1 /\ q[k] = p[k] /\ (k # 0 => q[k-1] = p[k-1])
        BY <1>2, <3>2
      <4>2. p[k] = Powers(p, base, n - 1)[k]
        BY <2>2
      <4>. HIDE DEF q
      <4>. QED  BY <4>1, <4>2 DEF Powers
    <3>. QED  BY <3>1, <3>2
  <2>4. q = Powers(q, base, n)
    <3>1. Powers(q, base, n) = [k \in 0..n |-> Powers(q, base, n)[k]]
      BY DEF Powers
    <3>2. q = [k \in 0..n |-> q[k]]
      OBVIOUS
    <3>. HIDE DEF q
    <3>. QED  BY <2>3, <3>1, <3>2
  <2>. QED  BY <1>2, <2>4
<1>. QED  BY <1>3, <1>4

\* Power is the last of them.
LEMMA PowerIsLast ==
  ASSUME NEW base, NEW n \in Nat
  PROVE  \E p : p = Powers(p, base, n) /\ Power(base, n) = p[n]
<1>. DEFINE q == CHOOSE p : p = [k \in 0..n |-> IF k = 0 THEN 1 ELSE base * p[k-1]]
<1>1. q = Powers(q, base, n)
  <2>1. PICK p : p = Powers(p, base, n)
    BY PowersExist
  <2>. QED  BY Zenon, <2>1 DEF Powers
<1>2. Power(base, n) = q[n]
  BY Zenon DEF Power
<1>. QED  BY <1>1, <1>2

\* Each step of the recursion says the same, wherever it ends.
LEMMA PowersSay ==
  ASSUME NEW base, NEW n \in Nat, NEW p, p = Powers(p, base, n)
  PROVE  p[0] = 1 /\ \A k \in 1..n : p[k] = base * p[k-1]
<1>1. \A k \in 0..n : p[k] = Powers(p, base, n)[k]
  OBVIOUS
<1>2. \A k \in 0..n : Powers(p, base, n)[k] = IF k = 0 THEN 1 ELSE base * p[k-1]
  BY Zenon DEF Powers
<1>3. \A k \in 0..n : p[k] = IF k = 0 THEN 1 ELSE base * p[k-1]
  BY <1>1, <1>2
<1>. QED  BY <1>3

\* The function of the powers up to n + 1 gives those up to n.
LEMMA PowersAgree ==
  ASSUME NEW base, NEW n \in Nat, NEW p, p = Powers(p, base, n), NEW q, q = Powers(q, base, n + 1)
  PROVE  p[n] = q[n]
<1>. DEFINE T == {k \in 0..n : p[k] # q[k]}
<1>0. /\ p[0] = 1 /\ \A k \in 1..n : p[k] = base * p[k-1]
      /\ q[0] = 1 /\ \A k \in 1..n+1 : q[k] = base * q[k-1]
  <2>1. n + 1 \in Nat
    OBVIOUS
  <2>. QED  BY <2>1, PowersSay
<1>. SUFFICES ASSUME n \in T PROVE FALSE
  OBVIOUS
<1>1. PICK k \in T : \A j \in T : k <= j
  <2>1. T \in SUBSET Nat
    OBVIOUS
  <2>. HIDE DEF T
  <2>. QED  BY <2>1, LeastNumber
<1>2. k \in 1..n /\ k - 1 \in 0..n /\ k - 1 \notin T /\ p[k] # q[k]
  BY <1>0, <1>1
<1>3. p[k-1] = q[k-1]
  BY <1>2
<1>. QED  BY <1>0, <1>2, <1>3

\* The recursion of Power.
LEMMA PowerSteps ==
  ASSUME NEW base, NEW n \in Nat
  PROVE  Power(base, 0) = 1 /\ Power(base, n + 1) = base * Power(base, n)
<1>1. Power(base, 0) = 1
  <2>1. PICK p : p = Powers(p, base, 0) /\ Power(base, 0) = p[0]
    BY PowerIsLast
  <2>. QED  BY <2>1, PowersSay
<1>2. PICK p : p = Powers(p, base, n) /\ Power(base, n) = p[n]
  BY PowerIsLast
<1>3. n + 1 \in Nat
  OBVIOUS
<1>4. PICK q : q = Powers(q, base, n + 1) /\ Power(base, n + 1) = q[n + 1]
  BY <1>3, PowerIsLast
<1>5. q[n + 1] = base * q[n]
  <2>1. \A k \in 1..n+1 : q[k] = base * q[k-1]
    BY <1>3, <1>4, PowersSay
  <2>2. n + 1 \in 1..n+1 /\ (n + 1) - 1 = n
    OBVIOUS
  <2>. QED  BY <2>1, <2>2
<1>. QED  BY <1>1, <1>2, <1>4, <1>5, PowersAgree

\* A power of a number is a number, and at least 1.
LEMMA PowerType ==
  ASSUME NEW base \in Nat \ {0}, NEW n \in Nat
  PROVE  Power(base, n) \in Nat \ {0}
<1>. DEFINE T == {k \in Nat : Power(base, k) \notin Nat \ {0}}
<1>. SUFFICES ASSUME n \in T PROVE FALSE
  OBVIOUS
<1>1. PICK k \in T : \A j \in T : k <= j
  <2>1. T \in SUBSET Nat
    OBVIOUS
  <2>. HIDE DEF T
  <2>. QED  BY <2>1, LeastNumber
<1>2. k \in Nat /\ Power(base, k) \notin Nat \ {0}
  BY <1>1
<1>3. k # 0
  BY <1>2, PowerSteps
<1>4. k - 1 \in Nat /\ k - 1 \notin T /\ (k - 1) + 1 = k
  BY <1>1, <1>2, <1>3
<1>5. Power(base, k - 1) \in Nat \ {0}
  BY <1>4
<1>6. Power(base, k) = base * Power(base, k - 1)
  <2>1. Power(base, (k - 1) + 1) = base * Power(base, k - 1)
    BY <1>4, PowerSteps
  <2>. QED  BY <1>4, <2>1
<1>. DEFINE x == Power(base, k - 1)
<1>7. x \in Nat \ {0}
  BY <1>5
<1>. HIDE DEF x, T
<1>8. base * x \in Nat \ {0}
  BY <1>7
<1>. QED  BY <1>2, <1>6, <1>8 DEF x

\* Shifts add up.
LEMMA PowerSum ==
  ASSUME NEW base \in Nat \ {0}, NEW m \in Nat, NEW n \in Nat
  PROVE  Power(base, m + n) = Power(base, m) * Power(base, n)
<1>. DEFINE T == {k \in Nat : Power(base, m + k) # Power(base, m) * Power(base, k)}
<1>. SUFFICES ASSUME n \in T PROVE FALSE
  OBVIOUS
<1>1. PICK k \in T : \A j \in T : k <= j
  <2>1. T \in SUBSET Nat
    OBVIOUS
  <2>. HIDE DEF T
  <2>. QED  BY <2>1, LeastNumber
<1>2. k \in Nat /\ Power(base, m + k) # Power(base, m) * Power(base, k)
  BY <1>1
<1>. DEFINE a == Power(base, m)
<1>0. a \in Nat
  BY PowerType
<1>3. k # 0
  <2>1. m + 0 = m /\ Power(base, 0) = 1
    BY PowerSteps
  <2>. HIDE DEF T
  <2>2. a * 1 = a
    BY <1>0
  <2>. QED  BY <1>2, <2>1, <2>2
<1>4. k - 1 \in Nat /\ k - 1 \notin T
  BY <1>1, <1>2, <1>3
<1>. DEFINE b == Power(base, k - 1)
            c == Power(base, m + (k - 1))
<1>5. c = a * b
  BY <1>4
<1>6. Power(base, k) = base * b
  <2>1. Power(base, (k - 1) + 1) = base * Power(base, k - 1)
    BY <1>4, PowerSteps
  <2>2. (k - 1) + 1 = k
    BY <1>2
  <2>. QED  BY <2>1, <2>2
<1>7. Power(base, m + k) = base * c
  <2>1. m + (k - 1) \in Nat /\ (m + (k - 1)) + 1 = m + k
    BY <1>4
  <2>2. Power(base, (m + (k - 1)) + 1) = base * c
    BY <2>1, PowerSteps
  <2>. QED  BY <2>1, <2>2
<1>8. b \in Nat
  BY <1>4, PowerType
<1>. HIDE DEF a, b, c, T
<1>9. base * (a * b) = a * (base * b)
  BY <1>0, <1>8
<1>10. Power(base, m) = a
  BY DEF a
<1>. QED  BY <1>2, <1>5, <1>6, <1>7, <1>9, <1>10

-------------------------------------------------------------------------------
(* The geometry of the formats. *)

\* An address is its sign and upper bits, and below them its indices and offset: the
\* bits above the address are determined by its top bit.
LEMMA UpperBits ==
  ASSUME NEW h \in Nat, h > 0, NEW u \in Nat, NEW path \in 0..2*h-1
  PROVE  /\ (u * (2 * h) + path) \div (2 * h) = u
         /\ (u * (2 * h) + path) % (2 * h) = path
         /\ ((u * (2 * h) + path) \div h) % 2 = 1 <=> path >= h
<1>. DEFINE s == 2 * h
            v == u * s + path
<1>1. s \in Int /\ s > 0 /\ path \in 0..s-1
  OBVIOUS
<1>2. v \div s = u /\ v % s = path
  <2>. HIDE DEF s
  <2>. QED  BY <1>1
<1>3. CASE path >= h
  <2>. DEFINE r == path - h
  <2>1. r \in 0..h-1 /\ v = h * (2 * u + 1) + r
    BY <1>3
  <2>2. 2 * u + 1 \in Int /\ (2 * u + 1) % 2 = 1
    OBVIOUS
  <2>3. (h * (2 * u + 1) + r) \div h = 2 * u + 1
    <3>. DEFINE q == 2 * u + 1
    <3>. HIDE DEF q, r
    <3>. QED  BY <2>1, <2>2 DEF q
  <2>. HIDE DEF v, r
  <2>4. (v \div h) % 2 = 1
    BY <2>1, <2>2, <2>3
  <2>. QED  BY <1>2, <1>3, <2>4 DEF v, s
<1>4. CASE path < h
  <2>1. path \in 0..h-1 /\ v = h * (2 * u) + path
    BY <1>4
  <2>2. 2 * u \in Int /\ (2 * u) % 2 = 0
    OBVIOUS
  <2>3. (h * (2 * u) + path) \div h = 2 * u
    <3>. DEFINE q == 2 * u
    <3>. HIDE DEF q
    <3>. QED  BY <2>1, <2>2 DEF q
  <2>. HIDE DEF v
  <2>4. (v \div h) % 2 = 0
    BY <2>1, <2>2, <2>3
  <2>. QED  BY <1>2, <1>4, <2>4 DEF v, s
<1>. QED  BY <1>3, <1>4

\* Every pattern of indices and offset below the word's width has one canonical
\* address: the one whose upper bits are the sign.
LEMMA OneAddress == PathsHaveOneAddress
<1>. SUFFICES ASSUME NEW width \in 1..WordBits, NEW path \in 0..Power(2, width)-1
              PROVE  \E v \in 0..Power(2, WordBits)-1 :
                       /\ v % Power(2, width) = path /\ canonical_vaddr_is_valid(v, width)
                       /\ \A w \in 0..Power(2, WordBits)-1 :
                            w % Power(2, width) = path /\ canonical_vaddr_is_valid(w, width) => w = v
  BY DEF PathsHaveOneAddress
<1>. DEFINE h == Power(2, width - 1)
            s == Power(2, width)
            t == Power(2, WordBits - width)
<1>1. width - 1 \in Nat /\ WordBits - width \in Nat /\ WordBits \in Nat /\ width \in Nat
  BY SizeAssumption
<1>2. h \in Nat /\ h > 0 /\ t \in Nat /\ t > 0
  <2>1. h \in Nat \ {0} /\ t \in Nat \ {0}
    BY <1>1, PowerType
  <2>. HIDE DEF h, t
  <2>. QED  BY <2>1
<1>3. s = 2 * h
  <2>1. Power(2, (width - 1) + 1) = 2 * Power(2, width - 1) /\ (width - 1) + 1 = width
    BY <1>1, PowerSteps
  <2>. QED  BY <2>1
<1>4. Power(2, WordBits) = s * t
  <2>1. Power(2, width + (WordBits - width)) = s * t /\ width + (WordBits - width) = WordBits
    BY <1>1, PowerSum
  <2>. QED  BY <2>1
<1>. DEFINE sign == IF path >= h THEN t - 1 ELSE 0
            v == sign * s + path
<1>5. path \in 0..s-1
  OBVIOUS
<1>6. \A w \in Int : canonical_vaddr_is_valid(w, width) <=>
        width = WordBits \/ w \div s = IF (w \div h) % 2 = 1 THEN t - 1 ELSE 0
  BY <1>1 DEF canonical_vaddr_is_valid
<1>. HIDE DEF h, s, t
<1>7. sign \in Nat /\ sign <= t - 1 /\ (width = WordBits => t = 1)
  <2>1. ASSUME width = WordBits
        PROVE  t = 1
    <3>1. WordBits - width = 0
      BY <1>1, <2>1
    <3>. QED  BY <3>1, PowerSteps DEF t
  <2>. QED  BY <1>2, <1>5, <2>1
<1>8. v \in 0..s*t-1
  <2>1. sign * s <= (t - 1) * s
    <3>. HIDE DEF sign
    <3>. QED  BY <1>2, <1>3, <1>7
  <2>2. (t - 1) * s = s * t - s /\ sign * s \in Nat
    <3>. HIDE DEF sign
    <3>. QED  BY <1>2, <1>3, <1>7
  <2>. DEFINE x == sign * s
              y == s * t
  <2>3. x <= y - s /\ x \in Nat /\ y \in Int /\ s \in Nat
    BY <1>2, <1>3, <2>1, <2>2
  <2>. HIDE DEF x, y, sign
  <2>4. x + path \in 0..y-1
    BY <1>5, <2>3
  <2>. QED  BY <2>4 DEF x, y
<1>9. v \div s = sign /\ v % s = path /\ ((v \div h) % 2 = 1 <=> path >= h)
  <2>. HIDE DEF sign
  <2>. QED  BY <1>2, <1>3, <1>5, <1>7, UpperBits
<1>10. canonical_vaddr_is_valid(v, width)
  <2>1. v \in Int
    BY <1>2, <1>3, <1>5, <1>7
  <2>2. v \div s = IF (v \div h) % 2 = 1 THEN t - 1 ELSE 0
    BY <1>9
  <2>. QED  BY <1>6, <2>1, <2>2
<1>11. ASSUME NEW w \in 0..s*t-1, w % s = path, canonical_vaddr_is_valid(w, width)
       PROVE  w = v
  <2>. DEFINE u == w \div s
  <2>1. s \in Nat /\ s > 0 /\ s * t \in Int
    BY <1>2, <1>3
  <2>2. w \in Int /\ w >= 0 /\ w < s * t
    <3>. DEFINE y == s * t
    <3>1. y \in Int /\ w \in 0..y-1
      BY <2>1
    <3>. HIDE DEF y
    <3>2. w \in Int /\ w >= 0 /\ w < y
      BY <3>1
    <3>. QED  BY <3>2 DEF y
  <2>3. u \in Int /\ w = s * u + path
    BY <1>11, <2>1, <2>2
  <2>. HIDE DEF u
  <2>4. u >= 0
    <3>. SUFFICES ASSUME u <= -1 PROVE FALSE
      BY <2>3
    <3>1. s * u <= s * (-1)
      BY <2>1, <2>3
    <3>. QED  BY <1>5, <2>1, <2>2, <2>3, <3>1
  <2>5. u <= t - 1
    <3>. SUFFICES ASSUME t <= u PROVE FALSE
      BY <1>2, <2>3
    <3>1. s * t <= s * u
      BY <1>2, <2>1, <2>3
    <3>. DEFINE x == s * t
                y == s * u
    <3>2. x <= y /\ w < x /\ w = y + path /\ x \in Int /\ y \in Int /\ path \in Nat
      BY <1>3, <1>2, <2>1, <2>2, <2>3, <3>1
    <3>. HIDE DEF x, y
    <3>. QED  BY <3>2
  <2>6. w = u * (2 * h) + path /\ u \in Nat
    BY <1>2, <1>3, <2>3, <2>4
  <2>7. w \div s = u /\ ((w \div h) % 2 = 1 <=> path >= h)
    BY <1>2, <1>3, <1>5, <2>6, UpperBits
  <2>8. u = sign
    <3>1. CASE width = WordBits
      <4>1. t = 1
        BY <1>7, <3>1
      <4>. QED  BY <1>7, <2>4, <2>5, <2>3, <4>1
    <3>2. CASE width # WordBits
      BY <1>6, <1>11, <2>2, <2>7, <3>2
    <3>. QED  BY <3>1, <3>2
  <2>. HIDE DEF sign
  <2>. QED  BY <1>2, <1>3, <1>7, <2>3, <2>8
<1>. QED  BY <1>4, <1>8, <1>9, <1>10, <1>11 DEF s

\* The formats' numbers.
FormatNumbers(g) ==
  /\ g.LEVELS \in 3..5 /\ g.BASE \in Nat /\ g.INDEX_BITS \in Nat /\ g.root \in Nat
  /\ g.INDEX_BITS + 3 = g.BASE /\ g.root <= g.INDEX_BITS
  /\ g.BASE + (g.LEVELS - 1) * g.INDEX_BITS + g.root = g.VA_MAX_BITS
  /\ \/ g.BASE = 12 /\ g.INDEX_BITS = 9 /\ g.leaves = <<12, 21, 30>>
     \/ g.BASE = 12 /\ g.INDEX_BITS = 9 /\ g.leaves = <<12, 21, 30, 39>> /\ g.LEVELS >= 4
     \/ g.BASE = 14 /\ g.INDEX_BITS = 11 /\ g.leaves = <<14, 25, 36>>
     \/ g.BASE = 16 /\ g.INDEX_BITS = 13 /\ g.leaves = <<16, 29, 42>>

\* All eleven formats meet FormatNumbers.
LEMMA NumbersOf ==
  ASSUME fmt \in Formats
  PROVE  FormatNumbers(Meta(fmt.meta))
<1>. DEFINE g == Meta(fmt.meta)
<1>1. fmt.meta \in X86Metas \cup Rv64Metas \cup A64Metas
  BY Archs
<1>2. g \in {X86Meta48, X86Meta57, Rv64Meta39, Rv64Meta48, Rv64Meta57,
           A64Meta4K48, A64Meta4K52, A64Meta16K48, A64Meta16K52, A64Meta64K48, A64Meta64K52}
  <2>1. CASE fmt.meta \in X86Metas
    BY <2>1 DEF Meta, X86Metas
  <2>2. CASE fmt.meta \in Rv64Metas
    BY <2>2 DEF Meta, Rv64Metas
  <2>3. CASE fmt.meta \in A64Metas
    BY <2>3 DEF Meta, A64Metas
  <2>. QED  BY <1>1, <2>1, <2>2, <2>3
<1>. HIDE DEF g
<1>. SUFFICES FormatNumbers(g)
  BY DEF g
<1>3. CASE g = X86Meta48
  <2>1. /\ g.LEVELS = 4 /\ g.BASE = 12 /\ g.INDEX_BITS = 9 /\ g.root = 9
        /\ g.leaves = <<12, 21, 30>> /\ g.VA_MAX_BITS = 48
    BY <1>3 DEF X86Meta48, Geometry
  <2>. QED  BY <2>1 DEF FormatNumbers
<1>4. CASE g = X86Meta57
  <2>1. /\ g.LEVELS = 5 /\ g.BASE = 12 /\ g.INDEX_BITS = 9 /\ g.root = 9
        /\ g.leaves = <<12, 21, 30>> /\ g.VA_MAX_BITS = 57
    BY <1>4 DEF X86Meta57, Geometry
  <2>. QED  BY <2>1 DEF FormatNumbers
<1>5. CASE g = Rv64Meta39
  <2>1. /\ g.LEVELS = 3 /\ g.BASE = 12 /\ g.INDEX_BITS = 9 /\ g.root = 9
        /\ g.leaves = <<12, 21, 30>> /\ g.VA_MAX_BITS = 39
    BY <1>5 DEF Rv64Meta39, Geometry
  <2>. QED  BY <2>1 DEF FormatNumbers
<1>6. CASE g = Rv64Meta48
  <2>1. /\ g.LEVELS = 4 /\ g.BASE = 12 /\ g.INDEX_BITS = 9 /\ g.root = 9
        /\ g.leaves = <<12, 21, 30, 39>> /\ g.VA_MAX_BITS = 48
    BY <1>6 DEF Rv64Meta48, Geometry
  <2>. QED  BY <2>1 DEF FormatNumbers
<1>7. CASE g = Rv64Meta57
  <2>1. /\ g.LEVELS = 5 /\ g.BASE = 12 /\ g.INDEX_BITS = 9 /\ g.root = 9
        /\ g.leaves = <<12, 21, 30, 39>> /\ g.VA_MAX_BITS = 57
    BY <1>7 DEF Rv64Meta57, Geometry
  <2>. QED  BY <2>1 DEF FormatNumbers
<1>8. CASE g = A64Meta4K48
  <2>1. /\ g.LEVELS = 4 /\ g.BASE = 12 /\ g.INDEX_BITS = 9 /\ g.root = 9
        /\ g.leaves = <<12, 21, 30>> /\ g.VA_MAX_BITS = 48
    BY <1>8 DEF A64Meta4K48, Geometry
  <2>. QED  BY <2>1 DEF FormatNumbers
<1>9. CASE g = A64Meta4K52
  <2>1. /\ g.LEVELS = 5 /\ g.BASE = 12 /\ g.INDEX_BITS = 9 /\ g.root = 4
        /\ g.leaves = <<12, 21, 30>> /\ g.VA_MAX_BITS = 52
    BY <1>9 DEF A64Meta4K52, Geometry
  <2>. QED  BY <2>1 DEF FormatNumbers
<1>10. CASE g = A64Meta16K48
  <2>1. /\ g.LEVELS = 4 /\ g.BASE = 14 /\ g.INDEX_BITS = 11 /\ g.root = 1
        /\ g.leaves = <<14, 25, 36>> /\ g.VA_MAX_BITS = 48
    BY <1>10 DEF A64Meta16K48, Geometry
  <2>. QED  BY <2>1 DEF FormatNumbers
<1>11. CASE g = A64Meta16K52
  <2>1. /\ g.LEVELS = 4 /\ g.BASE = 14 /\ g.INDEX_BITS = 11 /\ g.root = 5
        /\ g.leaves = <<14, 25, 36>> /\ g.VA_MAX_BITS = 52
    BY <1>11 DEF A64Meta16K52, Geometry
  <2>. QED  BY <2>1 DEF FormatNumbers
<1>12. CASE g = A64Meta64K48
  <2>1. /\ g.LEVELS = 3 /\ g.BASE = 16 /\ g.INDEX_BITS = 13 /\ g.root = 6
        /\ g.leaves = <<16, 29, 42>> /\ g.VA_MAX_BITS = 48
    BY <1>12 DEF A64Meta64K48, Geometry
  <2>. QED  BY <2>1 DEF FormatNumbers
<1>13. CASE g = A64Meta64K52
  <2>1. /\ g.LEVELS = 3 /\ g.BASE = 16 /\ g.INDEX_BITS = 13 /\ g.root = 10
        /\ g.leaves = <<16, 29, 42>> /\ g.VA_MAX_BITS = 52
    BY <1>13 DEF A64Meta64K52, Geometry
  <2>. QED  BY <2>1 DEF FormatNumbers
<1>. QED
  BY <1>2, <1>3, <1>4, <1>5, <1>6, <1>7, <1>8, <1>9, <1>10, <1>11, <1>12, <1>13

\* Per format: the indices tile the address, the leaf sizes are those of the levels,
\* a table fills a page.
LEMMA FormatGeometry ==
  ASSUME fmt \in Formats
  PROVE  LevelsTile(fmt.meta) /\ LeavesMatchLevels(fmt.meta) /\ TablesFit(fmt.meta)
<1>. DEFINE m == fmt.meta
            g == Meta(m)
<1>2. FormatNumbers(g)
  BY NumbersOf
<1>. HIDE DEF g
<1>3. LevelsTile(m)
  <2>. DEFINE b == g.BASE
              k == g.INDEX_BITS
              top == g.LEVELS
  <2>1. \A l : level_shift(m, l) = b + (l - 1) * k
    BY DEF level_shift, g
  <2>2. \A l : level_index_bits(m, l) = IF l = top THEN g.root ELSE k
    BY DEF level_index_bits, g
  <2>3. b \in Nat /\ k \in Nat /\ top \in 3..5 /\ b + (top - 1) * k + g.root = g.VA_MAX_BITS
    BY <1>2 DEF FormatNumbers
  <2>. HIDE DEF b, k, top
  <2>4. ASSUME NEW l \in 1..top-1
        PROVE  level_shift(m, l + 1) = level_shift(m, l) + level_index_bits(m, l)
    <3>1. l # top /\ l \in Int /\ b + ((l + 1) - 1) * k = (b + (l - 1) * k) + k
      BY <2>3
    <3>. QED  BY <2>1, <2>2, <3>1
  <2>5. top \in 1..MAX_LEVELS
    BY <2>3, SizeAssumption
  <2>. QED  BY <2>1, <2>2, <2>3, <2>4, <2>5 DEF LevelsTile, g, top
<1>4. LeavesMatchLevels(m)
  <2>. SUFFICES ASSUME NEW l \in 1..g.LEVELS, NEW size \in PageSizes, l \in DOMAIN g.leaves, g.leaves[l] = size
                PROVE  size = level_shift(m, l) /\ size = leaf_size_at_level(m, l)
    BY DEF LeavesMatchLevels, level_supports_leaf, g
  <2>1. level_shift(m, l) = g.BASE + (l - 1) * g.INDEX_BITS
    BY DEF level_shift, g
  <2>2. size = g.BASE + (l - 1) * g.INDEX_BITS
    <3>1. CASE g.BASE = 12 /\ g.INDEX_BITS = 9 /\ g.leaves = <<12, 21, 30>>
      BY <3>1
    <3>2. CASE g.BASE = 12 /\ g.INDEX_BITS = 9 /\ g.leaves = <<12, 21, 30, 39>>
      BY <3>2
    <3>3. CASE g.BASE = 14 /\ g.INDEX_BITS = 11 /\ g.leaves = <<14, 25, 36>>
      BY <3>3
    <3>4. CASE g.BASE = 16 /\ g.INDEX_BITS = 13 /\ g.leaves = <<16, 29, 42>>
      BY <3>4
    <3>. QED  BY <1>2, <3>1, <3>2, <3>3, <3>4 DEF FormatNumbers
  <2>. QED  BY <2>1, <2>2 DEF leaf_size_at_level
<1>5. TablesFit(m)
  BY <1>2 DEF FormatNumbers, TablesFit, level_index_bits, g
<1>. QED  BY <1>3, <1>4, <1>5

\* The geometry of every format is one the walker can index by, and in a word of any
\* width each pattern of indices has one canonical address.
THEOREM GeometryHolds == Spec => []GeometryExact
<1>1. EntryInv => GeometryExact
  BY FormatGeometry, OneAddress DEF EntryInv, GeometryExact
<1>. QED  BY <1>1, EntryInvHolds, PTL

-------------------------------------------------------------------------------
(* The calls. *)

\* The flag a call saved is the one it found: nothing writes it until the return.
SavedIsFound == call # NoCall => call.saved = call.found

\* A step begins a call and saves the interrupt flag it found, leaves the call alone, or
\* returns from it.
LEMMA CallSteps ==
  ASSUME Next
  PROVE  \/ call = NoCall /\ call'.saved = irq /\ call'.found = irq
         \/ UNCHANGED call
         \/ Return
<1>1. ASSUME NEW kind, NEW token, NEW program, Enter(kind, token, program)
      PROVE  call = NoCall /\ call'.saved = irq /\ call'.found = irq
  BY <1>1 DEF Enter, Idle
<1>2. CASE \E t \in Tokens : activate(t)
  BY <1>1, <1>2 DEF activate
<1>3. CASE \E w \in DirectWrites : write(w)
  BY <1>1, <1>3 DEF write
<1>4. CASE Reactivate
  BY <1>1, <1>4 DEF Reactivate, activate
<1>5. CASE \/ WriteRegister \/ install_x86_pat \/ install_a64_mair_el1 \/ MaskInterrupts
           \/ \E half \in CurrentTtbr : Observe(half)
           \/ \E root \in Roots : Interrupt(root)
           \/ \E t \in tlb : Invalidate(t.tag)
  BY <1>5 DEF WriteRegister, install_x86_pat, install_a64_mair_el1, MaskInterrupts, Observe,
              Interrupt, Invalidate
<1>6. CASE Boot \/ UNCHANGED cpuvars
  BY <1>6 DEF Boot, cpuvars
<1>. QED  BY <1>2, <1>3, <1>4, <1>5, <1>6 DEF Next, CpuNext

\* The interrupt flag that is saved is the one that was found.
LEMMA SavedIsFoundHolds == Spec => []SavedIsFound
<1>1. Init => SavedIsFound
  BY DEF Init, SavedIsFound
<1>2. SavedIsFound /\ [Next]_avars => SavedIsFound'
  <2>. SUFFICES ASSUME SavedIsFound, [Next]_avars PROVE SavedIsFound'
    OBVIOUS
  <2>1. CASE Next
    BY <2>1, CallSteps DEF SavedIsFound, Return, NoCall
  <2>2. CASE UNCHANGED avars
    BY <2>2 DEF SavedIsFound, avars, cpuvars
  <2>. QED  BY <2>1, <2>2
<1>. QED  BY <1>1, <1>2, PTL DEF Spec

\* Every call leaves interrupts as it found them, whatever it wrote and however it
\* was interleaved with the rest of the system.
THEOREM InterruptsRestored == Spec => InterruptsAsBefore
<1>1. SavedIsFound /\ [Next]_avars => [call # NoCall /\ call' = NoCall => irq' = call.found]_avars
  <2>. SUFFICES ASSUME SavedIsFound, Next, call # NoCall, call' = NoCall
                PROVE  irq' = call.found
    BY DEF avars
  <2>1. Return
    BY CallSteps
  <2>. QED  BY <2>1 DEF Return, irq_restored, SavedIsFound
<1>. QED  BY <1>1, SavedIsFoundHolds, PTL DEF Spec, InterruptsAsBefore

-------------------------------------------------------------------------------
(* The registers: a function on the names of the architecture. *)

RegNames ==
  CASE Arch = "x86_64" -> {"PAT", "CR0", "CR3", "CR4"}
    [] Arch = "aarch64" -> {"MAIR", "TCR", "SCTLR"} \cup Halves
    [] Arch = "riscv64" -> {"satp"}

HasRegs(r) == r = [n \in RegNames |-> r[n]]

\* The registers of every architecture have one of these names.
LEMMA Names ==
  ASSUME fmt \in Formats
  PROVE  RegNames \subseteq {"PAT", "CR0", "CR3", "CR4", "MAIR", "TCR", "SCTLR", "TTBR0", "TTBR1", "satp"}
BY Archs DEF RegNames, Halves

\* The registers after reset.
LEMMA PowerOnRegs ==
  ASSUME fmt \in Formats
  PROVE  HasRegs(PowerOn)
<1>1. DOMAIN PowerOn = RegNames
  BY Archs DEF PowerOn, RegNames, Halves
<1>2. PowerOn = [n \in DOMAIN PowerOn |-> PowerOn[n]]
  BY Archs DEF PowerOn
<1>. QED  BY <1>1, <1>2 DEF HasRegs

\* A CPU that has registers is on.
LEMMA RegsOn ==
  ASSUME fmt \in Formats, NEW r, HasRegs(r)
  PROVE  r # Off
<1>1. "off" \notin DOMAIN r
  BY Names DEF HasRegs
<1>2. "off" \in DOMAIN Off
  BY DEF Off
<1>. QED  BY <1>1, <1>2

\* A register write writes one register.
LEMMA OneRegister ==
  ASSUME HasRegs(reg), NEW w, w.reg \in RegNames \cup {"fence"}
  PROVE  HasRegs(RegAfter(w)) /\ \A n \in RegNames : n # w.reg => RegAfter(w)[n] = reg[n]
<1>1. CASE RegAfter(w) = reg
  BY <1>1
<1>2. ASSUME NEW v, RegAfter(w) = [reg EXCEPT ![w.reg] = v], w.reg \in RegNames
      PROVE  HasRegs(RegAfter(w)) /\ \A n \in RegNames : n # w.reg => RegAfter(w)[n] = reg[n]
  <2>. DEFINE s == RegAfter(w)
              name == w.reg
  <2>1. name \in RegNames /\ s = [reg EXCEPT ![name] = v]
    BY <1>2
  <2>. HIDE DEF s, name
  <2>2. DOMAIN reg = RegNames
    BY DEF HasRegs
  <2>3. DOMAIN s = RegNames /\ \A n \in RegNames : s[n] = IF n = name THEN v ELSE reg[n]
    BY <2>1, <2>2
  <2>4. s = [n \in DOMAIN s |-> s[n]]
    BY <2>1, <2>2
  <2>5. HasRegs(s) /\ \A n \in RegNames : n # name => s[n] = reg[n]
    BY <2>3, <2>4 DEF HasRegs
  <2>. QED  BY <2>5 DEF s, name
<1>3. CASE w.reg = "fence"
  BY <1>1, <1>3 DEF RegAfter, Halves
<1>4. CASE w.reg = "CR3"
  <2>. DEFINE v == [root |-> Encoded(w.value.root), low |-> w.value.low]
  <2>1. RegAfter(w) = [reg EXCEPT !.CR3 = v]
    BY <1>4 DEF RegAfter, Halves
  <2>. HIDE DEF v
  <2>2. RegAfter(w) = [reg EXCEPT ![w.reg] = v]
    BY <1>4, <2>1
  <2>. QED  BY <1>2, <1>4, <2>2
<1>5. CASE w.reg = "satp"
  <2>. DEFINE v == [w.value EXCEPT !.root = Encoded(@)]
  <2>1. CASE w.value.mode \in SupportedModes
    <3>1. RegAfter(w) = [reg EXCEPT ![w.reg] = v]
      BY <1>5, <2>1 DEF RegAfter
    <3>. HIDE DEF v
    <3>. QED  BY <1>2, <1>5, <3>1
  <2>2. CASE w.value.mode \notin SupportedModes
    <3>1. RegAfter(w) = reg
      BY <1>5, <2>2 DEF RegAfter, Halves
    <3>. QED  BY <1>1, <3>1
  <2>. QED  BY <2>1, <2>2
<1>6. CASE w.reg \in Halves
  <2>. DEFINE v == [w.value EXCEPT !.root = Encoded(@)]
  <2>1. RegAfter(w) = [reg EXCEPT ![w.reg] = v]
    BY <1>6 DEF RegAfter, Halves
  <2>. HIDE DEF v
  <2>. QED  BY <1>2, <1>6, <2>1 DEF Halves
<1>7. CASE w.reg \notin {"fence", "CR3", "satp"} \cup Halves
  BY <1>2, <1>7 DEF RegAfter
<1>. QED  BY <1>3, <1>4, <1>5, <1>6, <1>7

-------------------------------------------------------------------------------
(* The writes of an activation. *)

One(register, options) == {[reg |-> register, value |-> CHOOSE v \in options : TRUE] : x \in options}

\* All that an activation may write.
Writes(t) ==
  CASE Arch = "x86_64" ->
         One("CR4", t.cr4) \cup One("CR0", t.cr0) \cup
         {[reg |-> "CR3", value |-> [root |-> t.root, low |-> t.cr3.low, preserve |-> t.cr3.preserve]]}
    [] Arch = "aarch64" ->
         One("MAIR", t.mair) \cup One("TCR", t.tcr) \cup One("SCTLR", t.sctlr) \cup
         {[reg |-> t.ttbr, value |-> [root |-> t.root, asid |-> t.asid]]}
    [] Arch = "riscv64" ->
         {[reg |-> "satp", value |-> [mode |-> t.mode, asid |-> t.asid, root |-> t.root]],
          [reg |-> "fence"]}

\* The token can be loaded: the root fits its register, the register exists.
Fits(t) ==
  /\ install(t.root) = "ok"
  /\ Arch = "aarch64" => t.ttbr \in Halves
  /\ Arch = "riscv64" => t.mode \in SupportedModes

RegsOf(s) == {s[i].reg : i \in 1..Len(s)}

\* A token that is activated twice asks for no more than once.
LEMMA TargetTwice ==
  ASSUME fmt \in Formats, NEW t, NEW n \in RegNames, NEW x
  PROVE  Target(t, n, Target(t, n, x)) = Target(t, n, x)
<1>1. \A o : Override(o, Override(o, x)) = Override(o, x)
  BY DEF Override
<1>. QED  BY <1>1, Names DEF Target, Halves

\* The write of a control that is there gives its register the value of that control.
LEMMA OneWrite ==
  ASSUME NEW r, NEW options, NEW w \in One(r, options)
  PROVE  w.reg = r /\ \A x : w.value = Override(options, x)
<1>1. options # {} /\ w = [reg |-> r, value |-> CHOOSE v \in options : TRUE]
  BY DEF One
<1>. QED  BY <1>1 DEF Override

\* Each of its writes gives its register what the token asks.
LEMMA RightValue ==
  ASSUME fmt \in Formats, HasRegs(reg), NEW t, Fits(t), NEW w \in Writes(t), w.reg # "fence", NEW x
  PROVE  w.reg \in RegNames /\ RegAfter(w)[w.reg] = Target(t, w.reg, x)
<1>1. Encoded(t.root) = t.root
  BY DEF Encoded, Fits
<1>2. DOMAIN reg = RegNames
  BY DEF HasRegs
<1>3. ASSUME NEW options, NEW n, n \in RegNames, w \in One(n, options),
             n \in {"CR0", "CR4", "MAIR", "TCR", "SCTLR"}, Target(t, n, x) = Override(options, x)
      PROVE  w.reg \in RegNames /\ RegAfter(w)[w.reg] = Target(t, w.reg, x)
  <2>1. w.reg = n /\ w.value = Override(options, x)
    BY <1>3, OneWrite
  <2>2. RegAfter(w) = [reg EXCEPT ![w.reg] = w.value]
    BY <1>3, <2>1 DEF RegAfter, Halves
  <2>. QED  BY <1>2, <1>3, <2>1, <2>2
<1>4. CASE Arch = "x86_64"
  <2>1. RegNames = {"PAT", "CR0", "CR3", "CR4"}
    BY <1>4 DEF RegNames
  <2>2. CASE w \in One("CR4", t.cr4)
    BY <1>3, <2>1, <2>2 DEF Target, Halves
  <2>3. CASE w \in One("CR0", t.cr0)
    BY <1>3, <2>1, <2>3 DEF Target, Halves
  <2>4. CASE w = [reg |-> "CR3", value |-> [root |-> t.root, low |-> t.cr3.low, preserve |-> t.cr3.preserve]]
    <3>1. RegAfter(w) = [reg EXCEPT !.CR3 = [root |-> t.root, low |-> t.cr3.low]]
      BY <1>1, <2>4 DEF RegAfter, Halves
    <3>2. RegAfter(w)["CR3"] = [root |-> t.root, low |-> t.cr3.low]
      BY <1>2, <2>1, <3>1
    <3>. QED  BY <2>1, <2>4, <3>2 DEF Target, Halves
  <2>. QED  BY <1>4, <2>2, <2>3, <2>4 DEF Writes
<1>5. CASE Arch = "aarch64"
  <2>1. RegNames = {"MAIR", "TCR", "SCTLR"} \cup Halves
    BY <1>5 DEF RegNames
  <2>2. CASE w \in One("MAIR", t.mair)
    BY <1>3, <2>1, <2>2 DEF Target, Halves
  <2>3. CASE w \in One("TCR", t.tcr)
    BY <1>3, <2>1, <2>3 DEF Target, Halves
  <2>4. CASE w \in One("SCTLR", t.sctlr)
    BY <1>3, <2>1, <2>4 DEF Target, Halves
  <2>5. CASE w = [reg |-> t.ttbr, value |-> [root |-> t.root, asid |-> t.asid]]
    <3>1. w.reg = t.ttbr /\ t.ttbr \in Halves /\ w.value = [root |-> t.root, asid |-> t.asid]
      BY <1>5, <2>5 DEF Fits
    <3>2. [w.value EXCEPT !.root = Encoded(@)] = [root |-> t.root, asid |-> t.asid]
      BY <1>1, <3>1
    <3>3. RegAfter(w) = [reg EXCEPT ![w.reg] = [w.value EXCEPT !.root = Encoded(@)]]
      BY <3>1 DEF RegAfter, Halves
    <3>4. RegAfter(w)[w.reg] = [root |-> t.root, asid |-> t.asid]
      BY <1>2, <2>1, <3>1, <3>2, <3>3
    <3>. QED  BY <2>1, <3>1, <3>4 DEF Target, Halves
  <2>. QED  BY <1>5, <2>2, <2>3, <2>4, <2>5 DEF Writes
<1>6. CASE Arch = "riscv64"
  <2>1. RegNames = {"satp"}
    BY <1>6 DEF RegNames
  <2>. DEFINE v == [mode |-> t.mode, asid |-> t.asid, root |-> t.root]
  <2>2. w.reg = "satp" /\ w.value = v /\ w.value.mode \in SupportedModes
    BY <1>6 DEF Writes, Fits
  <2>3. [w.value EXCEPT !.root = Encoded(@)] = v
    BY <1>1, <2>2
  <2>4. RegAfter(w) = [reg EXCEPT !.satp = [w.value EXCEPT !.root = Encoded(@)]]
    BY <2>2 DEF RegAfter, Halves
  <2>5. RegAfter(w)["satp"] = v
    BY <1>2, <2>1, <2>3, <2>4
  <2>. QED  BY <2>1, <2>2, <2>5 DEF Target, Halves
<1>. QED  BY <1>4, <1>5, <1>6, Archs

\* Sequences of writes, joined.
LEMMA Joined ==
  ASSUME NEW S, NEW a \in Seq(S), NEW b \in Seq(S)
  PROVE  a \o b \in Seq(S) /\ RegsOf(a) \cup RegsOf(b) \subseteq RegsOf(a \o b)
<1>1. /\ a \o b \in Seq(S) /\ Len(a) \in Nat /\ Len(b) \in Nat
      /\ Len(a \o b) = Len(a) + Len(b)
      /\ \A i \in 1..Len(a) : (a \o b)[i] = a[i]
      /\ \A i \in 1..Len(b) : (a \o b)[Len(a) + i] = b[i]
  BY ConcatProperties
<1>2. ASSUME NEW i \in 1..Len(a)
      PROVE  a[i].reg \in RegsOf(a \o b)
  BY <1>1 DEF RegsOf
<1>3. ASSUME NEW i \in 1..Len(b)
      PROVE  b[i].reg \in RegsOf(a \o b)
  <2>1. Len(a) + i \in 1..Len(a \o b) /\ (a \o b)[Len(a) + i] = b[i]
    BY <1>1
  <2>. QED  BY <2>1 DEF RegsOf
<1>. QED  BY <1>1, <1>2, <1>3 DEF RegsOf

\* A program of one write writes one register.
LEMMA Single ==
  ASSUME NEW S, NEW w \in S
  PROVE  <<w>> \in Seq(S) /\ w.reg \in RegsOf(<<w>>)
BY DEF RegsOf

\* A control that is there is written, and one that is not asks for no value.
LEMMA PutWrites ==
  ASSUME NEW S, NEW r, NEW options, One(r, options) \subseteq S
  PROVE  Put(r, options) \in Seq(S) /\ (r \in RegsOf(Put(r, options)) \/ \A x : Override(options, x) = x)
<1>1. CASE options = {}
  <2>1. Put(r, options) = <<>> /\ \A x : Override(options, x) = x
    BY <1>1, Zenon DEF Put, Override
  <2>. QED  BY <2>1
<1>2. CASE options # {}
  <2>. DEFINE w == [reg |-> r, value |-> CHOOSE v \in options : TRUE]
  <2>1. w \in S /\ w.reg = r /\ Put(r, options) = <<w>>
    BY <1>2 DEF One, Put
  <2>. QED  BY <2>1, Single
<1>. QED  BY <1>1, <1>2

\* The program of a token leaves out no register the token speaks of.
LEMMA ProgramWrites ==
  ASSUME fmt \in Formats, NEW t
  PROVE  /\ Program(t) \in Seq(Writes(t))
         /\ \A n \in RegNames : n \in RegsOf(Program(t)) \/ \A x : Target(t, n, x) = x
<1>. DEFINE S == Writes(t)
<1>1. CASE Arch = "x86_64"
  <2>. DEFINE cr3 == [reg |-> "CR3", value |-> [root |-> t.root, low |-> t.cr3.low, preserve |-> t.cr3.preserve]]
              a == Put("CR4", t.cr4)
              b == <<cr3>>
              c == Put("CR0", t.cr0)
  <2>1. One("CR4", t.cr4) \subseteq S /\ One("CR0", t.cr0) \subseteq S /\ cr3 \in S
    BY <1>1 DEF Writes
  <2>2. a \in Seq(S) /\ ("CR4" \in RegsOf(a) \/ \A x : Override(t.cr4, x) = x)
    BY <2>1, PutWrites
  <2>3. c \in Seq(S) /\ ("CR0" \in RegsOf(c) \/ \A x : Override(t.cr0, x) = x)
    BY <2>1, PutWrites
  <2>4. b \in Seq(S) /\ "CR3" \in RegsOf(b)
    BY <2>1, Single
  <2>5. Program(t) = (a \o b) \o c
    BY <1>1 DEF Program, X86Program, X86Cr3
  <2>. HIDE DEF a, b, c, S
  <2>6. a \o b \in Seq(S) /\ RegsOf(a) \cup RegsOf(b) \subseteq RegsOf(a \o b)
    BY <2>2, <2>4, Joined
  <2>7. (a \o b) \o c \in Seq(S) /\ RegsOf(a \o b) \cup RegsOf(c) \subseteq RegsOf((a \o b) \o c)
    BY <2>3, <2>6, Joined
  <2>8. \A x : /\ Target(t, "PAT", x) = x /\ Target(t, "CR0", x) = Override(t.cr0, x)
               /\ Target(t, "CR4", x) = Override(t.cr4, x)
    BY DEF Target, Halves
  <2>9. RegNames = {"PAT", "CR0", "CR3", "CR4"}
    BY <1>1 DEF RegNames
  <2>. QED  BY <2>2, <2>3, <2>4, <2>5, <2>6, <2>7, <2>8, <2>9 DEF S
<1>2. CASE Arch = "aarch64"
  <2>. DEFINE ttbr == [reg |-> t.ttbr, value |-> [root |-> t.root, asid |-> t.asid]]
              a == Put("MAIR", t.mair)
              b == Put("TCR", t.tcr)
              c == <<ttbr>>
              d == Put("SCTLR", t.sctlr)
  <2>1. /\ One("MAIR", t.mair) \subseteq S /\ One("TCR", t.tcr) \subseteq S
        /\ One("SCTLR", t.sctlr) \subseteq S /\ ttbr \in S
    BY <1>2 DEF Writes
  <2>2. a \in Seq(S) /\ ("MAIR" \in RegsOf(a) \/ \A x : Override(t.mair, x) = x)
    BY <2>1, PutWrites
  <2>3. b \in Seq(S) /\ ("TCR" \in RegsOf(b) \/ \A x : Override(t.tcr, x) = x)
    BY <2>1, PutWrites
  <2>4. d \in Seq(S) /\ ("SCTLR" \in RegsOf(d) \/ \A x : Override(t.sctlr, x) = x)
    BY <2>1, PutWrites
  <2>5. c \in Seq(S) /\ t.ttbr \in RegsOf(c)
    BY <2>1, Single
  <2>6. Program(t) = ((a \o b) \o c) \o d
    BY <1>2 DEF Program, A64Program
  <2>. HIDE DEF a, b, c, d, S
  <2>7. a \o b \in Seq(S) /\ RegsOf(a) \cup RegsOf(b) \subseteq RegsOf(a \o b)
    BY <2>2, <2>3, Joined
  <2>8. (a \o b) \o c \in Seq(S) /\ RegsOf(a \o b) \cup RegsOf(c) \subseteq RegsOf((a \o b) \o c)
    BY <2>5, <2>7, Joined
  <2>9. /\ ((a \o b) \o c) \o d \in Seq(S)
        /\ RegsOf((a \o b) \o c) \cup RegsOf(d) \subseteq RegsOf(((a \o b) \o c) \o d)
    BY <2>4, <2>8, Joined
  <2>10. \A x : /\ Target(t, "MAIR", x) = Override(t.mair, x) /\ Target(t, "TCR", x) = Override(t.tcr, x)
                /\ Target(t, "SCTLR", x) = Override(t.sctlr, x)
                /\ \A h \in Halves : h # t.ttbr => Target(t, h, x) = x
    BY DEF Target, Halves
  <2>11. RegNames = {"MAIR", "TCR", "SCTLR"} \cup Halves
    BY <1>2 DEF RegNames
  <2>. QED  BY <2>2, <2>3, <2>4, <2>5, <2>6, <2>7, <2>8, <2>9, <2>10, <2>11 DEF S
<1>3. CASE Arch = "riscv64"
  <2>. DEFINE satp == [reg |-> "satp", value |-> [mode |-> t.mode, asid |-> t.asid, root |-> t.root]]
              a == <<satp>>
              b == IF t.fence_after THEN <<[reg |-> "fence"]>> ELSE <<>>
  <2>1. satp \in S /\ [reg |-> "fence"] \in S
    BY <1>3 DEF Writes
  <2>2. a \in Seq(S) /\ "satp" \in RegsOf(a)
    BY <2>1, Single
  <2>3. b \in Seq(S)
    BY <2>1
  <2>4. Program(t) = a \o b
    BY <1>3 DEF Program, Rv64Program, Satp
  <2>. HIDE DEF a, b, S
  <2>5. a \o b \in Seq(S) /\ RegsOf(a) \subseteq RegsOf(a \o b)
    BY <2>2, <2>3, Joined
  <2>6. RegNames = {"satp"}
    BY <1>3 DEF RegNames
  <2>. QED  BY <2>2, <2>4, <2>5, <2>6 DEF S
<1>. QED  BY <1>1, <1>2, <1>3, Archs

-------------------------------------------------------------------------------
(* An activation, from its first write to its return. *)

\* What is still to be written suits the token, and what is not is as it asks.
Carries(t) ==
  /\ Fits(t) /\ todo \in Seq(Writes(t))
  /\ ~fault => \A n \in RegNames : n \in RegsOf(todo) \/ reg[n] = Target(t, n, reg[n])

\* What ActiveRootIsToken needs to be inductive.  Interrupts are masked, so that no
\* handler's root gets between two writes.
ActInv ==
  /\ fmt \in Formats
  /\ reg # Off => HasRegs(reg)
  /\ call.kind \in {"none", "activate", "write"} /\ (call.kind = "none" => call = NoCall)
  /\ call # NoCall => reg # Off /\ ~irq
  /\ obs # NoObs /\ Arch = "aarch64" => obs.token.ttbr \in Halves
  /\ call.kind = "activate" => Carries(call.token)
  /\ call.kind = "write" => todo \in Seq(DirectWrites)

\* A direct write is of a register of its architecture.
LEMMA DirectRegs ==
  ASSUME fmt \in Formats, NEW w \in DirectWrites
  PROVE  w.reg \in RegNames
<1>1. CASE Arch = "x86_64"
  BY <1>1 DEF DirectWrites, RegNames
<1>2. CASE Arch = "aarch64"
  <2>1. \A h \in Halves : \A x \in TtbrWrites(h) : x.reg \in Halves
    BY DEF TtbrWrites
  <2>. QED  BY <1>2, <2>1 DEF DirectWrites, RegNames
<1>3. CASE Arch = "riscv64"
  BY <1>3 DEF DirectWrites
<1>. QED  BY <1>1, <1>2, <1>3, Archs

\* A program writes registers of its architecture.
LEMMA WritesRegs ==
  ASSUME fmt \in Formats, NEW t, Fits(t), NEW w \in Writes(t)
  PROVE  w.reg \in RegNames \cup {"fence"}
<1>1. \A r, o : \A x \in One(r, o) : x.reg = r
  BY DEF One
<1>2. CASE Arch = "x86_64"
  BY <1>1, <1>2 DEF Writes, RegNames
<1>3. CASE Arch = "aarch64"
  BY <1>1, <1>3 DEF Writes, RegNames, Fits
<1>4. CASE Arch = "riscv64"
  BY <1>4 DEF Writes, RegNames
<1>. QED  BY <1>2, <1>3, <1>4, Archs

\* What the format decides stays decided.
LEMMA SameArch ==
  ASSUME UNCHANGED fmt
  PROVE  /\ Arch' = Arch /\ RegNames' = RegNames /\ DirectWrites' = DirectWrites
         /\ \A r : HasRegs(r)' = HasRegs(r)
         /\ \A t : Writes(t)' = Writes(t) /\ Fits(t)' = Fits(t)
<1>1. Arch' = Arch
  BY DEF Arch
<1>2. RegNames' = RegNames
  BY <1>1 DEF RegNames
<1>3. \A r : HasRegs(r)' = HasRegs(r)
  BY <1>2 DEF HasRegs
<1>4. \A t : Writes(t)' = Writes(t) /\ Fits(t)' = Fits(t)
  BY <1>1 DEF Writes, Fits, install
<1>5. DirectWrites' = DirectWrites
  BY <1>1 DEF DirectWrites
<1>. QED  BY <1>1, <1>2, <1>3, <1>4, <1>5

\* One write of an activation brings one more register to its value.
LEMMA CarriedOn ==
  ASSUME fmt \in Formats, HasRegs(reg), NEW t, Carries(t), ~fault, todo # <<>>,
         Execute(Head(todo)), todo' = Tail(todo), UNCHANGED fmt
  PROVE  HasRegs(reg)' /\ Carries(t)'
<1>. DEFINE w == Head(todo)
<1>1. /\ w \in Writes(t) /\ Tail(todo) \in Seq(Writes(t))
      /\ \A n \in RegsOf(todo) : n = w.reg \/ n \in RegsOf(Tail(todo))
  <2>1. /\ w = todo[1] /\ w \in Writes(t) /\ Tail(todo) \in Seq(Writes(t))
        /\ \A i \in 1..Len(todo) : i # 1 => i - 1 \in 1..Len(Tail(todo)) /\ Tail(todo)[i - 1] = todo[i]
    BY HeadTailProperties DEF Carries
  <2>. QED  BY <2>1 DEF RegsOf
<1>. HIDE DEF w
<1>2. w.reg \in RegNames \cup {"fence"}
  BY <1>1, WritesRegs DEF Carries
<1>3. CASE Refuses(w)
  <2>1. reg' = reg /\ fault'
    BY <1>3 DEF Execute, w
  <2>. QED  BY <1>1, <2>1, SameArch DEF Carries, HasRegs
<1>4. CASE ~Refuses(w)
  <2>1. reg' = RegAfter(w) /\ ~fault'
    BY <1>4 DEF Execute, w
  <2>2. HasRegs(RegAfter(w)) /\ \A n \in RegNames : n # w.reg => RegAfter(w)[n] = reg[n]
    BY <1>2, OneRegister
  <2>3. ASSUME NEW n \in RegNames, n \notin RegsOf(Tail(todo))
        PROVE  reg'[n] = Target(t, n, reg'[n])
    <3>1. CASE n = w.reg
      <4>1. w.reg # "fence"
        BY <3>1, Names
      <4>2. RegAfter(w)[n] = Target(t, n, reg[n])
        BY <1>1, <3>1, <4>1, RightValue DEF Carries
      <4>. QED  BY <2>1, <4>2, TargetTwice
    <3>2. CASE n # w.reg
      <4>1. reg[n] = Target(t, n, reg[n])
        BY <1>1, <2>3, <3>2 DEF Carries
      <4>. QED  BY <2>1, <2>2, <3>2, <4>1
    <3>. QED  BY <3>1, <3>2
  <2>4. HasRegs(reg')
    BY <2>1, <2>2
  <2>. QED  BY <1>1, <2>3, <2>4, SameArch DEF Carries, HasRegs, RegsOf
<1>. QED  BY <1>3, <1>4

\* A legal root fits its register, and a legal mode is one the CPU has.
LEMMA LegalFits ==
  ASSUME ActInv, NEW t, activate(t), Arch = "aarch64" => t.ttbr \in Halves
  PROVE  Fits(t)
<1>1. install(t.root) = "ok" /\ LegalResult(Result(t)) /\ reg # Off
  BY DEF activate, Legal, Enter, Idle
<1>2. ASSUME Arch = "riscv64"
      PROVE  t.mode \in SupportedModes
  <2>1. DOMAIN reg = {"satp"}
    BY <1>1, <1>2 DEF ActInv, HasRegs, RegNames
  <2>2. Result(t)["satp"] = [mode |-> t.mode, asid |-> t.asid, root |-> t.root]
    BY <2>1 DEF Result, Target, Halves
  <2>3. Result(t).satp.mode \in SupportedModes
    BY <1>1, <1>2 DEF LegalResult
  <2>. QED  BY <2>2, <2>3
<1>. QED  BY <1>1, <1>2 DEF Fits

\* A call begins by masking interrupts.
LEMMA EnterStep ==
  ASSUME ActInv, UNCHANGED fmt, NEW kind \in {"activate", "write"}, NEW token, NEW program,
         Enter(kind, token, program),
         kind = "activate" => program = Program(token) /\ Fits(token),
         kind = "write" => program \in Seq(DirectWrites)
  PROVE  ActInv'
<1>1. /\ reg # Off /\ UNCHANGED <<reg, obs, fault>> /\ ~irq' /\ todo' = program
      /\ call'.kind = kind /\ call'.token = token /\ call' # NoCall
  BY DEF Enter, Idle, irq_masked, NoCall
<1>2. ASSUME kind = "activate"
      PROVE  Carries(token)'
  <2>1. /\ Program(token) \in Seq(Writes(token))
        /\ \A n \in RegNames : n \in RegsOf(Program(token)) \/ \A x : Target(token, n, x) = x
    BY ProgramWrites DEF ActInv
  <2>. QED  BY <1>1, <1>2, <2>1, SameArch DEF Carries, RegsOf
<1>. QED  BY <1>1, <1>2, SameArch DEF ActInv, HasRegs

\* Every register is still to be written or already as asked when a call begins.
LEMMA ActivateStep ==
  ASSUME ActInv, UNCHANGED fmt, NEW t, activate(t), Arch = "aarch64" => t.ttbr \in Halves
  PROVE  ActInv'
<1>1. Fits(t) /\ Enter("activate", t, Program(t))
  BY LegalFits DEF activate
<1>. QED  BY <1>1, EnterStep

\* Steps that leave the call alone, made outside one or not touching what it needs.
LEMMA OutsideStep ==
  ASSUME ActInv, UNCHANGED <<fmt, call, todo>>, call = NoCall,
         reg' # Off => HasRegs(reg)',
         obs' # NoObs /\ Arch = "aarch64" => obs'.token.ttbr \in Halves
  PROVE  ActInv'
BY SameArch DEF ActInv, NoCall

\* A write gives its register the value of the token and disturbs no other.
LEMMA WriteRegisterStep == ActInv /\ UNCHANGED fmt /\ WriteRegister => ActInv'
<1>. SUFFICES ASSUME ActInv, UNCHANGED fmt, WriteRegister PROVE ActInv'
  OBVIOUS
<1>1. /\ call # NoCall /\ todo # <<>> /\ ~fault /\ Execute(Head(todo)) /\ todo' = Tail(todo)
      /\ UNCHANGED <<irq, call, obs>> /\ reg # Off /\ HasRegs(reg) /\ fmt \in Formats
  BY DEF WriteRegister, ActInv
<1>2. CASE call.kind = "activate"
  <2>1. HasRegs(reg)' /\ Carries(call.token)'
    <3>. DEFINE t == call.token
    <3>1. Carries(t)
      BY <1>2 DEF ActInv
    <3>2. HasRegs(reg)' /\ Fits(t)'
      BY <1>1, <3>1, CarriedOn, SameArch DEF Carries
    <3>. QED  BY <1>1, <3>1, CarriedOn
  <2>. QED  BY <1>1, <1>2, <2>1, RegsOn, SameArch DEF ActInv
<1>3. CASE call.kind = "write"
  <2>1. Head(todo) \in DirectWrites /\ Tail(todo) \in Seq(DirectWrites)
    BY <1>1, <1>3, HeadTailProperties DEF ActInv
  <2>2. HasRegs(RegAfter(Head(todo)))
    BY <1>1, <2>1, DirectRegs, OneRegister
  <2>3. HasRegs(reg')
    BY <1>1, <2>2 DEF Execute
  <2>. QED  BY <1>1, <1>3, <2>1, <2>3, RegsOn, SameArch DEF ActInv, HasRegs
<1>. QED  BY <1>1, <1>2, <1>3 DEF ActInv

\* Every step of the CPU keeps ActInv.
LEMMA CpuStep == ActInv /\ reg # Off /\ CpuNext /\ UNCHANGED fmt => ActInv'
<1>. SUFFICES ASSUME ActInv, reg # Off, CpuNext, UNCHANGED fmt PROVE ActInv'
  OBVIOUS
<1>1. HasRegs(reg) /\ fmt \in Formats
  BY DEF ActInv
<1>2. ASSUME NEW t \in Tokens, activate(t)
      PROVE  ActInv'
  <2>1. Arch = "aarch64" => t.ttbr \in Halves
    BY <1>2 DEF Tokens, A64Tokens
  <2>. QED  BY <1>2, <2>1, ActivateStep
<1>3. ASSUME NEW w \in DirectWrites, write(w)
      PROVE  ActInv'
  <2>1. Enter("write", w, <<w>>) /\ <<w>> \in Seq(DirectWrites)
    BY <1>3 DEF write
  <2>. QED  BY <2>1, EnterStep
<1>4. CASE Return
  BY <1>4, SameArch DEF Return, ActInv, NoCall, HasRegs
<1>5. CASE Reactivate
  <2>1. activate(obs.token) /\ (Arch = "aarch64" => obs.token.ttbr \in Halves)
    BY <1>5 DEF Reactivate, ActInv
  <2>. QED  BY <2>1, ActivateStep
<1>6. CASE install_x86_pat
  <2>1. /\ call = NoCall /\ UNCHANGED <<call, todo, obs>> /\ Arch = "x86_64"
        /\ reg' = RegAfter([reg |-> "PAT", value |-> X86_PAT_MSR_VALUE])
    BY <1>6 DEF install_x86_pat, Idle, RegAfter, Halves
  <2>2. "PAT" \in RegNames
    BY <2>1 DEF RegNames
  <2>3. HasRegs(reg')
    BY <1>1, <2>1, <2>2, OneRegister
  <2>. QED  BY <2>1, <2>3, OutsideStep, SameArch DEF ActInv, HasRegs
<1>7. CASE install_a64_mair_el1
  <2>1. /\ call = NoCall /\ UNCHANGED <<call, todo, obs>> /\ Arch = "aarch64"
        /\ reg' = RegAfter([reg |-> "MAIR", value |-> A64_MAIR_EL1_VALUE])
    BY <1>7 DEF install_a64_mair_el1, Idle, RegAfter, Halves
  <2>2. "MAIR" \in RegNames
    BY <2>1 DEF RegNames
  <2>3. HasRegs(reg')
    BY <1>1, <2>1, <2>2, OneRegister
  <2>. QED  BY <2>1, <2>3, OutsideStep, SameArch DEF ActInv, HasRegs
<1>8. ASSUME NEW half \in CurrentTtbr, Observe(half)
      PROVE  ActInv'
  <2>1. call = NoCall /\ UNCHANGED <<reg, call, todo>> /\ obs'.token = current(half)
    BY <1>8 DEF Observe, Idle
  <2>2. Arch = "aarch64" => current(half).ttbr \in Halves
    BY ActivationAssumption DEF current, A64Current, Halves
  <2>. QED  BY <1>1, <2>1, <2>2, OutsideStep, SameArch DEF HasRegs
<1>9. CASE MaskInterrupts
  <2>1. call = NoCall /\ UNCHANGED <<reg, call, todo, obs>>
    BY <1>9 DEF MaskInterrupts, Idle
  <2>. QED  BY <1>1, <2>1, OutsideStep, SameArch DEF ActInv, HasRegs
<1>10. ASSUME NEW root \in Roots, Interrupt(root)
       PROVE  ActInv'
  <2>. DEFINE w == CASE Arch = "x86_64" ->
                          [reg |-> "CR3", value |-> [root |-> root, low |-> reg.CR3.low, preserve |-> FALSE]]
                     [] Arch = "aarch64" -> [reg |-> "TTBR0", value |-> [root |-> root, asid |-> reg.TTBR0.asid]]
                     [] Arch = "riscv64" -> [reg |-> "satp", value |-> [reg.satp EXCEPT !.root = root]]
  <2>1. irq /\ UNCHANGED <<call, todo, obs>> /\ Execute(w)
    BY <1>10 DEF Interrupt
  <2>2. call = NoCall
    BY <2>1 DEF ActInv
  <2>3. w.reg \in RegNames
    BY <1>1, Archs DEF RegNames, Halves
  <2>. HIDE DEF w
  <2>4. HasRegs(reg')
    BY <1>1, <2>1, <2>3, OneRegister DEF Execute
  <2>. QED  BY <2>1, <2>2, <2>4, OutsideStep, SameArch DEF ActInv, HasRegs
<1>11. ASSUME NEW t \in tlb, Invalidate(t.tag)
       PROVE  ActInv'
  <2>1. call = NoCall /\ UNCHANGED <<reg, call, todo, obs>>
    BY <1>11 DEF Invalidate, Idle
  <2>. QED  BY <1>1, <2>1, OutsideStep, SameArch DEF ActInv, HasRegs
<1>. QED
  BY <1>2, <1>3, <1>4, <1>5, <1>6, <1>7, <1>8, <1>9, <1>10, <1>11, WriteRegisterStep DEF CpuNext

\* So does every step.
LEMMA ActStep == ActInv /\ [Next]_avars => ActInv'
<1>. SUFFICES ASSUME ActInv, [Next]_avars PROVE ActInv'
  OBVIOUS
<1>1. ASSUME UNCHANGED <<fmt, reg, irq, call, todo, obs, fault>>
      PROVE  ActInv'
  BY <1>1, SameArch DEF ActInv, HasRegs, Carries, RegsOf
<1>2. CASE EntryNext /\ UNCHANGED cpuvars
  <2>1. UNCHANGED fmt
    BY <1>2 DEF EntryNext, map_leaf_direct, remap_no_flush, merge_over, protect_no_flush, AdoptHighPat,
                link_table, split_at, unmap_no_flush, merge_at, Write
  <2>. QED  BY <1>1, <1>2, <2>1 DEF cpuvars
<1>3. CASE Boot /\ UNCHANGED evars
  <2>1. reg = Off /\ reg' = PowerOn /\ UNCHANGED <<fmt, irq, call, todo, obs>>
    BY <1>3 DEF Boot, evars
  <2>2. HasRegs(reg') /\ call = NoCall
    BY <2>1, PowerOnRegs DEF ActInv
  <2>. QED  BY <2>1, <2>2, OutsideStep, SameArch DEF ActInv, HasRegs
<1>4. CASE reg # Off /\ CpuNext /\ UNCHANGED evars
  BY <1>4, CpuStep DEF evars
<1>5. CASE UNCHANGED avars
  BY <1>1, <1>5 DEF avars, evars, cpuvars
<1>. QED  BY <1>2, <1>3, <1>4, <1>5 DEF Next

\* It begins so.
LEMMA ActInit == Init => ActInv
BY EntryInitInv DEF Init, EntryInv, ActInv, NoCall

\* So ActInv always holds.
LEMMA ActInvHolds == Spec => []ActInv
BY ActInit, ActStep, PTL DEF Spec

\* When nothing is left to write, all of the token is in force.
LEMMA NothingLeft == ActInv => ActiveRootIsToken
<1>. SUFFICES ASSUME ActInv, call.kind = "activate", todo = <<>>, ~fault
              PROVE  Result(call.token) = reg
  BY DEF ActiveRootIsToken
<1>. DEFINE t == call.token
<1>1. reg # Off /\ HasRegs(reg)
  BY DEF ActInv, NoCall
<1>2. DOMAIN reg = RegNames
  BY <1>1 DEF HasRegs
<1>3. RegsOf(todo) = {}
  BY DEF RegsOf
<1>4. \A n \in RegNames : Target(t, n, reg[n]) = reg[n]
  BY <1>3 DEF ActInv, Carries
<1>5. Result(t) = [n \in RegNames |-> Target(t, n, reg[n])]
  BY <1>2 DEF Result
<1>. HIDE DEF t
<1>6. Result(t) = [n \in RegNames |-> reg[n]]
  BY <1>4, <1>5
<1>. QED  BY <1>1, <1>6 DEF HasRegs, t

\* When activate is about to return Ok, each register holds what the token says: the
\* same order of writes serves every token, root and register state, and no handler's
\* root comes between, interrupts being masked from the first write to the last.
THEOREM TokenIsActive == Spec => []ActiveRootIsToken
BY ActInvHolds, NothingLeft, PTL

-------------------------------------------------------------------------------
(* Types. *)

\* A leaf is at one of the format's levels.
LEMMA LeafAtLevel ==
  ASSUME fmt \in Formats, NEW l, HoldsLeaf(l)
  PROVE  l \in 1..Meta(fmt.meta).LEVELS
<1>. DEFINE g == Meta(fmt.meta)
<1>1. l \in DOMAIN g.leaves
  BY DEF HoldsLeaf, level_supports_leaf
<1>2. FormatNumbers(g)
  BY NumbersOf
<1>. HIDE DEF g
<1>. QED  BY <1>1, <1>2 DEF g, FormatNumbers

\* An entry made by new_leaf is an entry.
LEMMA LeafTypes ==
  ASSUME fmt \in Formats, NEW fl \in FlagTypes, NEW pa, NEW l
  PROVE  new_leaf(pa, fl, l).pa = pa /\ new_leaf(pa, fl, l).index \in 0..3
<1>0. fl.cache \in Policies
  BY DEF FlagTypes
<1>1. CASE Arch = "x86_64"
  BY <1>0, <1>1 DEF new_leaf, X86Leaf, X86PatIndex, Entry, Policies
<1>2. CASE Arch = "riscv64"
  BY <1>0, <1>2, Archs DEF new_leaf, Rv64Leaf, Rv64Pbmt, Entry, Policies
<1>3. CASE Arch = "aarch64"
  BY <1>0, <1>3 DEF new_leaf, A64Leaf, A64AttrIndex, Entry, Policies
<1>. QED  BY <1>1, <1>2, <1>3, Archs

\* So is each entry the walker writes.
LEMMA WrittenTypes ==
  ASSUME fmt \in Formats, NEW l \in 1..Meta(fmt.meta).LEVELS, NEW e, e.pa \in Nat, e.index \in 0..7,
         NEW w, w.kind \in {"none", "leaf", "table"}, Write(l, e, w)
  PROVE  EntryTypeOK'
BY DEF Write, EntryTypeOK, Formats

\* The entry machine keeps its types.
LEMMA EntryTyped == EntryInv /\ EntryTypeOK /\ [EntryNext]_evars => EntryTypeOK'
<1>. SUFFICES ASSUME EntryInv, EntryTypeOK, [EntryNext]_evars PROVE EntryTypeOK'
  OBVIOUS
<1>1. fmt \in Formats /\ lvl \in 1..Meta(fmt.meta).LEVELS /\ pte.pa \in Nat
  BY DEF EntryTypeOK
<1>2. \A k \in {"none", "leaf", "table"} : \A pa, fl : Asked(k, pa, fl).kind \in {"none", "leaf", "table"}
  BY DEF Asked
<1>3. ASSUME NEW pa \in Nat, NEW fl \in FlagTypes, NEW l \in 1..Meta(fmt.meta).LEVELS, NEW x, NEW y,
             Write(l, new_leaf(pa, fl, l), Asked("leaf", x, y))
      PROVE  EntryTypeOK'
  <2>1. new_leaf(pa, fl, l).pa = pa /\ new_leaf(pa, fl, l).index \in 0..7
    BY <1>1, LeafTypes
  <2>. QED  BY <1>1, <1>2, <1>3, <2>1, WrittenTypes
<1>4. ASSUME NEW pa \in Bases, NEW fl \in LeafFlags,
             map_leaf_direct(pa, fl) \/ remap_no_flush(pa, fl) \/ merge_over(pa, fl)
      PROVE  EntryTypeOK'
  <2>1. fl \in FlagTypes /\ pa \in Nat
    BY LeafFlagsTyped, SizeAssumption
  <2>2. flags(new_leaf(pa, fl, lvl - 1)) \in FlagTypes
    BY <1>1, <2>1, FlagsRead, KeptTwice
  <2>. QED  BY <1>1, <1>3, <1>4, <2>1, <2>2 DEF map_leaf_direct, remap_no_flush, merge_over
<1>5. ASSUME NEW fl \in LeafFlags, protect_no_flush(fl)
      PROVE  EntryTypeOK'
  <2>1. fl \in FlagTypes
    BY LeafFlagsTyped
  <2>. QED  BY <1>1, <1>3, <1>5, <2>1 DEF protect_no_flush
<1>6. ASSUME NEW fl \in LeafFlags, AdoptHighPat(fl)
      PROVE  EntryTypeOK'
  <2>. DEFINE leaf == new_leaf(0, fl, 1)
              high == [leaf EXCEPT !.bits = @ \cup {"bit7"}, !.index = @ + 4]
  <2>1. fl \in FlagTypes /\ lvl = 1 /\ Arch = "x86_64" /\ Write(lvl, high, Asked("leaf", 0, fl))
    BY <1>6, LeafFlagsTyped DEF AdoptHighPat
  <2>2. leaf.pa = 0 /\ leaf.index \in 0..3
    BY <1>1, <2>1, LeafTypes
  <2>3. leaf = [bits |-> leaf.bits, pa |-> leaf.pa, index |-> leaf.index, share |-> leaf.share]
    BY <2>1 DEF new_leaf, X86Leaf, Entry
  <2>. HIDE DEF leaf
  <2>4. high.pa = leaf.pa /\ high.index = leaf.index + 4
    BY <2>3
  <2>5. high.pa \in Nat /\ high.index \in 0..7
    BY <2>2, <2>4
  <2>. HIDE DEF high
  <2>. QED  BY <1>1, <1>2, <2>1, <2>5, WrittenTypes
<1>7. ASSUME NEW pa \in Bases, link_table(pa)
      PROVE  EntryTypeOK'
  <2>1. new_table(pa).pa = pa /\ new_table(pa).index = 0
    BY <1>1, Archs DEF new_table, X86Table, Rv64Table, A64Table, Entry
  <2>. QED  BY <1>1, <1>2, <1>7, <2>1, SizeAssumption, WrittenTypes DEF link_table
<1>8. ASSUME NEW i \in 0..Fanout-1, split_at(i)
      PROVE  EntryTypeOK'
  <2>. DEFINE pa == pte.pa + i * LeafPages(lvl - 1)
  <2>1. /\ IsLeaf /\ lvl > 1 /\ HoldsLeaf(lvl - 1)
        /\ \E x, y : Write(lvl - 1, new_leaf(pa, flags(pte), lvl - 1), Asked("leaf", x, y))
    BY <1>8 DEF split_at
  <2>2. flags(pte) \in FlagTypes
    BY <2>1, LeafAsked
  <2>3. lvl - 1 \in 1..Meta(fmt.meta).LEVELS
    BY <1>1, <2>1, LeafAtLevel
  <2>4. pa \in Nat
    <3>1. (lvl - 1) - 1 \in Nat /\ Fanout \in Nat \ {0} /\ i \in Nat
      BY <2>3, SizeAssumption
    <3>2. LeafPages(lvl - 1) \in Nat
      BY <3>1, PowerType DEF LeafPages
    <3>. QED  BY <1>1, <3>1, <3>2
  <2>. HIDE DEF pa
  <2>. QED  BY <1>3, <2>1, <2>2, <2>3, <2>4
<1>9. ASSUME merge_at
      PROVE  EntryTypeOK'
  <2>1. /\ IsLeaf /\ HoldsLeaf(lvl + 1) /\ Write(lvl + 1, new_leaf(pte.pa, flags(pte), lvl + 1), want)
    BY <1>9 DEF merge_at
  <2>2. flags(pte) \in FlagTypes /\ want = Asked("leaf", want.pa, want.fl)
    BY <2>1, LeafAsked
  <2>3. lvl + 1 \in 1..Meta(fmt.meta).LEVELS
    BY <1>1, <2>1, LeafAtLevel
  <2>. QED  BY <1>1, <1>3, <2>1, <2>2, <2>3
<1>10. ASSUME unmap_no_flush
       PROVE  EntryTypeOK'
  <2>1. Cleared.pa \in Nat /\ Cleared.index \in 0..7
    BY DEF Cleared, Entry
  <2>. QED  BY <1>1, <1>2, <1>10, <2>1, WrittenTypes DEF unmap_no_flush, Vacant
<1>11. CASE UNCHANGED evars
  BY <1>11 DEF evars, EntryTypeOK, Formats
<1>. QED
  BY <1>4, <1>5, <1>6, <1>7, <1>8, <1>9, <1>10, <1>11 DEF EntryNext

\* What a call leaves in the CPU's own variables.
CallTypes ==
  /\ irq \in BOOLEAN /\ fault \in BOOLEAN
  /\ call = NoCall => todo = <<>>
  /\ call # NoCall => call.kind \in {"activate", "write"} /\ call.saved \in BOOLEAN

\* A call of activate keeps its types.
LEMMA CallTyped == CallTypes /\ [Next]_avars => CallTypes'
<1>. SUFFICES ASSUME CallTypes, [Next]_avars PROVE CallTypes'
  OBVIOUS
<1>1. ASSUME NEW kind \in {"activate", "write"}, NEW token, NEW program, Enter(kind, token, program)
      PROVE  CallTypes'
  <2>1. /\ call' = [kind |-> kind, token |-> token, saved |-> irq, found |-> irq]
        /\ irq' = FALSE /\ fault' = fault
    BY <1>1 DEF Enter, irq_masked
  <2>2. call'.kind = kind /\ call'.saved = irq /\ call' # NoCall
    BY <2>1 DEF NoCall
  <2>. QED  BY <2>1, <2>2 DEF CallTypes, NoCall
<1>2. ASSUME NEW w, Execute(w)
      PROVE  fault' \in BOOLEAN
  BY <1>2 DEF Execute, CallTypes
<1>3. CASE (\E t \in Tokens : activate(t)) \/ Reactivate
  BY <1>1, <1>3 DEF activate, Reactivate
<1>4. CASE \E w \in DirectWrites : write(w)
  BY <1>1, <1>4 DEF write
<1>5. CASE WriteRegister
  BY <1>2, <1>5 DEF WriteRegister, CallTypes, NoCall
<1>6. CASE Return
  BY <1>6 DEF Return, CallTypes, NoCall, irq_restored
<1>7. CASE \E root \in Roots : Interrupt(root)
  <2>1. fault' \in BOOLEAN /\ UNCHANGED <<irq, call, todo>>
    BY <1>2, <1>7 DEF Interrupt
  <2>. QED  BY <2>1 DEF CallTypes, NoCall
<1>8. CASE MaskInterrupts
  BY <1>8 DEF MaskInterrupts, CallTypes, NoCall
<1>9. CASE \/ install_x86_pat \/ install_a64_mair_el1 \/ Boot \/ UNCHANGED cpuvars
           \/ \E half \in CurrentTtbr : Observe(half)
           \/ \E t \in tlb : Invalidate(t.tag)
  BY <1>9 DEF install_x86_pat, install_a64_mair_el1, Boot, Observe, Invalidate, cpuvars, CallTypes, NoCall
<1>10. CASE UNCHANGED avars
  BY <1>10 DEF avars, cpuvars, CallTypes, NoCall
<1>. QED
  BY <1>3, <1>4, <1>5, <1>6, <1>7, <1>8, <1>9, <1>10 DEF Next, CpuNext

\* Types: a slot is at a level of its format and holds an address and an index that
\* fit, also after a block has been cut into any depth; the registers are those of the
\* architecture; nothing is left to write when no call is in progress.
THEOREM ActivationTyped == Spec => []TypeOK
<1>1. Init => EntryTypeOK /\ CallTypes
  <2>. SUFFICES ASSUME Init PROVE EntryTypeOK /\ CallTypes
    OBVIOUS
  <2>1. EntryTypeOK
    <3>1. /\ fmt \in Formats /\ lvl \in 1..Meta(fmt.meta).LEVELS
          /\ pte = Entry({}, 0, 0, "none") /\ want = Asked("none", 0, Plain)
      BY DEF Init, EntryInit, Cleared, Vacant
    <3>2. pte.pa = 0 /\ pte.index = 0 /\ want.kind = "none"
      BY <3>1 DEF Entry, Asked
    <3>. QED  BY <3>1, <3>2 DEF EntryTypeOK
  <2>2. CallTypes
    BY DEF Init, CallTypes
  <2>. QED  BY <2>1, <2>2
<1>2. EntryInv /\ EntryTypeOK /\ CallTypes /\ [Next]_avars => (EntryTypeOK /\ CallTypes)'
  BY StepWrites, EntryTyped, CallTyped
<1>3. ActInv /\ EntryTypeOK /\ CallTypes => TypeOK
  <2>. SUFFICES ASSUME ActInv, EntryTypeOK, CallTypes PROVE TypeOK
    OBVIOUS
  <2>1. reg # Off => DOMAIN reg = DOMAIN PowerOn
    <3>. SUFFICES ASSUME reg # Off PROVE DOMAIN reg = DOMAIN PowerOn
      OBVIOUS
    <3>1. HasRegs(reg) /\ HasRegs(PowerOn)
      BY PowerOnRegs DEF ActInv
    <3>. QED  BY <3>1 DEF HasRegs
  <2>2. call.kind \in {"none", "activate", "write"}
    BY DEF CallTypes, NoCall
  <2>. QED  BY <2>1, <2>2 DEF TypeOK, CallTypes
<1>. QED  BY <1>1, <1>2, <1>3, EntryInvHolds, ActInvHolds, PTL DEF Spec

===============================================================================

------------------------------ MODULE EntryFormats ------------------------------
(***************************************************************************)
(* The entry formats: how leaf flags become bits of an entry, how the      *)
(* walker reads them back, and what the hardware makes of them (external). *)
(*                                                                         *)
(* An entry is a set of named bits, the address it holds, its memory-type  *)
(* index and its shareability.  Sizes and shifts are numbers of bits;      *)
(* addresses are counted in base pages, Fanout entries to a table.         *)
(***************************************************************************)
EXTENDS Integers

CONSTANTS
  Metas,       \* the paging formats to consider, by the names of their types
  MAX_LEVELS,  \* the walker's bound on levels
  Fanout,      \* entries per table
  Bases,       \* physical bases of leaves, in base pages
  Accesses,    \* the access flags asked for
  Shares,      \* the shareabilities asked for
  WordBits     \* width of a virtual address in PathsHaveOneAddress

-------------------------------------------------------------------------------
(* Geometry. *)

\* base^n, as a shift or a level's span grows: by one factor at a time.
Power(base, n) ==
  LET p[k \in 0..n] == IF k = 0 THEN 1 ELSE base * p[k-1]
  IN p[n]

X86Metas == {"X86Meta48", "X86Meta57"}
Rv64Metas == {"Rv64Meta39", "Rv64Meta48", "Rv64Meta57"}
A64Metas == {"A64Meta4K48", "A64Meta4K52", "A64Meta16K48", "A64Meta16K52", "A64Meta64K48", "A64Meta64K52"}

ASSUME FormatAssumption ==
  /\ Metas \subseteq X86Metas \cup Rv64Metas \cup A64Metas
  /\ Accesses \subseteq SUBSET {"READ", "WRITE", "EXECUTE", "USER", "GLOBAL"}
  /\ Shares \subseteq {"NonShareable", "Inner", "Outer", "System"}

\* Five levels are the most a format has.
ASSUME SizeAssumption ==
  /\ Fanout \in Nat \ {0} /\ Bases \subseteq Nat /\ WordBits \in Nat
  /\ MAX_LEVELS \in Nat /\ MAX_LEVELS >= 5

Geometry(levels, base, index, root, leaves, pa, va) ==
  [LEVELS |-> levels, BASE |-> base, INDEX_BITS |-> index, root |-> root,
   leaves |-> leaves, PA_MAX_BITS |-> pa, VA_MAX_BITS |-> va]

\* Levels, bits of a base page, of an index, of the root's index, the leaf sizes
\* from level 1 up, and the width of both addresses.
X86Meta48 == Geometry(4, 12, 9, 9, <<12, 21, 30>>, 52, 48)
X86Meta57 == Geometry(5, 12, 9, 9, <<12, 21, 30>>, 52, 57)
Rv64Meta39 == Geometry(3, 12, 9, 9, <<12, 21, 30>>, 56, 39)
Rv64Meta48 == Geometry(4, 12, 9, 9, <<12, 21, 30, 39>>, 56, 48)
Rv64Meta57 == Geometry(5, 12, 9, 9, <<12, 21, 30, 39>>, 56, 57)
A64Meta4K48 == Geometry(4, 12, 9, 9, <<12, 21, 30>>, 48, 48)
A64Meta4K52 == Geometry(5, 12, 9, 4, <<12, 21, 30>>, 52, 52)
A64Meta16K48 == Geometry(4, 14, 11, 1, <<14, 25, 36>>, 48, 48)
A64Meta16K52 == Geometry(4, 14, 11, 5, <<14, 25, 36>>, 52, 52)
A64Meta64K48 == Geometry(3, 16, 13, 6, <<16, 29, 42>>, 48, 48)
A64Meta64K52 == Geometry(3, 16, 13, 10, <<16, 29, 42>>, 52, 52)

Meta(m) ==
  CASE m = "X86Meta48" -> X86Meta48       [] m = "X86Meta57" -> X86Meta57
    [] m = "Rv64Meta39" -> Rv64Meta39     [] m = "Rv64Meta48" -> Rv64Meta48
    [] m = "Rv64Meta57" -> Rv64Meta57     [] m = "A64Meta4K48" -> A64Meta4K48
    [] m = "A64Meta4K52" -> A64Meta4K52   [] m = "A64Meta16K48" -> A64Meta16K48
    [] m = "A64Meta16K52" -> A64Meta16K52 [] m = "A64Meta64K48" -> A64Meta64K48
    [] m = "A64Meta64K52" -> A64Meta64K52

\* Mutant: every table of a format has the same width.
level_index_bitsUniform(m, l) == Meta(m).INDEX_BITS

level_index_bits(m, l) == IF l = Meta(m).LEVELS THEN Meta(m).root ELSE Meta(m).INDEX_BITS

level_shift(m, l) == Meta(m).BASE + (l - 1) * Meta(m).INDEX_BITS

level_supports_leaf(m, l, size) == l \in DOMAIN Meta(m).leaves /\ Meta(m).leaves[l] = size

\* leaf_size_at_level knows these sizes, by the bits of an offset into them.
PageSizes == {12, 14, 16, 21, 25, 29, 30, 36, 39, 42}

leaf_size_at_level(m, l) == IF level_shift(m, l) \in PageSizes THEN level_shift(m, l) ELSE 0

\* The bits above the address repeat its top bit.
canonical_vaddr_is_valid(v, bits) ==
  \/ bits >= WordBits
  \/ LET upper == v \div Power(2, bits)
         sign_set == (v \div Power(2, bits - 1)) % 2 = 1
     IN upper = IF sign_set THEN Power(2, WordBits - bits) - 1 ELSE 0

-------------------------------------------------------------------------------
(* Flags. *)

Policies == {"Writeback", "Uncached", "WriteCombine", "WriteThrough"}

\* Flags made with X86Flags::new, A64Flags::new or Rv64Flags::new, which add READ.
LeafFlags == [access : {a \cup {"READ"} : a \in Accesses}, cache : Policies, share : Shares]

Entry(bits, pa, index, share) == [bits |-> bits, pa |-> pa, index |-> index, share |-> share]

Cleared == Entry({}, 0, 0, "none")

-------------------------------------------------------------------------------
(* x86-64.  Bit 7 is HUGE at levels 2 and 3 and the PAT bit of a leaf at level 1. *)

X86PatIndex(cache) ==
  CASE cache = "Writeback" -> 0 [] cache = "WriteThrough" -> 1
    [] cache = "WriteCombine" -> 2 [] cache = "Uncached" -> 3

X86LeafBits(fl, size) ==
  {"P"} \cup (IF "WRITE" \in fl.access THEN {"W"} ELSE {})
        \cup (IF "USER" \in fl.access THEN {"U"} ELSE {})
        \cup (IF "GLOBAL" \in fl.access THEN {"G"} ELSE {})
        \cup (IF "EXECUTE" \in fl.access THEN {} ELSE {"NX"})
        \cup (IF size \in {21, 30} THEN {"bit7"} ELSE {})

X86Leaf(pa, fl, size) == Entry(X86LeafBits(fl, size), pa, X86PatIndex(fl.cache), "none")

X86Table(pa) == Entry({"P", "W", "U"}, pa, 0, "none")

\* PWT and PCD give the policy; the PAT bit of the index is not looked at.
X86Flags(e) ==
  [access |-> {"READ"} \cup (IF "W" \in e.bits THEN {"WRITE"} ELSE {})
                       \cup (IF "U" \in e.bits THEN {"USER"} ELSE {})
                       \cup (IF "G" \in e.bits THEN {"GLOBAL"} ELSE {})
                       \cup (IF "NX" \in e.bits THEN {} ELSE {"EXECUTE"}),
   cache |-> CHOOSE c \in Policies : X86PatIndex(c) = e.index % 4,
   share |-> "Inner"]

\* Mutant: the bit that marks a block is asked for at every level.
X86KindByBit(e, l) == IF "bit7" \in e.bits THEN "leaf" ELSE "table"

X86Kind(e, l) == IF l = 1 \/ "bit7" \in e.bits THEN "leaf" ELSE "table"

-------------------------------------------------------------------------------
(* RISC-V, with or without Svpbmt. *)

Rv64Pbmt(cache, svpbmt) ==
  CASE ~svpbmt -> 0
    [] svpbmt /\ cache \in {"Writeback", "WriteThrough"} -> 0
    [] svpbmt /\ cache = "WriteCombine" -> 1
    [] svpbmt /\ cache = "Uncached" -> 2

\* Mutant: a writable leaf is not marked dirty in advance.
Rv64LeafBitsClean(fl) ==
  {"V", "A"} \cup (IF fl.access \cap {"READ", "WRITE"} # {} THEN {"R"} ELSE {})
             \cup (IF "WRITE" \in fl.access THEN {"W"} ELSE {})
             \cup (IF "EXECUTE" \in fl.access THEN {"X"} ELSE {})
             \cup (IF "USER" \in fl.access THEN {"U"} ELSE {})
             \cup (IF "GLOBAL" \in fl.access THEN {"G"} ELSE {})

\* W without R is reserved: WRITE brings READ.
Rv64LeafBits(fl) ==
  {"V", "A"} \cup (IF fl.access \cap {"READ", "WRITE"} # {} THEN {"R"} ELSE {})
             \cup (IF "WRITE" \in fl.access THEN {"W", "D"} ELSE {})
             \cup (IF "EXECUTE" \in fl.access THEN {"X"} ELSE {})
             \cup (IF "USER" \in fl.access THEN {"U"} ELSE {})
             \cup (IF "GLOBAL" \in fl.access THEN {"G"} ELSE {})

Rv64Leaf(pa, fl, svpbmt) == Entry(Rv64LeafBits(fl), pa, Rv64Pbmt(fl.cache, svpbmt), "none")

Rv64Table(pa) == Entry({"V"}, pa, 0, "none")

Rv64Flags(e, svpbmt) ==
  [access |-> (IF "R" \in e.bits THEN {"READ"} ELSE {})
         \cup (IF "W" \in e.bits THEN {"WRITE"} ELSE {})
         \cup (IF "X" \in e.bits THEN {"EXECUTE"} ELSE {})
         \cup (IF "U" \in e.bits THEN {"USER"} ELSE {})
         \cup (IF "G" \in e.bits THEN {"GLOBAL"} ELSE {}),
   cache |-> CASE ~svpbmt \/ e.index \in {0, 3} -> "Writeback"
               [] svpbmt /\ e.index = 1 -> "WriteCombine"
               [] svpbmt /\ e.index = 2 -> "Uncached",
   share |-> "Inner"]

valid_encoding(e, svpbmt) ==
  /\ "V" \in e.bits
  /\ "W" \in e.bits => "R" \in e.bits
  /\ svpbmt => e.index # 3
  /\ ~svpbmt => e.index = 0

Rv64Kind(e, l, svpbmt) ==
  CASE ~valid_encoding(e, svpbmt) -> "invalid"
    [] valid_encoding(e, svpbmt) /\ e.bits \cap {"R", "W", "X"} # {} -> "leaf"
    [] valid_encoding(e, svpbmt) /\ e.bits \cap {"R", "W", "X"} = {} ->
         IF l > 1 THEN "table" ELSE "invalid"

-------------------------------------------------------------------------------
(* AArch64.  The descriptor type TTE64 belongs to another crate: its bits are  *)
(* modelled from their use.  A page descriptor has the form of a table's.      *)

A64AttrIndex(cache) ==
  CASE cache = "Writeback" -> 0 [] cache = "Uncached" -> 1
    [] cache = "WriteCombine" -> 2 [] cache = "WriteThrough" -> 3

A64Sharing(share) == IF share = "System" THEN "Outer" ELSE share

access_to_ap(access) ==
  (IF "USER" \in access THEN {"apUser"} ELSE {}) \cup (IF "WRITE" \in access THEN {"apWrite"} ELSE {})

A64LeafBits(fl, size) ==
  {"valid"} \cup (IF size \in {12, 14, 16} THEN {"form"} ELSE {})
            \cup access_to_ap(fl.access)
            \cup (IF "EXECUTE" \in fl.access THEN {} ELSE {"XN"})
            \cup (IF "GLOBAL" \in fl.access THEN {} ELSE {"nG"})

A64Leaf(pa, fl, size) ==
  Entry(A64LeafBits(fl, size), pa, A64AttrIndex(fl.cache), A64Sharing(fl.share))

A64Table(pa) == Entry({"valid", "form"}, pa, 0, "none")

A64Flags(e) ==
  [access |-> {"READ"} \cup (IF "apWrite" \in e.bits THEN {"WRITE"} ELSE {})
                       \cup (IF "apUser" \in e.bits THEN {"USER"} ELSE {})
                       \cup (IF "XN" \in e.bits THEN {} ELSE {"EXECUTE"})
                       \cup (IF "nG" \in e.bits THEN {} ELSE {"GLOBAL"}),
   cache |-> CHOOSE c \in Policies : A64AttrIndex(c) = e.index,
   share |-> e.share]

A64Kind(e, l) ==
  CASE "valid" \notin e.bits -> "invalid"
    [] "valid" \in e.bits /\ (l = 1 \/ "form" \notin e.bits) -> "leaf"
    [] "valid" \in e.bits /\ l > 1 /\ "form" \in e.bits -> "table"

-------------------------------------------------------------------------------
(* The walker's use of an entry: one slot, at some level, through any sequence *)
(* of writes.                                                                  *)

VARIABLES
  fmt,   \* [meta, svpbmt]: the format, fixed for the life of the table
  lvl,   \* the level of the slot
  pte,   \* what the slot holds
  want   \* what was last asked of it (history)

evars == <<fmt, lvl, pte, want>>

Formats ==
  {[meta |-> m, svpbmt |-> FALSE] : m \in Metas} \cup
  {[meta |-> m, svpbmt |-> TRUE] : m \in Metas \cap Rv64Metas}

Arch ==
  CASE fmt.meta \in X86Metas -> "x86_64"
    [] fmt.meta \in Rv64Metas -> "riscv64"
    [] fmt.meta \in A64Metas -> "aarch64"

new_leaf(pa, fl, l) ==
  CASE Arch = "x86_64"  -> X86Leaf(pa, fl, leaf_size_at_level(fmt.meta, l))
    [] Arch = "riscv64" -> Rv64Leaf(pa, fl, fmt.svpbmt)
    [] Arch = "aarch64" -> A64Leaf(pa, fl, leaf_size_at_level(fmt.meta, l))

new_table(pa) ==
  CASE Arch = "x86_64" -> X86Table(pa) [] Arch = "riscv64" -> Rv64Table(pa)
    [] Arch = "aarch64" -> A64Table(pa)

is_present(e) == e.bits \cap {"P", "V", "valid"} # {}

entry_kind(e, l) ==
  CASE Arch = "x86_64" -> X86Kind(e, l) [] Arch = "riscv64" -> Rv64Kind(e, l, fmt.svpbmt)
    [] Arch = "aarch64" -> A64Kind(e, l)

flags(e) ==
  CASE Arch = "x86_64" -> X86Flags(e) [] Arch = "riscv64" -> Rv64Flags(e, fmt.svpbmt)
    [] Arch = "aarch64" -> A64Flags(e)

Asked(kind, pa, fl) == [kind |-> kind, pa |-> pa, fl |-> fl]

Plain == [access |-> {"READ"}, cache |-> "Writeback", share |-> "Inner"]

Vacant == Asked("none", 0, Plain)

\* Base pages a leaf of level l covers.
LeafPages(l) == Power(Fanout, l - 1)

HoldsLeaf(l) == level_supports_leaf(fmt.meta, l, leaf_size_at_level(fmt.meta, l))

IsLeaf == is_present(pte) /\ entry_kind(pte, lvl) = "leaf"

Write(l, e, w) == lvl' = l /\ pte' = e /\ want' = w /\ UNCHANGED fmt

map_leaf_direct(pa, fl) ==
  /\ ~is_present(pte) /\ HoldsLeaf(lvl) /\ pa % LeafPages(lvl) = 0
  /\ Write(lvl, new_leaf(pa, fl, lvl), Asked("leaf", pa, fl))

link_table(pa) ==
  /\ ~is_present(pte) /\ lvl > 1
  /\ Write(lvl, new_table(pa), Asked("table", pa, Plain))

unmap_no_flush == IsLeaf /\ Write(lvl, Cleared, Vacant)

protect_no_flush(fl) ==
  IsLeaf /\ Write(lvl, new_leaf(pte.pa, fl, lvl), Asked("leaf", want.pa, fl))

remap_no_flush(pa, fl) ==
  /\ IsLeaf /\ pa % LeafPages(lvl) = 0
  /\ Write(lvl, new_leaf(pa, fl, lvl), Asked("leaf", pa, fl))

\* Follow the i-th leaf of the table that takes the place of the block.
split_at(i) ==
  /\ IsLeaf /\ lvl > 1 /\ HoldsLeaf(lvl - 1)
  /\ Write(lvl - 1, new_leaf(pte.pa + i * LeafPages(lvl - 1), flags(pte), lvl - 1),
           Asked("leaf", want.pa + i * LeafPages(lvl - 1), want.fl))

\* Follow the first leaf of a table that merge_at found uniform.
merge_at ==
  /\ IsLeaf /\ lvl < Meta(fmt.meta).LEVELS /\ HoldsLeaf(lvl + 1)
  /\ pte.pa % LeafPages(lvl + 1) = 0
  /\ Write(lvl + 1, new_leaf(pte.pa, flags(pte), lvl + 1), want)

\* The same from the slot of that table, given what its leaves were asked to be.
merge_over(pa, fl) ==
  /\ is_present(pte) /\ entry_kind(pte, lvl) = "table" /\ HoldsLeaf(lvl) /\ pa % LeafPages(lvl) = 0
  /\ Write(lvl, new_leaf(pa, flags(new_leaf(pa, fl, lvl - 1)), lvl), Asked("leaf", pa, fl))

\* A 4 KiB leaf made by other code, with the PAT bit: slots 4, 5 and 7 repeat 0, 1 and 3.
AdoptHighPat(fl) ==
  /\ Arch = "x86_64" /\ lvl = 1 /\ ~is_present(pte) /\ fl.cache # "WriteCombine"
  /\ LET leaf == new_leaf(0, fl, 1)
     IN Write(lvl, [leaf EXCEPT !.bits = @ \cup {"bit7"}, !.index = @ + 4], Asked("leaf", 0, fl))

EntryInit ==
  /\ fmt \in Formats /\ lvl \in 1..Meta(fmt.meta).LEVELS
  /\ pte = Cleared /\ want = Vacant

EntryNext ==
  \/ \E pa \in Bases, fl \in LeafFlags : map_leaf_direct(pa, fl) \/ remap_no_flush(pa, fl) \/ merge_over(pa, fl)
  \/ \E fl \in LeafFlags : protect_no_flush(fl) \/ AdoptHighPat(fl)
  \/ \E pa \in Bases : link_table(pa)
  \/ \E i \in 0..Fanout-1 : split_at(i)
  \/ unmap_no_flush \/ merge_at

-------------------------------------------------------------------------------
(* What the hardware reads in an entry (external). *)

HwKind(e, l) ==
  CASE ~is_present(e) -> "none"
    [] is_present(e) /\ Arch = "x86_64" ->
         IF l = 1 \/ ("bit7" \in e.bits /\ l <= 3) THEN "leaf"
         ELSE IF "bit7" \in e.bits THEN "reserved" ELSE "table"
    [] is_present(e) /\ Arch = "riscv64" ->
         IF e.bits \cap {"R", "W", "X"} = {}
         THEN IF l > 1 /\ e.index = 0 /\ e.bits \cap {"A", "D", "U"} = {} THEN "table" ELSE "reserved"
         ELSE IF ("W" \in e.bits => {"R", "D"} \subseteq e.bits) /\ "A" \in e.bits
                 /\ (IF fmt.svpbmt THEN e.index # 3 ELSE e.index = 0)
              THEN "leaf" ELSE "reserved"
    [] is_present(e) /\ Arch = "aarch64" ->
         IF "form" \in e.bits THEN IF l = 1 THEN "leaf" ELSE "table"
         ELSE IF l \in {2, 3} THEN "leaf" ELSE "reserved"

HwRights(e) ==
  CASE Arch = "x86_64" ->
         {"READ"} \cup {a \in {"WRITE"} : "W" \in e.bits} \cup {a \in {"USER"} : "U" \in e.bits}
           \cup {a \in {"EXECUTE"} : "NX" \notin e.bits} \cup {a \in {"GLOBAL"} : "G" \in e.bits}
    [] Arch = "riscv64" -> Rv64Flags(e, FALSE).access
    [] Arch = "aarch64" ->
         {"READ"} \cup {a \in {"WRITE"} : "apWrite" \in e.bits} \cup {a \in {"USER"} : "apUser" \in e.bits}
           \cup {a \in {"EXECUTE"} : "XN" \notin e.bits} \cup {a \in {"GLOBAL"} : "nG" \notin e.bits}

\* The tables PAT and MAIR, after reset and as this crate installs them.
X86_PAT_MSR_VALUE == <<"Writeback", "WriteThrough", "WriteCombine", "Uncached",
                       "Writeback", "WriteThrough", "Uncached-", "Uncached">>

A64_MAIR_EL1_VALUE == <<"Writeback", "Uncached", "WriteCombine", "WriteThrough">>

PatReset == <<"Writeback", "WriteThrough", "Uncached-", "Uncached",
              "Writeback", "WriteThrough", "Uncached-", "Uncached">>

MairReset == <<"Uncached", "Uncached", "Uncached", "Uncached">>

Pbmt == <<"Writeback", "WriteCombine", "Uncached">>

HwType(e, pat, mair) ==
  CASE Arch = "x86_64" -> pat[e.index + 1] [] Arch = "riscv64" -> Pbmt[e.index + 1]
    [] Arch = "aarch64" -> mair[e.index + 1]

-------------------------------------------------------------------------------
(* Properties. *)

\* What a format can say of a policy: RISC-V has no write-through, and without
\* Svpbmt one memory type only.
Expressible(cache) ==
  IF Arch = "riscv64" /\ (~fmt.svpbmt \/ cache = "WriteThrough") THEN "Writeback" ELSE cache

Kept(fl) ==
  [access |-> fl.access, cache |-> Expressible(fl.cache),
   share |-> IF Arch = "aarch64" THEN A64Sharing(fl.share) ELSE "Inner"]

\* Types of the variables.
EntryTypeOK ==
  /\ fmt \in Formats /\ lvl \in 1..Meta(fmt.meta).LEVELS
  /\ want.kind \in {"none", "leaf", "table"} /\ pte.index \in 0..7 /\ pte.pa \in Nat

\* However an entry came to be, by a map or by splits, merges, protections and
\* remaps of what was read back each time, the walker reads in it the kind, the
\* address and the flags last asked for (Entry::entry_kind, paddr, flags).
ReadsBack ==
  /\ is_present(pte) <=> want.kind # "none"
  /\ is_present(pte) => entry_kind(pte, lvl) = want.kind /\ pte.pa = want.pa
  /\ want.kind = "leaf" => flags(pte) = Kept(want.fl)

\* The hardware agrees with it: no leaf of any size is walked as a table or trapped
\* as reserved, grants a right that was not asked for or refuses one that was, or
\* is accessed with another memory type once PAT or MAIR is installed; and no
\* table pointer restricts what the leaves under it grant.
HardwareAgrees ==
  /\ HwKind(pte, lvl) = want.kind
  /\ want.kind = "leaf" =>
       /\ HwRights(pte) = want.fl.access
       /\ HwType(pte, X86_PAT_MSR_VALUE, A64_MAIR_EL1_VALUE) = Expressible(want.fl.cache)
  /\ want.kind = "table" /\ Arch = "x86_64" => {"W", "U"} \subseteq pte.bits /\ "NX" \notin pte.bits

\* The levels' indices tile the virtual address from the base page to VA_MAX_BITS.
LevelsTile(m) ==
  /\ \A l \in 1..Meta(m).LEVELS-1 : level_shift(m, l + 1) = level_shift(m, l) + level_index_bits(m, l)
  /\ level_shift(m, Meta(m).LEVELS) + level_index_bits(m, Meta(m).LEVELS) = Meta(m).VA_MAX_BITS
  /\ Meta(m).LEVELS \in 1..MAX_LEVELS

\* A leaf is as large as what its entry translates, and no level takes two sizes.
LeavesMatchLevels(m) ==
  \A l \in 1..Meta(m).LEVELS, size \in PageSizes :
    level_supports_leaf(m, l, size) => size = level_shift(m, l) /\ size = leaf_size_at_level(m, l)

\* 8-byte entries of the widest table fill one base page.
TablesFit(m) == Meta(m).INDEX_BITS + 3 = Meta(m).BASE /\ level_index_bits(m, Meta(m).LEVELS) <= Meta(m).INDEX_BITS

\* Of the addresses with the same indices and offset exactly one is canonical, for
\* every width up to the word's.
PathsHaveOneAddress ==
  \A width \in 1..WordBits : \A path \in 0..Power(2, width)-1 :
    \E v \in 0..Power(2, WordBits)-1 :
      /\ v % Power(2, width) = path /\ canonical_vaddr_is_valid(v, width)
      /\ \A w \in 0..Power(2, WordBits)-1 :
           w % Power(2, width) = path /\ canonical_vaddr_is_valid(w, width) => w = v

\* Each format's geometry is one the walker can index by: no bit of an address is
\* used twice or by nobody, at any level of any granule (the walker masks an index
\* with level_index_bits and bounds a leaf by leaf_size_at_level).
GeometryExact ==
  /\ LevelsTile(fmt.meta) /\ LeavesMatchLevels(fmt.meta) /\ TablesFit(fmt.meta)
  /\ want = Vacant => PathsHaveOneAddress

===============================================================================

---------------------------- MODULE PagingGeometry ----------------------------
(***************************************************************************)
(* The address arithmetic of the walker: table indices, leaf sizes, and    *)
(* the argument checks that src/walker.rs and PagingMetaData perform.      *)
(*                                                                         *)
(* Unit: addresses and sizes are counted in base pages                     *)
(* (PagingMetaData::BASE_PAGE_SIZE), so "aligned to the base page" always  *)
(* holds and an address is a page number.  The address type itself is      *)
(* 0..UMAX-1, wider than the translated space, so that an address outside  *)
(* the translated space has the same table indices as one inside it, as on *)
(* the hardware.                                                           *)
(***************************************************************************)
EXTENDS Integers

CONSTANTS
  E,             \* PagingMetaData::ENTRIES_PER_TABLE
  RootEntries,   \* entries the root indexes: 2^level_index_bits(LEVELS)
  LEVELS,        \* PagingMetaData::LEVELS; level 1 is the innermost table
  Span,          \* Span[l]: base pages one entry of level l covers, 2^level_shift(l)
  LeafLevels,    \* levels at which level_supports_leaf accepts Span[l]
  NamedSizes,    \* sizes that PageSize::from_bytes knows, in base pages
  UMAX,          \* number of values of the address type, in base pages
  SignExtended,  \* TRUE: canonical addresses (CPU formats); FALSE: default check
  PaLimit        \* first physical page the entry format cannot hold

MAX_LEVELS == 6

ASSUME GeometryAssumption ==
  /\ E \in Nat /\ E > 1
  /\ RootEntries \in 1..E
  /\ LEVELS \in 1..MAX_LEVELS
  /\ Span \in [1..LEVELS -> Nat \ {0}]
  /\ Span[1] = 1
  /\ \A l \in 1..LEVELS-1 : Span[l+1] = E * Span[l]
  /\ NamedSizes \subseteq Nat \ {0}
  /\ LeafLevels \subseteq 1..LEVELS
  /\ \A l \in LeafLevels : Span[l] \in NamedSizes
  /\ UMAX \in Nat
  /\ 2 * RootEntries * Span[LEVELS] <= UMAX
  /\ SignExtended \in BOOLEAN
  /\ PaLimit \in Nat
  \* All of these are powers of two, and leaves are at the lowest levels.
  /\ UMAX % (RootEntries * Span[LEVELS]) = 0
  /\ SignExtended => RootEntries % 2 = 0
  /\ \A l \in LeafLevels : PaLimit % Span[l] = 0 /\ (l > 1 => l - 1 \in LeafLevels)

Slots == 0..E-1

\* The translated space, 2^VA_MAX_BITS, in base pages.
VaSize == RootEntries * Span[LEVELS]

index_at(level, v) ==
  (v \div Span[level]) % (IF level = LEVELS THEN RootEntries ELSE E)

vaddr_is_valid(v) ==
  IF SignExtended
  THEN 2 * v < VaSize \/ 2 * (UMAX - v) <= VaSize
  ELSE v < VaSize

ValidPages == {v \in 0..UMAX-1 : vaddr_is_valid(v)}

paddr_is_valid(p) == p < PaLimit

size_is_supported(size) == \E l \in LeafLevels : Span[l] = size

size_to_level(size) == CHOOSE l \in LeafLevels : Span[l] = size

\* A range is a record with fields start and end, end exclusive.
Size(r) == r.end - r.start

Pages(r) == r.start .. r.end - 1

\* leaf_range fails when the end of the leaf is not representable: the last
\* leaf of the address type.
leaf_start(v, level) == v - (v % Span[level])
leaf_range_exists(v, level) == leaf_start(v, level) + Span[level] < UMAX
leaf_range(v, level) ==
  [start |-> leaf_start(v, level), end |-> leaf_start(v, level) + Span[level]]

\* The result of a check is "Ok" or the PagingError it returns, in the order of
\* the early returns.
check_leaf_range(r) ==
  IF Size(r) \notin NamedSizes THEN "UnsupportedSize"
  ELSE IF ~vaddr_is_valid(r.start) \/ ~vaddr_is_valid(r.end - 1) THEN "AddressOutOfRange"
  ELSE IF r.start % Size(r) # 0 THEN "NotAligned"
  ELSE "Ok"

\* "None": the request is not one leaf of the size of the range.
exact_leaf_size(r, pa) ==
  IF Size(r) \notin NamedSizes THEN "None"
  ELSE IF check_leaf_range(r) # "Ok" THEN check_leaf_range(r)
  ELSE IF ~paddr_is_valid(pa) THEN "AddressOutOfRange"
  ELSE IF pa % Size(r) # 0 THEN "NotAligned"
  ELSE IF ~size_is_supported(Size(r)) THEN "UnsupportedSize"
  ELSE "Ok"

===============================================================================

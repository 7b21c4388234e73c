-------------------------- MODULE WalkerContentProofs --------------------------
(***************************************************************************)
(* Proofs about what the tables of PageTableWalker hold: that each entry   *)
(* spans an aligned block of pages, that leaves are such as the format     *)
(* has, that the tree has no needless tables, and that query tells the     *)
(* mappings.  All rest on ContentInv, which is inductive on top of IInv.   *)
(***************************************************************************)
EXTENDS PageTableWalkerProofs

-------------------------------------------------------------------------------
(* Numbers. *)

LEMMA DivMod ==
  ASSUME NEW v \in Int, NEW s \in Int, s > 0
  PROVE  v \div s \in Int /\ v % s \in 0..s-1 /\ v = s * (v \div s) + (v % s)
<1>1. v = s * (v \div s) + (v % s)
  OBVIOUS
<1> QED
  BY <1>1

\* Quotient and remainder are the only ones.
LEMMA DivUnique ==
  ASSUME NEW s \in Int, s > 0, NEW q \in Int, NEW r \in 0..s-1
  PROVE  (s * q + r) \div s = q /\ (s * q + r) % s = r
OBVIOUS

\* Blocks of n * s are blocks of n of the blocks of s.
LEMMA DivDiv ==
  ASSUME NEW v \in Int, NEW s \in Int, s > 0, NEW n \in Int, n > 0
  PROVE  v \div (n * s) = (v \div s) \div n
OBVIOUS

\* Two numbers of the same block of s lie on the same side of a multiple of s.
LEMMA SameSide ==
  ASSUME NEW s \in Int, s > 0, NEW k \in Int, NEW v \in Int, NEW w \in Int,
         v \div s = w \div s, v < k * s
  PROVE  w < k * s
<1>1. v = s * (v \div s) + (v % s) /\ w = s * (v \div s) + (w % s) /\ v % s \in 0..s-1 /\ w % s \in 0..s-1
  BY DivMod
<1>2. v \div s \in Int
  BY DivMod
<1> DEFINE q == v \div s
<1>3. s * q < k * s
  BY <1>1, <1>2
<1> HIDE DEF q
<1>4. q < k
  BY <1>2, <1>3 DEF q
<1>5. q + 1 <= k
  BY <1>2, <1>4 DEF q
<1>6. s * (q + 1) <= k * s
  BY <1>2, <1>5 DEF q
<1>7. s * (q + 1) = s * q + s
  BY <1>2 DEF q
<1>8. w < s * q + s
  BY <1>1 DEF q
<1> QED
  BY <1>2, <1>6, <1>7, <1>8 DEF q

\* Two numbers of the same block of n * s whose blocks of s have the same index there
\* are in the same block of s.
LEMMA SameIndex ==
  ASSUME NEW v \in Int, NEW w \in Int, NEW s \in Int, s > 0, NEW n \in Int, n > 0,
         v \div (n * s) = w \div (n * s), (v \div s) % n = (w \div s) % n
  PROVE  v \div s = w \div s
<1>1. (v \div s) \div n = (w \div s) \div n
  BY DivDiv
<1>2. v \div s \in Int /\ w \div s \in Int
  BY DivMod
<1>3. v \div s = n * ((v \div s) \div n) + ((v \div s) % n)
  BY <1>2, DivMod
<1>4. w \div s = n * ((w \div s) \div n) + ((w \div s) % n)
  BY <1>2, DivMod
<1> QED
  BY <1>1, <1>3, <1>4

\* The block of s around v.
LEMMA BlockIsRange ==
  ASSUME NEW v \in Int, NEW s \in Int, s > 0, NEW w \in Int
  PROVE  w \div s = v \div s <=> w \in v - (v % s) .. v - (v % s) + s - 1
<1> DEFINE q == v \div s
<1>1. q \in Int /\ v - (v % s) = s * q
  BY DivMod
<1>2. w \div s \in Int /\ w = s * (w \div s) + (w % s) /\ w % s \in 0..s-1
  BY DivMod
<1> HIDE DEF q
<1>3. ASSUME w \div s = q PROVE w \in s * q .. s * q + s - 1
  BY <1>1, <1>2, <1>3
<1>4. ASSUME w \in s * q .. s * q + s - 1 PROVE w \div s = q
  <2>1. w - s * q \in 0..s-1 /\ s * q + (w - s * q) = w
    BY <1>1, <1>4
  <2> QED
    BY <1>1, <2>1, DivUnique
<1> QED
  BY <1>1, <1>3, <1>4 DEF q

-------------------------------------------------------------------------------
(* Levels, blocks and validity. *)

\* From level to level the span grows by the number of entries.
LEMMA SpanFacts ==
  /\ \A l \in 1..LEVELS : Span[l] \in Int /\ Span[l] > 0
  /\ \A l \in 1..LEVELS-1 : l \in 1..LEVELS /\ l + 1 \in 1..LEVELS /\ Span[l+1] = E * Span[l]
<1>1. \A l \in 1..LEVELS : Span[l] \in Nat \ {0}
  BY GeometryAssumption
<1>2. \A l \in 1..LEVELS-1 : Span[l+1] = E * Span[l]
  BY GeometryAssumption
<1> QED
  BY <1>1, <1>2, SizesAreNat

\* What an entry of a level spans is a whole number of what one of a lower level does.
LEMMA SpanDivides ==
  ASSUME NEW l \in 1..LEVELS, NEW m \in 1..LEVELS, l <= m
  PROVE  \E k \in Nat : k > 0 /\ Span[m] = k * Span[l]
<1> DEFINE P(x) == \E k \in Nat : k > 0 /\ Span[x] = k * Span[l]
<1>1. P(l)
  <2>1. Span[l] = 1 * Span[l]
    BY SpanFacts
  <2> QED
    BY <2>1
<1>2. ASSUME NEW x \in 1..LEVELS-1, P(x)
      PROVE  P(x+1)
  <2>1. PICK k \in Nat : k > 0 /\ Span[x] = k * Span[l]
    BY <1>2
  <2>2. E * k \in Nat /\ E * k > 0
    BY <2>1, SizesAreNat
  <2>3. E * (k * Span[l]) = (E * k) * Span[l]
    BY SpanFacts, SizesAreNat
  <2>4. Span[x+1] = E * Span[x]
    BY SpanFacts
  <2> QED
    BY <2>1, <2>2, <2>3, <2>4
<1> HIDE DEF P
<1>3. LEVELS \in 1..6
  BY GeometryAssumption DEF MAX_LEVELS
<1>4. P(m)
  BY <1>1, <1>2, <1>3
<1> QED
  BY <1>4 DEF P

\* The translated space and the address type are whole numbers of it; where it has
\* two halves, of a half.
LEMMA VaSizeFacts ==
  /\ VaSize \in Int /\ VaSize > 0 /\ 2 * VaSize <= UMAX /\ UMAX \in Nat
  /\ RootEntries \in Int /\ RootEntries > 0
  /\ UMAX = VaSize * (UMAX \div VaSize)
  /\ SignExtended => RootEntries = 2 * (RootEntries \div 2) /\ RootEntries \div 2 \in Int
                     /\ RootEntries \div 2 > 0
<1>1. RootEntries \in Int /\ RootEntries > 0 /\ UMAX \in Nat
  BY GeometryAssumption
<1>2. LEVELS \in 1..LEVELS
  BY SizesAreNat
<1>3. VaSize \in Int /\ VaSize > 0
  BY <1>1, <1>2, SpanFacts DEF VaSize
<1>4. 2 * VaSize <= UMAX
  <2>1. 2 * RootEntries * Span[LEVELS] <= UMAX
    BY GeometryAssumption
  <2>2. 2 * RootEntries * Span[LEVELS] = 2 * (RootEntries * Span[LEVELS])
    BY <1>1, <1>2, SpanFacts
  <2> QED
    BY <2>1, <2>2 DEF VaSize
<1>5. UMAX % VaSize = 0
  BY GeometryAssumption DEF VaSize
<1>6. UMAX = VaSize * (UMAX \div VaSize)
  BY <1>1, <1>3, <1>5, DivMod
<1>7. ASSUME SignExtended
      PROVE  RootEntries = 2 * (RootEntries \div 2) /\ RootEntries \div 2 \in Int
             /\ RootEntries \div 2 > 0
  <2>1. RootEntries % 2 = 0
    BY <1>7, GeometryAssumption
  <2> QED
    BY <1>1, <2>1
<1> QED
  BY <1>1, <1>3, <1>4, <1>6, <1>7

\* What it is to be a valid page.
LEMMA IsValidPage ==
  ASSUME NEW w \in Int
  PROVE  /\ ~SignExtended => (w \in ValidPages <=> 0 <= w /\ w < VaSize)
         /\ SignExtended => (w \in ValidPages <=>
              0 <= w /\ w < UMAX /\ (2 * w < VaSize \/ 2 * (UMAX - w) <= VaSize))
BY VaSizeFacts DEF ValidPages, vaddr_is_valid

\* Validity does not change inside a block of a level.
LEMMA BlockValid ==
  ASSUME NEW l \in 1..LEVELS, NEW v \in ValidPages, NEW w \in Int, w \div Span[l] = v \div Span[l]
  PROVE  w \in ValidPages
<1> DEFINE s == Span[l]
<1>1. s \in Int /\ s > 0 /\ v \in Int /\ 0 <= v /\ v < UMAX /\ UMAX \in Int /\ VaSize \in Int
  BY SpanFacts, VaSizeFacts DEF ValidPages
<1>2. PICK k \in Nat : k > 0 /\ Span[LEVELS] = k * Span[l]
  BY SpanDivides, SizesAreNat
<1> DEFINE c == RootEntries * k
<1>3. c \in Int /\ VaSize = c * s
  <2>1. RootEntries * (k * s) = (RootEntries * k) * s
    BY <1>1, VaSizeFacts
  <2> QED
    BY <1>2, <2>1, VaSizeFacts DEF VaSize
<1>4. PICK u \in Int : UMAX = u * s
  <2> DEFINE d == UMAX \div VaSize
  <2>1. d \in Int
    BY VaSizeFacts, DivMod
  <2>2. UMAX = (c * s) * d
    BY <1>3, VaSizeFacts
  <2> HIDE DEF d, c, s
  <2>3. (c * s) * d = (c * d) * s /\ c * d \in Int
    BY <1>1, <1>3, <2>1
  <2> QED
    BY <2>2, <2>3
<1>5. ASSUME SignExtended
      PROVE  \E h \in Int : VaSize = 2 * (h * s)
  <2> DEFINE r == RootEntries \div 2
  <2>1. r \in Int /\ RootEntries = 2 * r
    BY <1>5, VaSizeFacts
  <2> HIDE DEF r, s
  <2>2. ((2 * r) * k) * s = 2 * ((r * k) * s) /\ r * k \in Int
    BY <1>1, <2>1
  <2> QED
    BY <1>3, <2>1, <2>2
<1>6. v \div s = w \div s
  OBVIOUS
<1> HIDE DEF s, c
<1>7. ASSUME NEW t \in Int
      PROVE  w < t * s <=> v < t * s
  BY <1>1, <1>6, SameSide
<1>8. 0 <= w /\ w < UMAX
  <2>1. w < 0 * s <=> v < 0 * s
    BY <1>7
  <2>2. 0 * s = 0
    BY <1>1
  <2>3. w < UMAX
    BY <1>1, <1>4, <1>7
  <2> QED
    BY <1>1, <2>1, <2>2, <2>3
<1>9. CASE ~SignExtended
  <2>1. v < VaSize
    BY <1>1, <1>9, IsValidPage
  <2>2. w < VaSize
    BY <1>3, <1>7, <2>1
  <2> QED
    BY <1>8, <1>9, <2>2, IsValidPage
<1>10. CASE SignExtended
  <2>1. PICK h \in Int : VaSize = 2 * (h * s)
    BY <1>5, <1>10
  <2> DEFINE x == h * s
             y == (u - h) * s
  <2>2. x \in Int /\ y \in Int /\ VaSize = 2 * x /\ y = UMAX - x
    BY <1>1, <1>4, <2>1
  <2>3. w < x <=> v < x
    BY <1>7
  <2>4. w < y <=> v < y
    BY <1>7
  <2> HIDE DEF x, y
  <2>5. 2 * v < VaSize \/ 2 * (UMAX - v) <= VaSize
    BY <1>1, <1>10, IsValidPage
  <2>6. 2 * w < VaSize \/ 2 * (UMAX - w) <= VaSize
    BY <1>1, <2>2, <2>3, <2>4, <2>5
  <2> QED
    BY <1>8, <1>10, <2>6, IsValidPage
<1> QED
  BY <1>9, <1>10, GeometryAssumption

\* Below a multiple of s means below its block.
LEMMA DivBelow ==
  ASSUME NEW s \in Int, s > 0, NEW v \in Int, NEW t \in Int
  PROVE  v < t * s <=> v \div s < t
<1> DEFINE q == v \div s
<1>1. q \in Int /\ v = s * q + (v % s) /\ v % s \in 0..s-1
  BY DivMod
<1> HIDE DEF q
<1>2. ASSUME q < t PROVE v < t * s
  <2>1. s * (q + 1) <= s * t
    BY <1>1, <1>2
  <2>2. s * (q + 1) = s * q + s
    BY <1>1
  <2>3. v < s * q + s
    BY <1>1
  <2>4. s * t = t * s /\ s * t \in Int
    OBVIOUS
  <2>5. s * q \in Int
    BY <1>1
  <2> QED
    BY <2>1, <2>2, <2>3, <2>4, <2>5
<1>3. ASSUME t <= q PROVE t * s <= v
  <2>1. s * t <= s * q
    BY <1>1, <1>3
  <2>4. s * t = t * s
    OBVIOUS
  <2> QED
    BY <1>1, <2>1, <2>4
<1> QED
  BY <1>1, <1>2, <1>3 DEF q

\* The root has an entry for each block of its level: no two share one.
LEMMA RootIndex ==
  ASSUME NEW v \in ValidPages, NEW w \in ValidPages, index_at(LEVELS, v) = index_at(LEVELS, w)
  PROVE  v \div Span[LEVELS] = w \div Span[LEVELS]
<1> DEFINE s == Span[LEVELS]
           R == RootEntries
           h == R \div 2
           d == UMAX \div VaSize
           c == R * (d - 1)
<1>1. s \in Int /\ s > 0 /\ v \in Int /\ 0 <= v /\ v < UMAX /\ w \in Int /\ 0 <= w /\ w < UMAX
      /\ R \in Int /\ R > 0 /\ d \in Int /\ UMAX \in Int
  BY SpanFacts, SizesAreNat, VaSizeFacts, DivMod DEF ValidPages
<1>2. VaSize = R * s /\ UMAX = VaSize * d
  BY VaSizeFacts DEF VaSize
<1>3. (v \div s) % R = (w \div s) % R
  BY DEF index_at
<1>4. SignExtended => R = 2 * h /\ h \in Int /\ h > 0
  BY VaSizeFacts
<1> HIDE DEF s, R, h, d
<1>5. c \in Int /\ UMAX = (c + R) * s
  <2>1. R * (d - 1) + R = R * d
    BY <1>1
  <2>2. (R * s) * d = (R * d) * s
    BY <1>1
  <2> QED
    BY <1>1, <1>2, <2>1, <2>2
<1>6. ASSUME NEW x \in ValidPages, x \in Int, 0 <= x, x < UMAX
      PROVE  LET a == x \div s IN
             /\ a \in Int
             /\ ~SignExtended => a \in 0..R-1
             /\ SignExtended => a \in 0..h-1 \/ a - c \in h..R-1
  <2> DEFINE a == x \div s
  <2>1. a \in Int
    BY <1>1, <1>6, DivMod
  <2>2. \A t \in Int : x < t * s <=> a < t
    BY <1>1, <1>6, DivBelow
  <2> HIDE DEF a, c
  <2>3. ~(a < 0)
    <3>1. 0 * s = 0
      BY <1>1
    <3> QED
      BY <1>6, <2>2, <3>1
  <2>4. a < c + R
    <3>1. c + R \in Int
      BY <1>1, <1>5
    <3> QED
      BY <1>5, <1>6, <2>2, <3>1
  <2>5. ASSUME ~SignExtended PROVE a < R
    BY <1>1, <1>2, <1>6, <2>2, <2>5, IsValidPage
  <2>6. ASSUME SignExtended PROVE a < h \/ ~(a < c + h)
    <3>1. h \in Int /\ R = 2 * h /\ c \in Int
      BY <1>4, <1>5, <2>6
    <3>2. VaSize = 2 * (h * s) /\ h * s \in Int
      BY <1>1, <1>2, <3>1
    <3>3. UMAX - h * s = (c + h) * s /\ c + h \in Int
      BY <1>1, <1>5, <3>1
    <3>4. 2 * x < VaSize \/ 2 * (UMAX - x) <= VaSize
      BY <1>6, <2>6, IsValidPage
    <3>5. x < h * s \/ ~(x < UMAX - h * s)
      BY <1>1, <1>6, <3>2, <3>4
    <3> QED
      BY <2>2, <3>1, <3>3, <3>5
  <2> QED
    BY <1>1, <1>4, <1>5, <2>1, <2>3, <2>4, <2>5, <2>6 DEF a
<1>7. ASSUME NEW a \in Int
      PROVE  /\ a \in 0..R-1 => a % R = a
             /\ a - c \in 0..R-1 => a % R = a - c
  <2>1. a = R * 0 + a /\ a = R * (d - 1) + (a - c)
    BY <1>1
  <2>2. R * 0 + a = a
    BY <1>1
  <2>3. a \in 0..R-1 => a % R = a
    BY <1>1, <2>2, DivUnique
  <2>4. a - c \in 0..R-1 => (R * (d - 1) + (a - c)) % R = a - c
    <3>1. d - 1 \in Int
      BY <1>1
    <3> HIDE DEF c
    <3> QED
      BY <1>1, <3>1, DivUnique
  <2> QED
    BY <2>1, <2>3, <2>4
<1> HIDE DEF c
<1> DEFINE a == v \div s
           b == w \div s
<1>8. /\ a \in Int
      /\ ~SignExtended => a \in 0..R-1
      /\ SignExtended => a \in 0..h-1 \/ a - c \in h..R-1
  BY <1>1, <1>6
<1>9. /\ b \in Int
      /\ ~SignExtended => b \in 0..R-1
      /\ SignExtended => b \in 0..h-1 \/ b - c \in h..R-1
  BY <1>1, <1>6
<1>10. a % R = b % R
  BY <1>3
<1> HIDE DEF a, b
<1>11. ASSUME ~SignExtended PROVE a = b
  BY <1>7, <1>8, <1>9, <1>10, <1>11
<1>12. ASSUME SignExtended PROVE a = b
  <2>1. h \in Int /\ R = 2 * h /\ h > 0
    BY <1>4, <1>12
  <2>2. \/ a % R = a /\ a \in 0..h-1
        \/ a % R = a - c /\ a - c \in h..R-1
    BY <1>1, <1>7, <1>8, <1>12, <2>1
  <2>3. \/ b % R = b /\ b \in 0..h-1
        \/ b % R = b - c /\ b - c \in h..R-1
    BY <1>1, <1>7, <1>9, <1>12, <2>1
  <2> QED
    BY <1>5, <1>8, <1>9, <1>10, <2>1, <2>2, <2>3
<1>13. a = b
  BY <1>11, <1>12
<1> QED
  BY <1>13 DEF a, b, s

-------------------------------------------------------------------------------
(* Tables serve aligned blocks of pages. *)

\* A set of pages that a table of level l may serve.
Block(C, l) ==
  IF l = LEVELS THEN C = ValidPages
  ELSE \A v \in C, w \in ValidPages : w \in C <=> w \div Span[l+1] = v \div Span[l+1]

\* What an entry of such a table serves is a block of the entry's span.
LEMMA EntryBlock ==
  ASSUME NEW l \in 1..LEVELS, NEW C \in SUBSET ValidPages, Block(C, l), NEW v \in C, NEW w \in Int
  PROVE  w \in C /\ index_at(l, w) = index_at(l, v) <=> w \div Span[l] = v \div Span[l]
<1> DEFINE s == Span[l]
<1>1. s \in Int /\ s > 0 /\ v \in ValidPages /\ v \in Int
  BY SpanFacts, PageIsNat
<1>2. ASSUME w \div s = v \div s PROVE index_at(l, w) = index_at(l, v)
  BY <1>2 DEF index_at
<1>3. ASSUME w \div s = v \div s PROVE w \in ValidPages
  BY <1>1, <1>3, BlockValid
<1>4. CASE l = LEVELS
  <2>1. C = ValidPages
    BY <1>4 DEF Block
  <2>2. ASSUME w \in ValidPages, index_at(l, w) = index_at(l, v) PROVE w \div s = v \div s
    BY <1>1, <1>4, <2>2, RootIndex
  <2> QED
    BY <1>2, <1>3, <2>1, <2>2
<1>5. CASE l # LEVELS
  <2>1. l \in 1..LEVELS-1 /\ E \in Int /\ E > 0
    BY <1>5, SizesAreNat
  <2>2. Span[l+1] = E * s
    BY <2>1, SpanFacts
  <2>3. \A x \in ValidPages : x \in C <=> x \div (E * s) = v \div (E * s)
    BY <1>5, <2>2 DEF Block
  <2>4. ASSUME w \div s = v \div s PROVE w \div (E * s) = v \div (E * s)
    BY <1>1, <2>1, <2>4, DivDiv
  <2>5. index_at(l, w) = index_at(l, v) <=> (w \div s) % E = (v \div s) % E
    BY <1>5 DEF index_at
  <2>6. ASSUME w \in C, index_at(l, w) = index_at(l, v) PROVE w \div s = v \div s
    <3>1. w \div (E * s) = v \div (E * s)
      BY <2>3, <2>6
    <3>2. (w \div s) % E = (v \div s) % E
      BY <2>5, <2>6
    <3> HIDE DEF s
    <3> QED
      BY <1>1, <2>1, <3>1, <3>2, SameIndex
  <2> QED
    BY <1>2, <1>3, <2>3, <2>4, <2>6
<1> QED
  BY <1>4, <1>5

\* ... and that block is the range that leaf_range gives.
LEMMA EntryPages ==
  ASSUME NEW l \in 1..LEVELS, NEW C \in SUBSET ValidPages, Block(C, l), NEW v \in C
  PROVE  {w \in C : index_at(l, w) = index_at(l, v)} =
           leaf_start(v, l) .. leaf_start(v, l) + Span[l] - 1
<1>1. Span[l] \in Int /\ Span[l] > 0 /\ v \in Int
  BY SpanFacts, PageIsNat
<1>2. leaf_start(v, l) \in Int
  BY <1>1, DivMod DEF leaf_start
<1>3. ASSUME NEW w \in Int
      PROVE  w \in C /\ index_at(l, w) = index_at(l, v) <=>
               w \in leaf_start(v, l) .. leaf_start(v, l) + Span[l] - 1
  <2>1. w \in C /\ index_at(l, w) = index_at(l, v) <=> w \div Span[l] = v \div Span[l]
    BY EntryBlock
  <2>2. w \div Span[l] = v \div Span[l] <=> w \in v - (v % Span[l]) .. v - (v % Span[l]) + Span[l] - 1
    BY <1>1, BlockIsRange
  <2> QED
    BY <2>1, <2>2 DEF leaf_start
<1>4. \A w \in C : w \in Int
  BY PageIsNat
<1> QED
  BY <1>2, <1>3, <1>4

\* Below the root the entries of a table divide its block: entry i has the i-th part.
LEMMA EntryRange ==
  ASSUME NEW l \in 1..LEVELS-1, NEW C \in SUBSET ValidPages, Block(C, l), NEW v \in C, NEW i \in Slots
  PROVE  LET b == leaf_start(v, l + 1) + i * Span[l] IN
         /\ b \in C /\ b \in Nat /\ index_at(l, b) = i
         /\ {w \in C : index_at(l, w) = i} = b .. b + Span[l] - 1
<1> DEFINE s == Span[l]
           q == v \div (E * s)
           b == leaf_start(v, l + 1) + i * s
<1>1. /\ l \in 1..LEVELS /\ l + 1 \in 1..LEVELS /\ l # LEVELS /\ Span[l+1] = E * s
      /\ s \in Int /\ s > 0 /\ E \in Int /\ E > 1 /\ i \in Int /\ 0 <= i /\ i <= E - 1
      /\ v \in ValidPages /\ v \in Int
  BY SpanFacts, SizesAreNat, PageIsNat DEF Slots
<1>2. E * s \in Int /\ E * s > 0
  <2> HIDE DEF s
  <2> QED
    BY <1>1
<1>3. q \in Int /\ leaf_start(v, l + 1) = (E * s) * q
  <2>1. leaf_start(v, l + 1) = v - (v % (E * s))
    BY <1>1 DEF leaf_start
  <2>2. q \in Int /\ v % (E * s) \in 0 .. E * s - 1 /\ v = (E * s) * q + (v % (E * s))
    BY <1>1, <1>2, DivMod
  <2>3. (E * s) * q \in Int /\ v % (E * s) \in Int
    BY <1>2, <2>2
  <2> HIDE DEF q, s
  <2>4. \A x, y, z \in Int : x = y + z => x - z = y
    OBVIOUS
  <2> QED
    BY <1>1, <2>1, <2>2, <2>3, <2>4
<1> HIDE DEF s, q
<1>4. i * s \in 0 .. E * s - 1
  <2>1. i * s <= (E - 1) * s /\ 0 <= i * s
    BY <1>1
  <2>2. (E - 1) * s = E * s - s
    BY <1>1
  <2> QED
    BY <1>1, <1>2, <2>1, <2>2
<1>5. b = (E * s) * q + i * s /\ b \in Int
  BY <1>2, <1>3, <1>4
<1>6. b = s * (E * q + i) + 0 /\ E * q + i \in Int
  <2>1. (E * s) * q = s * (E * q) /\ i * s = s * i
    BY <1>1, <1>3
  <2>2. s * (E * q + i) = s * (E * q) + s * i
    BY <1>1, <1>3
  <2> QED
    BY <1>1, <1>3, <1>5, <2>1, <2>2
<1>7. b \div (E * s) = q
  BY <1>2, <1>3, <1>4, <1>5, DivUnique
<1>8. b \div s = E * q + i /\ b % s = 0
  BY <1>1, <1>6, DivUnique
<1>9. (E * q + i) % E = i
  BY <1>1, <1>3, DivUnique
<1> HIDE DEF b
<1>10. b \div Span[l+1] = v \div Span[l+1]
  BY <1>1, <1>7 DEF q
<1>11. b \in ValidPages
  BY <1>1, <1>5, <1>10, BlockValid
<1>12. b \in C
  BY <1>1, <1>10, <1>11 DEF Block
<1>13. index_at(l, b) = i
  BY <1>1, <1>8, <1>9 DEF index_at, s
<1>14. leaf_start(b, l) = b
  BY <1>5, <1>8 DEF leaf_start, s
<1>15. {w \in C : index_at(l, w) = i} = b .. b + Span[l] - 1
  BY <1>1, <1>12, <1>13, <1>14, EntryPages
<1> QED
  BY <1>11, <1>12, <1>13, <1>15, PageIsNat DEF b, s

\* A table behind an entry serves a block if the table above it does.
LEMMA BlockBelow ==
  ASSUME NEW l \in 1..LEVELS, NEW C \in SUBSET ValidPages, Block(C, l), l > 1,
         NEW v \in C, NEW D, D = {w \in C : index_at(l, w) = index_at(l, v)}
  PROVE  Block(D, l - 1) /\ D \in SUBSET ValidPages
<1>1. \A x \in D : x \in C /\ x \in Int /\ x \in ValidPages /\ x \div Span[l] = v \div Span[l]
  BY EntryBlock, PageIsNat
<1>2. \A x \in ValidPages : x \in D <=> x \div Span[l] = v \div Span[l]
  BY EntryBlock, PageIsNat
<1>3. l - 1 # LEVELS /\ (l - 1) + 1 = l
  BY SizesAreNat
<1> QED
  BY <1>1, <1>2, <1>3 DEF Block

\* Every linked table serves a block, the root all pages.
LEMMA TableBlock ==
  ASSUME IInv, BlockInv, NEW f \in Linked
  PROVE  /\ f \in Frames /\ f \in Tables /\ lev[f] \in 1..LEVELS /\ cover[f] \in SUBSET ValidPages
         /\ Block(cover[f], lev[f])
<1>1. f \in Frames /\ f \in Tables /\ lev[f] \in 1..LEVELS /\ cover[f] \in SUBSET ValidPages
  BY SizesAreNat DEF Linked, Tables, IInv, TypeOK
<1>2. CASE lev[f] = LEVELS
  <2>1. root # NoFrame
    BY <1>1 DEF IInv, RootInv
  <2>2. root \in Linked /\ lev[root] = LEVELS /\ cover[root] = ValidPages
    BY <2>1 DEF IInv, RootInv
  <2>3. PICK v : v \in cover[f]
    BY <1>1 DEF IInv, CoverInv
  <2>4. f = root
    BY <1>1, <1>2, <2>2, <2>3 DEF IInv, OnePath
  <2> QED
    BY <1>1, <1>2, <2>2, <2>4 DEF Block
<1>3. CASE lev[f] # LEVELS
  <2>1. lev[f] < LEVELS
    BY <1>1, <1>3, SizesAreNat
  <2> QED
    BY <1>1, <1>3, <2>1 DEF BlockInv, Block
<1> QED
  BY <1>1, <1>2, <1>3

\* The pages of an entry are the range of a leaf there.
LEMMA SlotPages ==
  ASSUME IInv, BlockInv, NEW f \in Linked, NEW v \in cover[f]
  PROVE  SlotCover(f, index_at(lev[f], v)) =
           leaf_start(v, lev[f]) .. leaf_start(v, lev[f]) + Span[lev[f]] - 1
BY TableBlock, EntryPages DEF SlotCover

\* What the steps do to the history of tables.
LEMMA GhostSteps ==
  ASSUME [Next]_vars
  PROVE  \/ UNCHANGED <<lev, cover>>
         \/ \E f \in Frames : /\ try_new(f)
                              /\ lev' = [lev EXCEPT ![f] = LEVELS]
                              /\ cover' = [cover EXCEPT ![f] = ValidPages]
         \/ adopt
         \/ pc = "walk" /\ \E f \in Frames :
              /\ lev' = [lev EXCEPT ![f] = lvl - 1]
              /\ cover' = [cover EXCEPT ![f] = SlotCover(cur, Idx)]
         \/ \E f : /\ lev' = [lev EXCEPT ![f] = 0]
                   /\ cover' = [cover EXCEPT ![f] = {}]
<1>1. CASE UNCHANGED vars
  BY <1>1 DEF vars, ghosts
<1>2. CASE \E f \in Frames : try_new(f)
  BY <1>2 DEF try_new, alloc_table_frame
<1>3. CASE adopt \/ (\E r \in Requests : Call(r)) \/ DropStart \/ DropScan \/ Flush \/ Return
  BY <1>3 DEF Call, DropStart, DropScan, Flush, Return, ghosts
<1>4. CASE MapDescend \/ ExactDescend \/ MergeDescend
  BY <1>4 DEF MapDescend, ExactDescend, MergeDescend, StepDown, ghosts
<1>5. CASE MapRefuse \/ ExactRefuse \/ MergeRefuse \/ MergeNothing
           \/ \E e \in AllocErrors : MapStarve(e) \/ SplitStarve(e)
  BY <1>5 DEF MapRefuse, ExactRefuse, MergeRefuse, MergeNothing, MapStarve, SplitStarve, Fail, ghosts
<1>6. CASE MapInstall \/ Rewrite \/ UnmapClear \/ ReclaimStop \/ ReclaimUnlink \/ SplitSwap \/ MergeWrite
  BY <1>6 DEF MapInstall, Rewrite, UnmapClear, ReclaimStop, ReclaimUnlink, SplitSwap, MergeWrite, ghosts
<1>7. CASE \E f \in Frames : MapGrow(f) \/ SplitBuild(f)
  BY <1>7 DEF MapGrow, SplitBuild, alloc_table_frame, Mapping, AtLeaf, Exact
<1>8. CASE ReclaimFree \/ MergeFree \/ DropFree
  BY <1>8 DEF ReclaimFree, MergeFree, DropFree, dealloc_table_frame
<1> QED
  BY <1>1, <1>2, <1>3, <1>4, <1>5, <1>6, <1>7, <1>8 DEF Next, Step

\* The blocks of an adopted tree, level by level from the root.
LEMMA BootBlocks ==
  ASSUME BootFrames # {}, NEW f \in BootFrames
  PROVE  Block(BootTree.cover[f], BootTree.lev[f])
<1> DEFINE P(l) == \A t \in BootFrames : BootTree.lev[t] = l => Block(BootTree.cover[t], l)
<1>1. /\ BootTree.lev \in [BootFrames -> 1..LEVELS]
      /\ BootTree.cover \in [BootFrames -> (SUBSET ValidPages) \ {{}}]
      /\ BootTree.root \in BootFrames
      /\ BootTree.lev[BootTree.root] = LEVELS /\ BootTree.cover[BootTree.root] = ValidPages
  BY BootAssumption
<1>2. P(LEVELS)
  <2> SUFFICES ASSUME NEW t \in BootFrames, BootTree.lev[t] = LEVELS
               PROVE  BootTree.cover[t] = ValidPages
    BY DEF Block
  <2>1. PICK v : v \in BootTree.cover[t]
    BY <1>1
  <2>2. v \in BootTree.cover[t] \cap BootTree.cover[BootTree.root]
    BY <1>1, <2>1
  <2>3. t = BootTree.root
    BY <1>1, <2>2, BootAssumption
  <2> QED
    BY <1>1, <2>3
<1>3. ASSUME NEW l \in 1..LEVELS-1, P(l+1)
      PROVE  P(l)
  <2> SUFFICES ASSUME NEW t \in BootFrames, BootTree.lev[t] = l
               PROVE  Block(BootTree.cover[t], l)
    OBVIOUS
  <2>1. l # LEVELS /\ l \in Int /\ l + 1 \in 1..LEVELS /\ l + 1 > 1 /\ (l + 1) - 1 = l
    BY SizesAreNat
  <2>2. t # BootTree.root
    BY <1>1, <2>1
  <2>3. PICK g \in BootFrames, i \in Slots : BootLinks(g, i) /\ BootTree.mem[g][i].to = t
    BY <2>2, BootAssumption
  <2>4. BootTree.lev[t] = BootTree.lev[g] - 1 /\ BootTree.cover[t] = BootCover(g, i)
    BY <2>3, BootAssumption
  <2>5. BootTree.lev[g] = l + 1
    <3>1. BootTree.lev[g] \in 1..LEVELS
      BY <1>1
    <3> QED
      BY <2>1, <2>4, <3>1
  <2>6. Block(BootTree.cover[g], l + 1) /\ BootTree.cover[g] \in SUBSET ValidPages
    BY <1>1, <1>3, <2>5
  <2>7. PICK v : v \in BootTree.cover[t]
    BY <1>1
  <2>8. v \in BootTree.cover[g] /\ index_at(l + 1, v) = i
    BY <2>4, <2>5, <2>7 DEF BootCover
  <2>9. BootTree.cover[t] = {w \in BootTree.cover[g] : index_at(l + 1, w) = index_at(l + 1, v)}
    BY <2>4, <2>5, <2>8 DEF BootCover
  <2>10. Block(BootTree.cover[t], (l + 1) - 1)
    BY <2>1, <2>6, <2>8, <2>9, BlockBelow
  <2> QED
    BY <2>1, <2>10
<1> HIDE DEF P
<1>4. LEVELS \in 1..6
  BY GeometryAssumption DEF MAX_LEVELS
<1>5. \A l \in 1..LEVELS : P(l)
  BY <1>2, <1>3, <1>4
<1>6. BootTree.lev[f] \in 1..LEVELS
  BY <1>1
<1> QED
  BY <1>5, <1>6 DEF P

\* BlockInv is preserved: tables are linked behind entries of tables that have it.
LEMMA BlockStep ==
  ASSUME IInv, BlockInv, [Next]_vars
  PROVE  BlockInv'
<1> SUFFICES ASSUME NEW f \in Tables', lev'[f] < LEVELS, NEW v \in cover'[f], NEW w \in ValidPages
             PROVE  w \in cover'[f] <=> w \div Span[lev'[f]+1] = v \div Span[lev'[f]+1]
  BY DEF BlockInv
<1>1. f \in Frames /\ lev'[f] > 0 /\ lev \in [Frames -> 0..LEVELS]
      /\ cover \in [Frames -> SUBSET ValidPages]
  BY DEF Tables, IInv, TypeOK
<1>2. ASSUME lev'[f] = lev[f], cover'[f] = cover[f]
      PROVE  w \in cover'[f] <=> w \div Span[lev'[f]+1] = v \div Span[lev'[f]+1]
  BY <1>1, <1>2 DEF BlockInv, Tables
<1>3. CASE UNCHANGED <<lev, cover>>
  BY <1>2, <1>3
<1>4. ASSUME NEW t \in Frames, lev' = [lev EXCEPT ![t] = LEVELS], cover' = [cover EXCEPT ![t] = ValidPages]
      PROVE  w \in cover'[f] <=> w \div Span[lev'[f]+1] = v \div Span[lev'[f]+1]
  <2>1. f # t
    BY <1>1, <1>4, SizesAreNat
  <2> QED
    BY <1>1, <1>2, <1>4, <2>1
<1>5. CASE adopt
  <2>1. /\ BootFrames # {}
        /\ lev' = [g \in Frames |-> IF g \in BootFrames THEN BootTree.lev[g] ELSE 0]
        /\ cover' = [g \in Frames |-> IF g \in BootFrames THEN BootTree.cover[g] ELSE {}]
    BY <1>5 DEF adopt
  <2>2. f \in BootFrames /\ lev'[f] = BootTree.lev[f] /\ cover'[f] = BootTree.cover[f]
    BY <1>1, <2>1
  <2>3. Block(cover'[f], lev'[f]) /\ lev'[f] # LEVELS
    BY <2>1, <2>2, BootBlocks, SizesAreNat
  <2> QED
    BY <2>3 DEF Block
<1>6. ASSUME pc = "walk", NEW t \in Frames, lev' = [lev EXCEPT ![t] = lvl - 1],
             cover' = [cover EXCEPT ![t] = SlotCover(cur, Idx)]
      PROVE  w \in cover'[f] <=> w \div Span[lev'[f]+1] = v \div Span[lev'[f]+1]
  <2>1. CASE f = t
    <3>1. /\ lev'[f] = lvl - 1 /\ cover'[f] = SlotCover(cur, Idx) /\ lvl \in 1..LEVELS
          /\ lev[cur] = lvl /\ cur \in Linked /\ req.start \in cover[cur]
      BY <1>1, <1>6, <2>1, AtSlot
    <3>2. Block(cover[cur], lvl) /\ cover[cur] \in SUBSET ValidPages
      BY <3>1, TableBlock
    <3>3. cover'[f] = {x \in cover[cur] : index_at(lvl, x) = index_at(lvl, req.start)}
      BY <3>1 DEF SlotCover, Idx
    <3>4. lvl > 1
      BY <1>1, <3>1
    <3>5. Block(cover'[f], lvl - 1)
      BY <3>1, <3>2, <3>3, <3>4, BlockBelow
    <3>6. lvl - 1 # LEVELS
      BY <3>1, SizesAreNat
    <3> QED
      BY <3>1, <3>5, <3>6 DEF Block
  <2>2. CASE f # t
    BY <1>1, <1>2, <1>6, <2>2
  <2> QED
    BY <2>1, <2>2
<1>7. ASSUME NEW t, lev' = [lev EXCEPT ![t] = 0], cover' = [cover EXCEPT ![t] = {}]
      PROVE  w \in cover'[f] <=> w \div Span[lev'[f]+1] = v \div Span[lev'[f]+1]
  <2>1. f # t
    BY <1>1, <1>7
  <2> QED
    BY <1>1, <1>2, <1>7, <2>1
<1> QED
  BY <1>3, <1>4, <1>5, <1>6, <1>7, GhostSteps

-------------------------------------------------------------------------------
(* Arguments that were checked, and leaves. *)

\* The level of a size that some level has.
LEMMA LevelOfSize ==
  ASSUME NEW n, size_is_supported(n)
  PROVE  size_to_level(n) \in LeafLevels /\ size_to_level(n) \in 1..LEVELS /\ Span[size_to_level(n)] = n
<1>1. size_to_level(n) \in LeafLevels /\ Span[size_to_level(n)] = n
  BY DEF size_is_supported, size_to_level
<1> QED
  BY <1>1, GeometryAssumption

\* A leaf that fits the physical addresses leaves room for all of its pages.
LEMMA LeafFits ==
  ASSUME NEW l \in LeafLevels, l > 1, NEW p \in Nat, p % Span[l] = 0, paddr_is_valid(p), NEW i \in Slots
  PROVE  /\ l - 1 \in LeafLevels
         /\ p + i * Span[l-1] \in Nat
         /\ (p + i * Span[l-1]) % Span[l-1] = 0
         /\ paddr_is_valid(p + i * Span[l-1])
<1> DEFINE s == Span[l-1]
           q == p \div Span[l]
           k == PaLimit \div Span[l]
<1>1. l - 1 \in LeafLevels /\ PaLimit % Span[l] = 0 /\ l \in 1..LEVELS /\ PaLimit \in Int
  BY GeometryAssumption
<1>2. l - 1 \in 1..LEVELS-1
  BY <1>1, SizesAreNat
<1>3. Span[(l - 1) + 1] = E * Span[l-1] /\ Span[l-1] \in Int /\ Span[l-1] > 0
  BY <1>2, SpanFacts
<1>4. Span[l] = E * s /\ s \in Int /\ s > 0 /\ E \in Int /\ E > 1
  BY <1>1, <1>3, SizesAreNat
<1> HIDE DEF s
<1>5. E * s \in Int /\ E * s > 0
  BY <1>4
<1>6. q \in Int /\ p = (E * s) * q /\ k \in Int /\ PaLimit = (E * s) * k
  BY <1>1, <1>4, <1>5, DivMod
<1> HIDE DEF q, k
<1>7. (E * s) * q = s * (E * q)
  BY <1>4, <1>6
<1>8. i \in Int /\ 0 <= i /\ i <= E - 1
  BY SizesAreNat DEF Slots
<1>9. p + i * s = s * (E * q + i) /\ E * q + i \in Int
  <2>1. s * (E * q + i) = s * (E * q) + s * i
    BY <1>4, <1>6, <1>8
  <2> QED
    BY <1>4, <1>6, <1>7, <1>8, <2>1
<1>10. (p + i * s) % s = 0
  <2>1. 0 \in 0..s-1 /\ s * (E * q + i) + 0 = s * (E * q + i)
    BY <1>4, <1>9
  <2> QED
    BY <1>4, <1>9, <2>1, DivUnique
<1>11. p + i * s \in Nat
  <2>1. i * s \in Nat
    BY <1>4, <1>8
  <2> QED
    BY <2>1
<1>12. p + i * s < PaLimit
  <2>1. (E * s) * q < (E * s) * k
    BY <1>6 DEF paddr_is_valid
  <2>2. q + 1 <= k
    BY <1>5, <1>6, <2>1
  <2>3. (E * s) * (q + 1) <= (E * s) * k
    BY <1>5, <1>6, <2>2
  <2>4. (E * s) * (q + 1) = (E * s) * q + E * s
    BY <1>5, <1>6
  <2>5. i * s <= (E - 1) * s
    BY <1>4, <1>8
  <2>6. (E - 1) * s = E * s - s
    BY <1>4
  <2> QED
    BY <1>4, <1>5, <1>6, <1>8, <2>3, <2>4, <2>5, <2>6
<1> QED
  BY <1>1, <1>10, <1>11, <1>12 DEF s, paddr_is_valid

\* What map and merge_at know of arguments they accept: a leaf of the level of
\* the size starts there and all of its pages are valid.
LEMMA LeafArguments ==
  ASSUME NEW r \in Calls, ArgCheck(r) = "Ok", r.op \in {"map", "merge_at"}
  PROVE  /\ check_leaf_range(r) = "Ok" /\ r.start % Size(r) = 0
         /\ size_is_supported(Size(r)) /\ size_to_level(Size(r)) \in LeafLevels
         /\ size_to_level(Size(r)) \in 1..LEVELS /\ Span[size_to_level(Size(r))] = Size(r)
         /\ r.op = "map" => paddr_is_valid(r.pa) /\ r.pa % Size(r) = 0
         /\ r.op = "merge_at" => size_to_level(Size(r)) > 1
<1>1. check_leaf_range(r) = "Ok" /\ size_is_supported(Size(r))
  BY DEF ArgCheck, exact_leaf_size
<1>2. r.op = "map" => paddr_is_valid(r.pa) /\ r.pa % Size(r) = 0
  BY DEF ArgCheck, exact_leaf_size
<1>3. r.op = "merge_at" => size_to_level(Size(r)) # 1
  BY DEF ArgCheck
<1>4. r.start % Size(r) = 0
  BY <1>1 DEF check_leaf_range
<1> QED
  BY <1>1, <1>2, <1>3, <1>4, LevelOfSize

\* What LeavesEncodable says of an entry of a table of level l.
Legal(e, l) ==
  e.kind = "leaf" => l \in LeafLevels /\ e.pa % Span[l] = 0 /\ paddr_is_valid(e.pa)

\* Only a leaf can be illegal for its level.
LEMMA LegalKinds ==
  ASSUME NEW l
  PROVE  /\ Legal(Unused, l) /\ Unused # Invalid
         /\ \A t : Legal(Table(t), l) /\ Table(t) # Invalid
         /\ \A p, fl : Leaf(p, fl) # Invalid
         /\ \A p, fl : l \in LeafLevels /\ p % Span[l] = 0 /\ paddr_is_valid(p) => Legal(Leaf(p, fl), l)
BY DEF Legal, Unused, Invalid, Table, Leaf

\* An entry of a table is legal.
LEMMA LegalEntry ==
  ASSUME IInv, LeavesEncodable, NEW f \in Tables, NEW i \in Slots
  PROVE  Legal(mem[f][i], lev[f])
BY DEF LeavesEncodable, Legal

\* A store to the slot changes that entry only.
LEMMA SlotWrite ==
  ASSUME IInv, pc \in {"walk", "swap"}, NEW e, WriteSlot(e), NEW f \in Frames, NEW i \in Slots
  PROVE  mem'[f][i] = IF f = cur /\ i = Idx THEN e ELSE mem[f][i]
<1>1. cur \in Frames /\ Idx \in Slots /\ mem \in [Frames -> [Slots -> Entries]]
  BY AtSlot DEF IInv, TypeOK
<1>2. mem' = [mem EXCEPT ![cur][Idx] = e]
  BY DEF WriteSlot
<1> QED
  BY <1>1, <1>2

\* What a step does to an entry: nothing, unless its table is freed or adopted, or
\* it writes one that is legal.
Kept(f, i) == mem'[f][i] = mem[f][i] /\ (lev'[f] \in {0, lev[f]} \/ adopt)

Rewritten(f, i) == mem'[f][i] # Invalid /\ Legal(mem'[f][i], lev'[f])

\* map, remap, protect and merge_at write leaves that are legal.
LEMMA LeafWritten ==
  ASSUME IInv, ContentInv, MapInstall \/ Rewrite \/ MergeWrite, NEW f \in Frames, NEW i \in Slots
  PROVE  Kept(f, i) \/ Rewritten(f, i)
<1>1. pc = "walk" /\ lev' = lev
  BY DEF MapInstall, Rewrite, MergeWrite, Mapping, Merging, AtLeaf, Exact, ghosts
<1>2. /\ cur \in Tables /\ cur \in Frames /\ Idx \in Slots /\ lev[cur] = lvl
      /\ Legal(Slot, lvl) /\ lvl \in 1..LEVELS
  BY <1>1, AtSlot, LegalEntry DEF Linked, Slot, ContentInv
<1>3. ASSUME NEW p, NEW fl, WriteSlot(Leaf(p, fl)), lvl \in LeafLevels, p % Span[lvl] = 0, paddr_is_valid(p)
      PROVE  Kept(f, i) \/ Rewritten(f, i)
  BY <1>1, <1>2, <1>3, SlotWrite, LegalKinds DEF Kept, Rewritten
<1>4. req.op \in Ops => req \in Calls
  BY CallInProgress
<1>5. ArgCheck(req) = "Ok"
  BY <1>1 DEF ContentInv, CallInv
<1>6. CASE MapInstall
  <2>1. req.op = "map" /\ lvl = TargetLevel /\ WriteSlot(Leaf(req.pa, req.fl)) /\ req \in Calls
    BY <1>4, <1>6 DEF MapInstall, Mapping, Ops
  <2>2. lvl \in LeafLevels /\ Span[lvl] = Size(req) /\ paddr_is_valid(req.pa) /\ req.pa % Size(req) = 0
    BY <1>5, <2>1, LeafArguments DEF TargetLevel
  <2> QED
    BY <1>3, <2>1, <2>2
<1>7. CASE Rewrite
  <2>1. CASE AtLeaf("remap") /\ WriteSlot(Leaf(req.pa, req.fl))
    <3>1. req.op = "remap" /\ Slot.kind = "leaf" /\ LeafCheck = "Ok"
      BY <2>1 DEF AtLeaf
    <3>2. lvl \in LeafLevels /\ req.pa % Span[lvl] = 0
      BY <1>2, <3>1 DEF Legal, LeafCheck
    <3>3. paddr_is_valid(req.pa)
      BY <1>5, <3>1 DEF ArgCheck
    <3> QED
      BY <1>3, <2>1, <3>2, <3>3
  <2>2. CASE AtLeaf("protect") /\ WriteSlot(Leaf(Slot.pa, req.fl))
    BY <1>2, <1>3, <2>2 DEF AtLeaf, Legal
  <2> QED
    BY <1>7, <2>1, <2>2 DEF Rewrite
<1>8. CASE MergeWrite
  <2>1. /\ req.op = "merge_at" /\ lvl = TargetLevel /\ Slot.kind = "table" /\ MergeCheck(Slot.to) = "Ok"
        /\ WriteSlot(Leaf(mem[Slot.to][0].pa, mem[Slot.to][0].fl)) /\ req \in Calls
    BY <1>4, <1>8 DEF MergeWrite, Merging, Ops, ExactOps
  <2>2. lvl \in LeafLevels
    BY <1>5, <2>1, LeafArguments DEF TargetLevel
  <2>3. mem[Slot.to][0].kind = "leaf" /\ mem[Slot.to][0].pa % Span[lvl] = 0
    BY <2>1 DEF MergeCheck
  <2>4. 0 \in Slots /\ Slot.to \in Tables
    BY <1>1, <2>1, NextTable, SizesAreNat DEF Slots, Linked
  <2>5. paddr_is_valid(mem[Slot.to][0].pa)
    BY <2>3, <2>4, LegalEntry DEF Legal, ContentInv
  <2> QED
    BY <1>3, <2>1, <2>2, <2>3, <2>5
<1> QED
  BY <1>6, <1>7, <1>8

\* unmap and the swap of split_at write no leaf.
LEMMA TableWritten ==
  ASSUME IInv, ContentInv, UnmapClear \/ ReclaimUnlink \/ SplitSwap, NEW f \in Frames, NEW i \in Slots
  PROVE  Kept(f, i) \/ Rewritten(f, i)
<1>1. lev' = lev /\ mem \in [Frames -> [Slots -> Entries]]
  BY DEF UnmapClear, ReclaimUnlink, SplitSwap, ghosts, IInv, TypeOK
<1>2. CASE UnmapClear
  <2>1. pc = "walk" /\ WriteSlot(Unused)
    BY <1>2 DEF UnmapClear, AtLeaf, Exact
  <2> QED
    BY <1>1, <2>1, SlotWrite, LegalKinds DEF Kept, Rewritten
<1>3. CASE SplitSwap
  <2>1. pc = "swap" /\ WriteSlot(Table(child))
    BY <1>3 DEF SplitSwap
  <2>2. mem'[f][i] = IF f = cur /\ i = Idx THEN Table(child) ELSE mem[f][i]
    BY <2>1, SlotWrite
  <2>3. Legal(Table(child), lev'[f]) /\ Table(child) # Invalid
    BY LegalKinds
  <2> QED
    BY <1>1, <2>2, <2>3 DEF Kept, Rewritten
<1>4. CASE ReclaimUnlink
  <2> DEFINE g == path[lvl+1]
             k == index_at(lvl + 1, req.start)
  <2>1. mem' = [mem EXCEPT ![g][k] = Unused]
    BY <1>4 DEF ReclaimUnlink
  <2> HIDE DEF g, k
  <2>2. mem'[f][i] = mem[f][i] \/ mem'[f][i] = Unused
    BY <1>1, <2>1
  <2> QED
    BY <1>1, <2>2, LegalKinds DEF Kept, Rewritten
<1> QED
  BY <1>2, <1>3, <1>4

\* map links a fresh table behind its slot.
LEMMA GrowWrites ==
  ASSUME IInv, NEW t \in Frames, MapGrow(t), NEW f \in Frames, NEW i \in Slots
  PROVE  /\ t # cur /\ t \notin Tables
         /\ mem'[f][i] = IF f = cur /\ i = Idx THEN Table(t) ELSE IF f = t THEN Unused ELSE mem[f][i]
<1>1. /\ pc = "walk" /\ owner[t] = "free" /\ mem \in [Frames -> [Slots -> Entries]]
      /\ mem' = [mem EXCEPT ![t] = ZeroTable, ![cur][Idx] = Table(t)]
  BY DEF MapGrow, Mapping, alloc_table_frame, IInv, TypeOK
<1>2. cur \in Frames /\ Idx \in Slots /\ cur # t /\ t \notin Tables
  BY <1>1, AtSlot DEF IInv, NoLostFrame
<1>3. mem'[cur][Idx] = Table(t) /\ mem'[t] = ZeroTable
  BY <1>1, <1>2
<1>4. f # cur /\ f # t => mem'[f] = mem[f]
  BY <1>1, <1>2
<1>5. i # Idx => mem'[cur][i] = mem[cur][i]
  BY <1>1, <1>2
<1> QED
  BY <1>2, <1>3, <1>4, <1>5 DEF ZeroTable

\* A fresh table is empty (map) or full of legal finer leaves (split_at).
LEMMA TableBuilt ==
  ASSUME IInv, ContentInv, NEW t \in Frames, MapGrow(t) \/ SplitBuild(t), NEW f \in Frames, NEW i \in Slots
  PROVE  Kept(f, i) \/ Rewritten(f, i)
<1>1. pc = "walk" /\ lev' = [lev EXCEPT ![t] = lvl - 1] /\ owner[t] = "free"
  BY DEF MapGrow, SplitBuild, Mapping, AtLeaf, Exact, alloc_table_frame
<1>2. /\ cur \in Tables /\ cur \in Frames /\ Idx \in Slots /\ lev[cur] = lvl /\ cur # t
      /\ lvl \in 1..LEVELS
      /\ mem \in [Frames -> [Slots -> Entries]] /\ lev \in [Frames -> 0..LEVELS]
  BY <1>1, AtSlot DEF Linked, IInv, TypeOK
<1>3. CASE MapGrow(t)
  <2>1. mem'[f][i] = IF f = cur /\ i = Idx THEN Table(t) ELSE IF f = t THEN Unused ELSE mem[f][i]
    BY <1>3, GrowWrites
  <2> QED
    BY <1>1, <1>2, <2>1, LegalKinds DEF Kept, Rewritten
<1>4. CASE SplitBuild(t)
  <2> DEFINE p == Slot.pa + i * Span[lvl-1]
  <2>1. AtLeaf("split_at") /\ mem' = [mem EXCEPT ![t] = [j \in Slots |-> Leaf(Slot.pa + j * Span[lvl-1], Slot.fl)]]
    BY <1>4 DEF SplitBuild
  <2>2. mem'[f][i] = IF f = t THEN Leaf(p, Slot.fl) ELSE mem[f][i]
    BY <1>2, <2>1
  <2>3. Slot.kind = "leaf" /\ lvl # 1
    BY <2>1 DEF AtLeaf, LeafCheck
  <2>4. lvl \in LeafLevels /\ lvl > 1 /\ Slot.pa \in Nat /\ Slot.pa % Span[lvl] = 0 /\ paddr_is_valid(Slot.pa)
    BY <1>1, <1>2, <2>3, LegalEntry, AtSlot, EntryKinds DEF Legal, Slot, ContentInv
  <2>5. lvl - 1 \in LeafLevels /\ p % Span[lvl-1] = 0 /\ paddr_is_valid(p)
    BY <2>4, LeafFits
  <2> HIDE DEF p
  <2> QED
    BY <1>1, <1>2, <2>2, <2>5, LegalKinds DEF Kept, Rewritten
<1> QED
  BY <1>3, <1>4

\* Every step keeps an entry or writes a legal one.
LEMMA EntrySteps ==
  ASSUME IInv, ContentInv, [Next]_vars, NEW f \in Frames, NEW i \in Slots
  PROVE  Kept(f, i) \/ Rewritten(f, i)
<1>0. mem \in [Frames -> [Slots -> Entries]] /\ lev \in [Frames -> 0..LEVELS]
  BY DEF IInv, TypeOK
<1>1. CASE UNCHANGED vars
  BY <1>1 DEF vars, ghosts, memory, Kept
<1>2. CASE \E t \in Frames : try_new(t)
  <2>1. PICK t \in Frames : mem' = [mem EXCEPT ![t] = ZeroTable] /\ lev' = [lev EXCEPT ![t] = LEVELS]
    BY <1>2 DEF try_new, alloc_table_frame
  <2> QED
    BY <1>0, <2>1, LegalKinds DEF Kept, Rewritten, ZeroTable
<1>3. CASE adopt
  BY <1>3 DEF adopt, Kept
<1>4. CASE (\E r \in Requests : Call(r)) \/ DropStart \/ DropScan \/ Flush \/ Return
  BY <1>4 DEF Call, DropStart, DropScan, Flush, Return, ghosts, memory, Kept
<1>5. CASE MapDescend \/ ExactDescend \/ MergeDescend
  BY <1>5 DEF MapDescend, ExactDescend, MergeDescend, StepDown, ghosts, memory, Kept
<1>6. CASE MapRefuse \/ ExactRefuse \/ MergeRefuse \/ MergeNothing \/ ReclaimStop
           \/ \E e \in AllocErrors : MapStarve(e) \/ SplitStarve(e)
  BY <1>6 DEF MapRefuse, ExactRefuse, MergeRefuse, MergeNothing, MapStarve, SplitStarve, ReclaimStop,
     Fail, ghosts, memory, Kept
<1>7. CASE MapInstall \/ Rewrite \/ MergeWrite \/ UnmapClear \/ ReclaimUnlink \/ SplitSwap
  BY <1>7, LeafWritten, TableWritten
<1>8. CASE \E t \in Frames : MapGrow(t) \/ SplitBuild(t)
  BY <1>8, TableBuilt
<1>9. CASE ReclaimFree \/ MergeFree \/ DropFree
  <2>1. PICK t : dealloc_table_frame(t)
    BY <1>9 DEF ReclaimFree, MergeFree, DropFree
  <2>2. lev' = [lev EXCEPT ![t] = 0] /\ (mem' = [mem EXCEPT ![t] = ZeroTable] \/ mem' = mem)
    BY <2>1 DEF dealloc_table_frame
  <2> QED
    BY <1>0, <2>2, LegalKinds DEF Kept, Rewritten, ZeroTable
<1> QED
  BY <1>1, <1>2, <1>3, <1>4, <1>5, <1>6, <1>7, <1>8, <1>9 DEF Next, Step

\* LeavesEncodable and DamageInv are preserved.
LEMMA LeavesStep ==
  ASSUME IInv, ContentInv, [Next]_vars
  PROVE  LeavesEncodable'
<1> SUFFICES ASSUME NEW f \in Tables', NEW i \in Slots
             PROVE  Legal(mem'[f][i], lev'[f])
  BY DEF LeavesEncodable, Legal
<1>1. f \in Frames /\ lev'[f] > 0
  BY DEF Tables
<1>2. Kept(f, i) \/ Rewritten(f, i)
  BY <1>1, EntrySteps
<1>3. CASE mem'[f][i] = mem[f][i] /\ lev'[f] \in {0, lev[f]}
  BY <1>1, <1>3, LegalEntry DEF ContentInv, Tables
<1>4. CASE mem'[f][i] = mem[f][i] /\ adopt
  <2>1. /\ BootFrames # {} /\ \A g \in BootFrames : owner[g] = "boot"
        /\ lev' = [g \in Frames |-> IF g \in BootFrames THEN BootTree.lev[g] ELSE 0]
    BY <1>4 DEF adopt
  <2>2. f \in BootFrames /\ lev'[f] = BootTree.lev[f] /\ mem[f] = BootTree.mem[f]
    BY <1>1, <2>1 DEF IInv, BootInv
  <2> QED
    BY <1>4, <2>1, <2>2, BootAssumption DEF Legal
<1> QED
  BY <1>2, <1>3, <1>4 DEF Kept, Rewritten

LEMMA DamageStep ==
  ASSUME IInv, ContentInv, [Next]_vars
  PROVE  DamageInv'
BY EntrySteps DEF ContentInv, DamageInv, Kept, Rewritten, Damaged

\* UsedInv is preserved: leaves are written where the range of the call starts, and
\* below the root every entry has pages.
LEMMA UsedStep ==
  ASSUME IInv, IInv', ContentInv, BlockInv', [Next]_vars
  PROVE  UsedInv'
<1> SUFFICES ASSUME NEW f \in Tables', NEW i \in Slots, mem'[f][i].kind = "leaf"
             PROVE  {v \in cover'[f] : index_at(lev'[f], v) = i} # {}
  BY DEF UsedInv, SlotCover
<1>1. /\ f \in Frames /\ lev'[f] > 0 /\ lev' \in [Frames -> 0..LEVELS]
      /\ cover' \in [Frames -> SUBSET ValidPages] /\ cover'[f] # {}
      /\ lev \in [Frames -> 0..LEVELS] /\ cover \in [Frames -> SUBSET ValidPages]
      /\ mem \in [Frames -> [Slots -> Entries]]
  BY DEF Tables, IInv, TypeOK, CoverInv
<1>2. CASE lev'[f] < LEVELS
  <2>1. lev'[f] \in 1..LEVELS-1 /\ lev'[f] # LEVELS
    BY <1>1, <1>2, SizesAreNat
  <2>2. Block(cover'[f], lev'[f])
    BY <1>2, <2>1 DEF BlockInv, Block
  <2>3. PICK v : v \in cover'[f]
    BY <1>1
  <2> DEFINE b == leaf_start(v, lev'[f] + 1) + i * Span[lev'[f]]
  <2>4. b \in cover'[f] /\ index_at(lev'[f], b) = i
    BY <1>1, <2>1, <2>2, <2>3, EntryRange
  <2> QED
    BY <2>4
<1>3. CASE lev'[f] = LEVELS
  <2>1. ASSUME lev'[f] = lev[f], cover'[f] = cover[f], mem'[f][i] = mem[f][i]
        PROVE  {v \in cover'[f] : index_at(lev'[f], v) = i} # {}
    <3>1. f \in Tables
      BY <1>1, <2>1 DEF Tables
    <3> QED
      BY <2>1, <3>1 DEF ContentInv, UsedInv, SlotCover
  <2>2. ASSUME pc = "walk", UNCHANGED <<lev, cover>>, NEW e, WriteSlot(e)
        PROVE  {v \in cover'[f] : index_at(lev'[f], v) = i} # {}
    <3>1. mem'[f][i] = IF f = cur /\ i = Idx THEN e ELSE mem[f][i]
      BY <1>1, <2>2, SlotWrite
    <3>2. CASE f = cur /\ i = Idx
      BY <2>2, <3>2, AtSlot DEF SlotCover
    <3> QED
      BY <2>1, <2>2, <3>1, <3>2
  <2>3. ASSUME NEW t, NEW n, NEW C, lev' = [lev EXCEPT ![t] = n], cover' = [cover EXCEPT ![t] = C],
               n # LEVELS, mem'[f][i] = mem[f][i] \/ f = t
        PROVE  {v \in cover'[f] : index_at(lev'[f], v) = i} # {}
    <3>1. f # t
      BY <1>1, <1>3, <2>3
    <3> QED
      BY <1>1, <2>1, <2>3, <3>1
  <2>4. CASE UNCHANGED <<mem, lev, cover>>
    BY <2>1, <2>4
  <2>5. ASSUME NEW t \in Frames, try_new(t)
        PROVE  {v \in cover'[f] : index_at(lev'[f], v) = i} # {}
    <3>1. /\ mem' = [mem EXCEPT ![t] = ZeroTable] /\ lev' = [lev EXCEPT ![t] = LEVELS]
          /\ cover' = [cover EXCEPT ![t] = ValidPages]
      BY <2>5 DEF try_new, alloc_table_frame
    <3>2. f # t
      BY <1>1, <3>1 DEF ZeroTable, Unused
    <3> QED
      BY <1>1, <2>1, <3>1, <3>2
  <2>6. CASE adopt
    <3>1. /\ BootFrames # {} /\ \A g \in BootFrames : owner[g] = "boot" /\ mem' = mem
          /\ lev' = [g \in Frames |-> IF g \in BootFrames THEN BootTree.lev[g] ELSE 0]
          /\ cover' = [g \in Frames |-> IF g \in BootFrames THEN BootTree.cover[g] ELSE {}]
      BY <2>6 DEF adopt
    <3>2. /\ f \in BootFrames /\ lev'[f] = BootTree.lev[f] /\ cover'[f] = BootTree.cover[f]
          /\ mem'[f] = BootTree.mem[f]
      BY <1>1, <3>1 DEF IInv, BootInv
    <3>3. BootCover(f, i) # {}
      BY <3>1, <3>2, BootAssumption
    <3> QED
      BY <3>2, <3>3 DEF BootCover
  <2>7. CASE MapInstall \/ Rewrite \/ MergeWrite \/ UnmapClear
    <3>1. pc = "walk" /\ UNCHANGED <<lev, cover>> /\ \E e : WriteSlot(e)
      BY <2>7 DEF MapInstall, Rewrite, MergeWrite, UnmapClear, Mapping, Merging, AtLeaf, Exact, ghosts
    <3> QED
      BY <2>2, <3>1
  <2>8. CASE SplitSwap \/ ReclaimUnlink
    <3>1. UNCHANGED <<lev, cover>>
      BY <2>8 DEF SplitSwap, ReclaimUnlink, ghosts
    <3>2. mem'[f][i] = mem[f][i]
      <4>1. CASE SplitSwap
        <5>1. mem'[f][i] = IF f = cur /\ i = Idx THEN Table(child) ELSE mem[f][i]
          BY <1>1, <4>1, SlotWrite DEF SplitSwap
        <5>2. Table(child).kind # "leaf"
          BY DEF Table
        <5> QED
          BY <5>1, <5>2
      <4>2. CASE ReclaimUnlink
        <5> DEFINE g == path[lvl+1]
                   k == index_at(lvl + 1, req.start)
        <5>1. mem' = [mem EXCEPT ![g][k] = Unused]
          BY <4>2 DEF ReclaimUnlink
        <5> HIDE DEF g, k
        <5> QED
          BY <1>1, <5>1 DEF Unused
      <4> QED
        BY <2>8, <4>1, <4>2
    <3> QED
      BY <2>1, <3>1, <3>2
  <2>9. ASSUME NEW t \in Frames, MapGrow(t) \/ SplitBuild(t)
        PROVE  {v \in cover'[f] : index_at(lev'[f], v) = i} # {}
    <3>1. pc = "walk" /\ lev' = [lev EXCEPT ![t] = lvl - 1] /\ cover' = [cover EXCEPT ![t] = SlotCover(cur, Idx)]
      BY <2>9 DEF MapGrow, SplitBuild, Mapping, AtLeaf, Exact, alloc_table_frame
    <3>2. lvl - 1 # LEVELS
      BY <3>1, AtSlot, SizesAreNat
    <3>3. mem'[f][i] = mem[f][i] \/ f = t
      <4>1. CASE MapGrow(t)
        <5>1. mem'[f][i] = IF f = cur /\ i = Idx THEN Table(t) ELSE IF f = t THEN Unused ELSE mem[f][i]
          BY <1>1, <4>1, GrowWrites
        <5> QED
          BY <5>1 DEF Table
      <4>2. CASE SplitBuild(t)
        BY <1>1, <4>2 DEF SplitBuild
      <4> QED
        BY <2>9, <4>1, <4>2
    <3> QED
      BY <2>3, <3>1, <3>2, <3>3
  <2>10. CASE ReclaimFree \/ MergeFree \/ DropFree
    <3>1. PICK t : dealloc_table_frame(t)
      BY <2>10 DEF ReclaimFree, MergeFree, DropFree
    <3>2. /\ lev' = [lev EXCEPT ![t] = 0] /\ cover' = [cover EXCEPT ![t] = {}]
          /\ mem' = [mem EXCEPT ![t] = ZeroTable] \/ mem' = mem
      BY <3>1 DEF dealloc_table_frame
    <3>3. 0 # LEVELS /\ (mem'[f][i] = mem[f][i] \/ f = t)
      BY <1>1, <3>2, SizesAreNat
    <3> QED
      BY <2>3, <3>2, <3>3
  <2>11. \/ UNCHANGED <<mem, lev, cover>>
         \/ (\E t \in Frames : try_new(t) \/ MapGrow(t) \/ SplitBuild(t)) \/ adopt
         \/ MapInstall \/ Rewrite \/ MergeWrite \/ UnmapClear \/ SplitSwap \/ ReclaimUnlink
         \/ ReclaimFree \/ MergeFree \/ DropFree
    BY DEF Next, Step, vars, memory, ghosts, Call, DropStart, DropScan, Flush, Return, MapDescend,
       ExactDescend, MergeDescend, StepDown, MapRefuse, ExactRefuse, MergeRefuse, MergeNothing,
       ReclaimStop, MapStarve, SplitStarve, Fail
  <2> QED
    BY <2>4, <2>5, <2>6, <2>7, <2>8, <2>9, <2>10, <2>11
<1>4. lev'[f] < LEVELS \/ lev'[f] = LEVELS
  <2>1. lev'[f] \in 0..LEVELS
    BY <1>1
  <2> QED
    BY <2>1, SizesAreNat
<1> QED
  BY <1>2, <1>3, <1>4

\* ForeignInv is preserved: frames enter as a table is adopted, and never again.
LEMMA ForeignStep ==
  ASSUME IInv, ContentInv, [Next]_vars
  PROVE  ForeignInv'
<1> SUFFICES ASSUME NEW f \in Frames, owner'[f] \in {"boot", "adopted"}
             PROVE  f \in BootFrames
  BY DEF ForeignInv
<1>1. owner \in [Frames -> {"free", "walker", "boot", "adopted"}]
  BY DEF IInv, TypeOK
<1>2. CASE owner'[f] = owner[f]
  BY <1>2 DEF ContentInv, ForeignInv
<1>3. CASE adopt
  BY <1>2, <1>3 DEF adopt
<1>4. \A t : owner' = [owner EXCEPT ![t] = "walker"] \/ owner' = [owner EXCEPT ![t] = "free"] =>
        owner'[f] = owner[f]
  BY <1>1
<1>5. CASE \E t \in Frames : try_new(t) \/ MapGrow(t) \/ SplitBuild(t)
  BY <1>2, <1>4, <1>5 DEF try_new, MapGrow, SplitBuild, alloc_table_frame
<1>6. CASE ReclaimFree \/ MergeFree \/ DropFree
  BY <1>2, <1>4, <1>6 DEF ReclaimFree, MergeFree, DropFree, dealloc_table_frame
<1>7. \/ owner' = owner \/ (\E t \in Frames : try_new(t) \/ MapGrow(t) \/ SplitBuild(t)) \/ adopt
      \/ ReclaimFree \/ MergeFree \/ DropFree
  BY DEF Next, Step, vars, memory, Call, DropStart, DropScan, Flush, Return, MapDescend,
     ExactDescend, MergeDescend, StepDown, MapRefuse, ExactRefuse, MergeRefuse, MergeNothing,
     ReclaimStop, MapStarve, SplitStarve, Fail, MapInstall, Rewrite, MergeWrite, UnmapClear,
     SplitSwap, ReclaimUnlink
<1> QED
  BY <1>2, <1>3, <1>5, <1>6, <1>7

\* The root is the only table of the highest level.
LEMMA OnlyRootOnTop ==
  ASSUME IInv, NEW f \in Linked, lev[f] = LEVELS
  PROVE  f = root
<1>1. f \in Tables /\ f \in Frames /\ cover[f] \in SUBSET ValidPages
  BY DEF Linked, Tables, IInv, TypeOK
<1>2. root \in Linked /\ lev[root] = LEVELS /\ cover[root] = ValidPages
  BY <1>1 DEF IInv, RootInv
<1>3. PICK v : v \in cover[f]
  BY <1>1 DEF IInv, CoverInv
<1> QED
  BY <1>1, <1>2, <1>3 DEF IInv, OnePath

-------------------------------------------------------------------------------
(* Tables without a present entry. *)

\* The exceptions of TightInv.
MayBeEmpty(f) ==
  \/ pc = "walk" /\ req.op = "map" /\ f = cur
  \/ pc = "reclaim" /\ f = cur
  \/ pc = "release" /\ req.op = "unmap" /\ f \in {child, path[lvl+1]}

\* What TightInv says of a table before the step.
LEMMA TightBefore ==
  ASSUME ContentInv, ~untidy, NEW f \in Tables \ {root}, is_table_empty(f)
  PROVE  MayBeEmpty(f)
BY DEF ContentInv, TightInv, MayBeEmpty

\* Steps that change neither the tables nor what they hold.
LEMMA TightSame ==
  ASSUME IInv, ContentInv, UNCHANGED <<mem, root, lev, untidy>>,
         \A f \in Tables \ {root} : is_table_empty(f) /\ MayBeEmpty(f) => MayBeEmpty(f)'
  PROVE  TightInv'
<1>1. Tables' = Tables /\ \A f : is_table_empty(f)' <=> is_table_empty(f)
  BY DEF Tables, is_table_empty
<1> QED
  BY <1>1, TightBefore DEF TightInv, MayBeEmpty

\* The table under examination, once its slot is found or made present, is not empty.
LEMMA PresentSlot ==
  ASSUME IInv, pc \in {"walk", "swap"}, is_present(Slot)
  PROVE  ~is_table_empty(cur)
BY AtSlot DEF Slot, is_table_empty

\* TightInv is preserved: by the steps that write nothing, ...
LEMMA TightControlSteps ==
  ASSUME IInv, ContentInv,
         \/ UNCHANGED vars \/ (\E r \in Requests : Call(r)) \/ DropStart \/ DropScan \/ Flush \/ Return
         \/ MapDescend \/ ExactDescend \/ MergeDescend
         \/ MapRefuse \/ ExactRefuse \/ MergeRefuse \/ MergeNothing \/ ReclaimStop
         \/ \E e \in AllocErrors : SplitStarve(e)
  PROVE  TightInv'
<1>1. CASE UNCHANGED vars
  BY <1>1, TightSame DEF vars, memory, ghosts, locals, MayBeEmpty
<1>2. CASE (\E r \in Requests : Call(r)) \/ DropStart \/ DropScan \/ Flush \/ Return
  BY <1>2, TightSame DEF Call, DropStart, DropScan, Flush, Return, ghosts, memory, MayBeEmpty
<1>3. CASE MapDescend \/ ExactDescend \/ MergeDescend
  <2>1. /\ pc = "walk" /\ Slot.kind = "table" /\ UNCHANGED <<mem, root, lev, untidy>>
    BY <1>3 DEF MapDescend, ExactDescend, MergeDescend, StepDown, Mapping, Exact, Merging, ghosts, memory
  <2> QED
    BY <2>1, TightSame, PresentSlot DEF MayBeEmpty, is_present
<1>4. CASE MapRefuse
  <2>1. pc = "walk" /\ is_present(Slot) /\ UNCHANGED <<mem, root, lev, untidy>>
    BY <1>4 DEF MapRefuse, Mapping, Fail, memory, ghosts, is_present
  <2> QED
    BY <2>1, TightSame, PresentSlot DEF MayBeEmpty
<1>5. CASE ExactRefuse \/ MergeRefuse \/ MergeNothing \/ \E e \in AllocErrors : SplitStarve(e)
  <2>1. pc = "walk" /\ req.op # "map" /\ UNCHANGED <<mem, root, lev, untidy>>
    BY <1>5 DEF ExactRefuse, MergeRefuse, MergeNothing, SplitStarve, AtLeaf, Exact, Merging, Fail,
       memory, ghosts, ExactOps
  <2> QED
    BY <2>1, TightSame DEF MayBeEmpty
<1>6. CASE ReclaimStop
  <2>1. pc = "reclaim" /\ (lvl = LEVELS \/ ~is_table_empty(cur)) /\ UNCHANGED <<mem, root, lev, untidy>>
    BY <1>6 DEF ReclaimStop, ReclaimDone, memory, ghosts
  <2>2. lvl = LEVELS => cur = root
    BY <2>1, AtSlot, OnlyRootOnTop
  <2> QED
    BY <2>1, <2>2, TightSame DEF MayBeEmpty
<1> QED
  BY <1>1, <1>2, <1>3, <1>4, <1>5, <1>6

\* ... by the stores to the slot, ...
LEMMA TightWriteSteps ==
  ASSUME IInv, ContentInv, MapInstall \/ Rewrite \/ MergeWrite \/ SplitSwap \/ UnmapClear
  PROVE  TightInv'
<1>1. /\ UNCHANGED <<lev, root, untidy, req, cur>>
      /\ Tables' = Tables
  BY DEF MapInstall, Rewrite, MergeWrite, SplitSwap, UnmapClear, ghosts, locals, Tables
<1>2. PICK e : /\ WriteSlot(e) /\ pc \in {"walk", "swap"}
               /\ ~is_present(e) => pc' = "reclaim"
  BY DEF MapInstall, Rewrite, MergeWrite, SplitSwap, UnmapClear, Mapping, AtLeaf, Exact, Merging,
     is_present, Leaf, Table
<1>3. \A f \in Frames, i \in Slots : mem'[f][i] = IF f = cur /\ i = Idx THEN e ELSE mem[f][i]
  BY <1>2, SlotWrite
<1>4. cur \in Frames /\ Idx \in Slots
  BY <1>2, AtSlot
<1> SUFFICES ASSUME ~untidy', NEW f \in Tables' \ {root'}, is_table_empty(f)'
             PROVE  MayBeEmpty(f)'
  BY DEF TightInv, MayBeEmpty
<1>5. f \in Frames
  BY DEF Tables
<1>6. CASE f = cur
  <2>1. ~is_present(e)
    BY <1>3, <1>4, <1>6 DEF is_table_empty
  <2> QED
    BY <1>1, <1>2, <1>6, <2>1 DEF MayBeEmpty
<1>7. CASE f # cur
  <2>1. is_table_empty(f)
    BY <1>3, <1>5, <1>7 DEF is_table_empty
  <2>2. MayBeEmpty(f)
    BY <1>1, <2>1, TightBefore
  <2> QED
    BY <1>2, <1>7, <2>2 DEF MayBeEmpty
<1> QED
  BY <1>6, <1>7

\* ... where tables appear, and where an allocation fails, ...
LEMMA TightTableSteps ==
  ASSUME IInv, ContentInv,
         \/ (\E t \in Frames : try_new(t) \/ MapGrow(t) \/ SplitBuild(t))
         \/ adopt \/ (\E e \in AllocErrors : MapStarve(e))
  PROVE  TightInv'
<1> SUFFICES ASSUME ~untidy', NEW f \in Tables' \ {root'}, is_table_empty(f)'
             PROVE  MayBeEmpty(f)'
  BY DEF TightInv, MayBeEmpty
<1>1. f \in Frames /\ lev'[f] > 0 /\ mem \in [Frames -> [Slots -> Entries]] /\ lev \in [Frames -> 0..LEVELS]
  BY DEF Tables, IInv, TypeOK
<1>2. ASSUME NEW t \in Frames, try_new(t)
      PROVE  FALSE
  <2>1. root = NoFrame /\ root' = t /\ lev' = [lev EXCEPT ![t] = LEVELS]
    BY <1>2 DEF try_new, alloc_table_frame
  <2>2. f \in Tables
    BY <1>1, <2>1 DEF Tables
  <2> QED
    BY <2>1, <2>2 DEF IInv, RootInv
<1>3. ASSUME NEW t \in Frames, MapGrow(t)
      PROVE  MayBeEmpty(f)'
  <2>1. /\ pc = "walk" /\ req.op = "map" /\ cur' = t /\ UNCHANGED <<req, pc, root, untidy>>
        /\ lev' = [lev EXCEPT ![t] = lvl - 1]
    BY <1>3 DEF MapGrow, Mapping, alloc_table_frame
  <2>2. CASE f = t
    BY <2>1, <2>2 DEF MayBeEmpty
  <2>3. CASE f # t
    <3>1. f \in Tables \ {root}
      BY <1>1, <2>1, <2>3 DEF Tables
    <3>2. cur \in Frames /\ Idx \in Slots
      BY <2>1, AtSlot
    <3>3. mem'[cur][Idx].kind = "table"
      <4>1. \A i \in Slots : mem'[cur][i] = IF i = Idx THEN Table(t) ELSE mem[cur][i]
        BY <1>3, <3>2, GrowWrites
      <4>2. mem'[cur][Idx] = Table(t)
        BY <3>2, <4>1
      <4> QED
        BY <4>2 DEF Table
    <3>4. f # cur
      BY <3>2, <3>3 DEF is_table_empty, is_present
    <3>5. \A i \in Slots : mem'[f][i] = mem[f][i]
      BY <1>1, <1>3, <2>3, <3>4, GrowWrites
    <3>6. is_table_empty(f)
      BY <3>5 DEF is_table_empty
    <3> QED
      BY <2>1, <3>1, <3>4, <3>6, TightBefore DEF MayBeEmpty
  <2> QED
    BY <2>2, <2>3
<1>4. ASSUME NEW t \in Frames, SplitBuild(t)
      PROVE  FALSE
  <2>1. /\ pc = "walk" /\ req.op = "split_at" /\ UNCHANGED <<root, untidy>>
        /\ lev' = [lev EXCEPT ![t] = lvl - 1]
        /\ mem' = [mem EXCEPT ![t] = [i \in Slots |-> Leaf(Slot.pa + i * Span[lvl-1], Slot.fl)]]
    BY <1>4 DEF SplitBuild, AtLeaf, Exact, alloc_table_frame
  <2>2. 0 \in Slots
    BY SizesAreNat DEF Slots
  <2>3. f # t
    <3>1. mem'[t][0].kind = "leaf"
      BY <1>1, <2>1, <2>2 DEF Leaf
    <3> QED
      BY <2>2, <3>1 DEF is_table_empty, is_present
  <2>4. f \in Tables \ {root} /\ mem'[f] = mem[f]
    BY <1>1, <2>1, <2>3 DEF Tables
  <2>5. is_table_empty(f)
    BY <2>4 DEF is_table_empty
  <2> QED
    BY <2>1, <2>4, <2>5, TightBefore DEF MayBeEmpty
<1>5. CASE adopt
  <2>1. /\ root' = BootTree.root /\ ~Loose /\ mem' = mem
        /\ BootFrames # {} /\ \A g \in BootFrames : owner[g] = "boot"
        /\ lev' = [g \in Frames |-> IF g \in BootFrames THEN BootTree.lev[g] ELSE 0]
    BY <1>5 DEF adopt
  <2>2. f \in BootFrames \ {BootTree.root} /\ mem'[f] = BootTree.mem[f]
    BY <1>1, <2>1 DEF IInv, BootInv
  <2> QED
    BY <2>1, <2>2 DEF Loose, is_table_empty
<1>6. ASSUME NEW e \in AllocErrors, MapStarve(e)
      PROVE  FALSE
  BY <1>6 DEF MapStarve
<1> QED
  BY <1>2, <1>3, <1>4, <1>5, <1>6

\* ... and where they are unlinked and freed.
LEMMA TightReleaseSteps ==
  ASSUME IInv, IInv', ContentInv, ReclaimUnlink \/ ReclaimFree \/ MergeFree \/ DropFree
  PROVE  TightInv'
<1> SUFFICES ASSUME ~untidy', NEW f \in Tables' \ {root'}, is_table_empty(f)'
             PROVE  MayBeEmpty(f)'
  BY DEF TightInv, MayBeEmpty
<1>1. f \in Frames /\ lev'[f] > 0 /\ mem \in [Frames -> [Slots -> Entries]] /\ lev \in [Frames -> 0..LEVELS]
  BY DEF Tables, IInv, TypeOK
<1>2. CASE ReclaimUnlink
  <2> DEFINE k == index_at(lvl + 1, req.start)
  <2>1. /\ pc = "reclaim" /\ pc' = "release" /\ child' = cur
        /\ UNCHANGED <<req, path, lvl, untidy, root, lev>>
        /\ mem' = [mem EXCEPT ![path[lvl+1]][k] = Unused]
    BY <1>2 DEF ReclaimUnlink, ghosts
  <2>2. req.op = "unmap"
    BY <2>1 DEF IInv, WalkInv
  <2>3. CASE f = path[lvl+1]
    BY <2>1, <2>2, <2>3 DEF MayBeEmpty
  <2>4. CASE f # path[lvl+1]
    <3>1. mem'[f] = mem[f] /\ f \in Tables \ {root}
      BY <1>1, <2>1, <2>4 DEF Tables
    <3>2. MayBeEmpty(f)
      BY <2>1, <3>1, TightBefore DEF is_table_empty
    <3> QED
      BY <2>1, <2>2, <3>2 DEF MayBeEmpty
  <2> QED
    BY <2>3, <2>4
<1>3. ASSUME NEW t, dealloc_table_frame(t)
      PROVE  f # t /\ mem'[f] = mem[f] /\ f \in Tables
  <2>1. lev' = [lev EXCEPT ![t] = 0] /\ (mem' = [mem EXCEPT ![t] = ZeroTable] \/ mem' = mem)
    BY <1>3 DEF dealloc_table_frame
  <2>2. f # t
    BY <1>1, <2>1
  <2> QED
    BY <1>1, <2>1, <2>2 DEF Tables
<1>4. CASE ReclaimFree
  <2>1. /\ pc = "release" /\ cur' = path[lvl+1] /\ dealloc_table_frame(child) /\ root' = root
        /\ pc' = "reclaim" /\ untidy' = untidy
    BY <1>4 DEF ReclaimFree
  <2>2. f # child /\ f \in Tables \ {root} /\ is_table_empty(f)
    BY <1>3, <2>1 DEF is_table_empty
  <2> QED
    BY <2>1, <2>2, TightBefore DEF MayBeEmpty
<1>5. CASE MergeFree
  <2>1. /\ pc = "release" /\ req.op = "merge_at" /\ dealloc_table_frame(child) /\ root' = root
        /\ untidy' = untidy
    BY <1>5 DEF MergeFree
  <2>2. f # child /\ f \in Tables \ {root} /\ is_table_empty(f)
    BY <1>3, <2>1 DEF is_table_empty
  <2> QED
    BY <2>1, <2>2, TightBefore DEF MayBeEmpty
<1>6. CASE DropFree
  <2>1. pc = "drop" /\ dealloc_table_frame(cur)
    BY <1>6 DEF DropFree
  <2>2. CASE lvl = LEVELS
    <3>1. root' = NoFrame
      BY <1>6, <2>2 DEF DropFree
    <3> QED
      BY <3>1 DEF IInv, RootInv
  <2>3. CASE lvl # LEVELS
    <3>1. UNCHANGED <<root, untidy>>
      BY <1>6, <2>3 DEF DropFree
    <3>2. f \in Tables \ {root} /\ is_table_empty(f)
      BY <1>3, <2>1, <3>1 DEF is_table_empty
    <3> QED
      BY <2>1, <3>1, <3>2, TightBefore DEF MayBeEmpty
  <2> QED
    BY <2>2, <2>3
<1> QED
  BY <1>2, <1>4, <1>5, <1>6

LEMMA TightStep ==
  ASSUME IInv, IInv', ContentInv, [Next]_vars
  PROVE  TightInv'
BY TightControlSteps, TightWriteSteps, TightTableSteps, TightReleaseSteps DEF Next, Step

-------------------------------------------------------------------------------
(* What a call has checked. *)

\* The checks always have an answer.
LEMMA ChecksAreResults ==
  /\ \A r \in Calls : ArgCheck(r) # "none"
  /\ LeafCheck # "none"
  /\ \A t : MergeCheck(t) # "none"
<1>1. \A r \in Calls : ArgCheck(r) # "none"
  BY CallTypes DEF ArgCheck, exact_leaf_size, check_leaf_range, Ops, ExactOps
<1> QED
  BY <1>1 DEF LeafCheck, MergeCheck

\* CallInv says little outside the steps of an operation.
LEMMA CallInvElsewhere ==
  ASSUME pc' \notin {"walk", "swap", "reclaim", "release"}, pc' = "return" => ret' # "none"
  PROVE  CallInv'
BY DEF CallInv

\* CallInv is preserved: by the steps that write no entry, ...
LEMMA CallInvControlSteps ==
  ASSUME IInv, ContentInv,
         \/ UNCHANGED vars \/ (\E f \in Frames : try_new(f)) \/ adopt \/ (\E r \in Requests : Call(r))
         \/ DropStart \/ DropScan \/ DropFree \/ Flush \/ Return
         \/ MapDescend \/ ExactDescend \/ MergeDescend
         \/ MapRefuse \/ ExactRefuse \/ MergeRefuse \/ MergeNothing
         \/ \E e \in AllocErrors : MapStarve(e) \/ SplitStarve(e)
  PROVE  CallInv'
<1>1. CASE UNCHANGED vars
  BY <1>1 DEF vars, memory, ghosts, locals, ContentInv, CallInv, TargetLevel, LeafCheck, Slot, Idx
<1>2. CASE (\E f \in Frames : try_new(f)) \/ adopt \/ DropStart \/ DropScan \/ DropFree \/ Return
  <2>1. pc' \in {"idle", "drop"}
    BY <1>2 DEF try_new, adopt, DropStart, DropScan, DropFree, Return
  <2> QED
    BY <2>1, CallInvElsewhere
<1>3. CASE Flush
  BY <1>3, CallInvElsewhere DEF Flush, Finish
<1>4. ASSUME NEW r \in Requests, Call(r)
      PROVE  CallInv'
  <2>1. CASE ArgCheck(r) # "Ok"
    BY <1>4, <2>1, CallInvElsewhere, ChecksAreResults, RequestAssumption DEF Call, Finish
  <2>2. CASE ArgCheck(r) = "Ok"
    <3>1. pc' = "walk" /\ req' = r /\ lvl' = LEVELS /\ r \in Calls
      BY <1>4, <2>2, RequestAssumption DEF Call
    <3>2. r.op \in {"map", "merge_at"} => size_to_level(Size(r)) \in 1..LEVELS
      BY <2>2, <3>1, LeafArguments
    <3>3. r.op \in {"map", "merge_at"} => lvl' >= TargetLevel'
      BY <3>1, <3>2, SizesAreNat DEF TargetLevel
    <3> QED
      BY <2>2, <3>1, <3>3 DEF CallInv
  <2> QED
    BY <2>1, <2>2
<1>5. CASE MapDescend \/ ExactDescend \/ MergeDescend
  <2>1. pc = "walk" /\ UNCHANGED <<pc, req>> /\ lvl' = lvl - 1 /\ lvl \in 1..LEVELS
    BY <1>5, AtSlot DEF MapDescend, ExactDescend, MergeDescend, StepDown, Mapping, Exact, Merging
  <2>2. ArgCheck(req) = "Ok"
    BY <2>1 DEF ContentInv, CallInv
  <2>3. req.op \in {"map", "merge_at"} => lvl > TargetLevel
    BY <1>5 DEF MapDescend, MergeDescend, ExactDescend, Exact, ExactOps
  <2>4. req.op \in {"map", "merge_at"} => TargetLevel \in 1..LEVELS
    BY <2>2, CallInProgress, LeafArguments DEF TargetLevel, Ops
  <2>5. req.op \in {"map", "merge_at"} => lvl' >= TargetLevel'
    BY <2>1, <2>3, <2>4 DEF TargetLevel
  <2> QED
    BY <2>1, <2>2, <2>5 DEF CallInv
<1>6. ASSUME NEW e, e # "none", Fail(e)
      PROVE  CallInv'
  BY <1>6, CallInvElsewhere DEF Fail, Finish
<1>7. CASE MapRefuse \/ ExactRefuse \/ MergeRefuse \/ MergeNothing
  BY <1>6, <1>7, ChecksAreResults DEF MapRefuse, ExactRefuse, MergeRefuse, MergeNothing
<1>8. ASSUME NEW e \in AllocErrors, MapStarve(e) \/ SplitStarve(e)
      PROVE  CallInv'
  BY <1>8, CallInvElsewhere DEF AllocErrors, MapStarve, SplitStarve, Fail, Finish
<1> QED
  BY <1>1, <1>2, <1>3, <1>4, <1>5, <1>7, <1>8

\* ... and by those that do.
LEMMA CallInvTableSteps ==
  ASSUME IInv, ContentInv,
         \/ (\E f \in Frames : MapGrow(f) \/ SplitBuild(f)) \/ MapInstall \/ Rewrite \/ UnmapClear
         \/ ReclaimStop \/ ReclaimUnlink \/ ReclaimFree \/ SplitSwap \/ MergeWrite \/ MergeFree
  PROVE  CallInv'
<1>1. CASE MapInstall \/ Rewrite \/ ReclaimStop \/ SplitSwap \/ MergeFree
  BY <1>1, CallInvElsewhere DEF MapInstall, Rewrite, ReclaimStop, SplitSwap, MergeFree, Finish
<1>2. pc \in {"walk", "swap", "reclaim", "release"} => ArgCheck(req) = "Ok"
  BY DEF ContentInv, CallInv
<1>3. CASE UnmapClear
  BY <1>2, <1>3 DEF UnmapClear, AtLeaf, Exact, locals, CallInv
<1>4. CASE ReclaimUnlink
  BY <1>2, <1>4 DEF ReclaimUnlink, CallInv, IInv, WalkInv
<1>5. CASE ReclaimFree
  BY <1>2, <1>5 DEF ReclaimFree, Finish, CallInv
<1>6. CASE MergeWrite
  BY <1>2, <1>6 DEF MergeWrite, Merging, CallInv
<1>7. ASSUME NEW f \in Frames, MapGrow(f)
      PROVE  CallInv'
  <2>1. /\ pc = "walk" /\ UNCHANGED <<pc, req>> /\ lvl' = lvl - 1 /\ lvl \in 1..LEVELS
        /\ lvl > TargetLevel /\ req.op = "map"
    BY <1>7, AtSlot DEF MapGrow, Mapping
  <2>2. TargetLevel \in 1..LEVELS
    BY <1>2, <2>1, CallInProgress, LeafArguments DEF TargetLevel, Ops
  <2>3. lvl' >= TargetLevel'
    BY <2>1, <2>2 DEF TargetLevel
  <2> QED
    BY <1>2, <2>1, <2>3 DEF CallInv
<1>8. ASSUME NEW f \in Frames, SplitBuild(f)
      PROVE  CallInv'
  <2>1. /\ pc = "walk" /\ req.op = "split_at" /\ LeafCheck = "Ok" /\ owner[f] = "free"
        /\ mem' = [mem EXCEPT ![f] = [i \in Slots |-> Leaf(Slot.pa + i * Span[lvl-1], Slot.fl)]]
        /\ child' = f /\ pc' = "swap" /\ UNCHANGED <<req, cur, lvl>>
    BY <1>8 DEF SplitBuild, AtLeaf, Exact, alloc_table_frame
  <2>2. cur # f
    BY <2>1, AtSlot
  <2>3. Slot' = Slot
    BY <2>1, <2>2 DEF Slot, Idx, IInv, TypeOK
  <2>4. LeafCheck' = LeafCheck
    BY <2>1 DEF LeafCheck
  <2>5. \A i \in Slots : mem'[f][i] = Leaf(Slot.pa + i * Span[lvl-1], Slot.fl)
    BY <2>1 DEF IInv, TypeOK
  <2> QED
    BY <1>2, <2>1, <2>3, <2>4, <2>5 DEF CallInv
<1> QED
  BY <1>1, <1>3, <1>4, <1>5, <1>6, <1>7, <1>8

LEMMA CallInvStep ==
  ASSUME IInv, ContentInv, [Next]_vars
  PROVE  CallInv'
BY CallInvControlSteps, CallInvTableSteps DEF Next, Step

-------------------------------------------------------------------------------
(* The invariant. *)

LEMMA InitContentInv ==
  ASSUME Init
  PROVE  ContentInv
<1>1. Tables = {}
  <2>1. \A f \in Frames : ~(lev[f] > 0)
    BY DEF Init
  <2> QED
    BY <2>1 DEF Tables
<1>2. BlockInv /\ LeavesEncodable /\ UsedInv /\ ForeignInv /\ TightInv /\ CallInv
  BY <1>1 DEF Init, BlockInv, LeavesEncodable, UsedInv, ForeignInv, TightInv, CallInv
<1>3. DamageInv
  BY DEF Init, DamageInv, Damaged, ZeroTable, Unused, Invalid
<1> QED
  BY <1>2, <1>3 DEF ContentInv

\* What the tables hold: initially, and after every step from a state in which the
\* tree is sound.
THEOREM ContentInductive ==
  /\ Init => ContentInv
  /\ IInv /\ ContentInv /\ [Next]_vars => ContentInv'
<1>1. ASSUME IInv, ContentInv, [Next]_vars
      PROVE  ContentInv'
  <2>1. IInv'
    BY <1>1, IInvInductive
  <2>2. BlockInv'
    BY <1>1, BlockStep DEF ContentInv
  <2>3. LeavesEncodable' /\ UsedInv'
    BY <1>1, <2>1, <2>2, LeavesStep, UsedStep
  <2>4. ForeignInv' /\ DamageInv' /\ TightInv' /\ CallInv'
    BY <1>1, <2>1, ForeignStep, DamageStep, TightStep, CallInvStep
  <2> QED
    BY <2>2, <2>3, <2>4 DEF ContentInv
<1> QED
  BY <1>1, InitContentInv

\* Both invariants hold in every reachable state.
THEOREM ContentHolds == Spec => [](IInv /\ ContentInv)
BY IInvInductive, ContentInductive, PTL DEF Spec

\* Every leaf that the walker holds, at any moment of any call, is at a level that
\* supports leaves and has a physical base that the format can encode there.
THEOREM LeavesAreEncodable == Spec => []LeavesEncodable
<1>1. IInv /\ ContentInv => LeavesEncodable
  BY DEF ContentInv
<1> QED
  BY <1>1, ContentHolds, PTL

\* Between calls no table but the root is empty, unless a call failed half-way or the
\* adopted tree had empty tables: unmap's reclaim frees all that it should.
THEOREM TreeIsTight == Spec => []TightTree
<1>1. IInv /\ ContentInv => TightTree
  BY DEF ContentInv, TightInv, TightTree
<1> QED
  BY <1>1, ContentHolds, PTL

-------------------------------------------------------------------------------
(* The mappings. *)

\* The mapping that entry i of f makes.
LeafAt(f, i) == [pages |-> SlotCover(f, i), pa |-> mem[f][i].pa, fl |-> mem[f][i].fl]

\* The mappings are those of the leaf entries of linked tables.
LEMMA LeavesAre ==
  /\ \A f \in Linked, i \in Slots : mem[f][i].kind = "leaf" => LeafAt(f, i) \in Leaves
  /\ \A m \in Leaves : \E f \in Linked, i \in Slots : mem[f][i].kind = "leaf" /\ m = LeafAt(f, i)
<1>1. ASSUME NEW f \in Linked, NEW i \in Slots, mem[f][i].kind = "leaf"
      PROVE  LeafAt(f, i) \in Leaves
  <2>1. <<f, i>> \in {x \in Linked \X Slots : mem[x[1]][x[2]].kind = "leaf"}
    BY <1>1
  <2> QED
    BY <2>1 DEF Leaves, LeafAt
<1>2. ASSUME NEW m \in Leaves
      PROVE  \E f \in Linked, i \in Slots : mem[f][i].kind = "leaf" /\ m = LeafAt(f, i)
  <2>1. PICK s \in {x \in Linked \X Slots : mem[x[1]][x[2]].kind = "leaf"} :
          m = [pages |-> SlotCover(s[1], s[2]), pa |-> mem[s[1]][s[2]].pa, fl |-> mem[s[1]][s[2]].fl]
    BY DEF Leaves
  <2>2. s[1] \in Linked /\ s[2] \in Slots /\ mem[s[1]][s[2]].kind = "leaf"
    BY <2>1
  <2> QED
    BY <2>1, <2>2 DEF LeafAt
<1> QED
  BY <1>1, <1>2

\* An entry that is no table decides alone what its pages map to.
LEMMA OneLeaf ==
  ASSUME IInv, pc # "drop", NEW f \in Linked, NEW v \in cover[f],
         mem[f][index_at(lev[f], v)].kind # "table",
         NEW m \in Leaves, v \in m.pages
  PROVE  mem[f][index_at(lev[f], v)].kind = "leaf" /\ m = LeafAt(f, index_at(lev[f], v))
<1>1. PICK g \in Linked, j \in Slots : mem[g][j].kind = "leaf" /\ m = LeafAt(g, j)
  BY LeavesAre
<1>2. v \in cover[g] /\ index_at(lev[g], v) = j
  BY <1>1 DEF LeafAt, SlotCover
<1>3. f \in Tables /\ g \in Tables
  BY DEF Linked
<1>4. lev[f] \in Nat /\ lev[g] \in Nat
  BY <1>3 DEF Tables, IInv, TypeOK
<1>5. ~Links(f, index_at(lev[f], v)) /\ ~Links(g, index_at(lev[g], v))
  BY <1>1, <1>2 DEF Links
<1>6. f = g
  BY <1>2, <1>4, <1>5 DEF IInv, OnePath
<1> QED
  BY <1>1, <1>2, <1>6

-------------------------------------------------------------------------------
(* query. *)

\* The table of level l that serves page v, if there is one.
Serving(v, l) ==
  IF \E f \in Linked : lev[f] = l /\ v \in cover[f]
  THEN CHOOSE f \in Linked : lev[f] = l /\ v \in cover[f] ELSE NoFrame

\* There is at most one.
LEMMA ServingIs ==
  ASSUME IInv, NEW v, NEW l
  PROVE  /\ \A f \in Linked : lev[f] = l /\ v \in cover[f] => Serving(v, l) = f
         /\ Serving(v, l) # NoFrame => Serving(v, l) \in Linked /\ lev[Serving(v, l)] = l
                                       /\ v \in cover[Serving(v, l)]
<1>1. ASSUME NEW f \in Linked, NEW g \in Linked, lev[f] = l, lev[g] = l, v \in cover[f], v \in cover[g]
      PROVE  f = g
  BY <1>1 DEF IInv, OnePath
<1>2. \A f \in Linked : lev[f] = l /\ v \in cover[f] => Serving(v, l) = f
  BY <1>1 DEF Serving
<1>3. Serving(v, l) # NoFrame => \E f \in Linked : lev[f] = l /\ v \in cover[f]
  BY DEF Serving
<1> QED
  BY <1>2, <1>3

\* It is where the walk of query goes from the table above it.
LEMMA ServingBelow ==
  ASSUME IInv, pc # "drop", NEW v, NEW l \in 1..LEVELS-1
  PROVE  Serving(v, l) =
           IF Serving(v, l + 1) = NoFrame THEN NoFrame
           ELSE LET e == mem[Serving(v, l + 1)][index_at(l + 1, v)]
                IN IF e.kind = "table" THEN e.to ELSE NoFrame
<1> DEFINE g == Serving(v, l + 1)
           e == mem[g][index_at(l + 1, v)]
<1>0. l \in Nat /\ NoFrame \notin Frames /\ l # LEVELS /\ l + 1 \in 1..LEVELS
  BY FrameAssumption, SizesAreNat
<1>1. CASE g = NoFrame
  <2> SUFFICES ASSUME NEW f \in Linked, lev[f] = l, v \in cover[f]
               PROVE  FALSE
    BY <1>1 DEF Serving
  <2>1. f \in Tables \ {root, child}
    <3>1. f \in Tables /\ f \in Frames
      BY DEF Linked, Tables
    <3>2. f # root
      BY <1>0, <3>1 DEF IInv, RootInv
    <3>3. f # child
      BY DEF Linked
    <3> QED
      BY <3>1, <3>2, <3>3
  <2>2. PICK h \in Frames, i \in Slots : Links(h, i) /\ mem[h][i].to = f
    BY <2>1 DEF IInv, NoLostFrame
  <2>3. lev[f] = lev[h] - 1 /\ cover[f] = SlotCover(h, i) /\ h \in Linked
    BY <2>2 DEF IInv, NoDanglingTable, Links
  <2>4. lev[h] = l + 1 /\ v \in cover[h]
    <3>1. lev[h] \in Nat
      BY DEF IInv, TypeOK
    <3> QED
      BY <1>0, <2>3, <3>1 DEF SlotCover
  <2>5. g = h
    <3>1. \A x \in Linked : lev[x] = l + 1 /\ v \in cover[x] => Serving(v, l + 1) = x
      BY ServingIs
    <3> QED
      BY <2>3, <2>4, <3>1
  <2> QED
    BY <1>0, <1>1, <2>5
<1>2. CASE g # NoFrame
  <2>1. g \in Linked /\ lev[g] = l + 1 /\ v \in cover[g] /\ g \in Frames /\ g \in Tables
    BY <1>2, ServingIs DEF Linked, Tables
  <2>2. index_at(l + 1, v) \in Slots
    BY <2>1, CoverIndex DEF IInv
  <2>3. CASE e.kind = "table"
    <3>1. Links(g, index_at(l + 1, v))
      BY <2>1, <2>2, <2>3, LinksOutsideDrop
    <3>2. e.to \in Linked /\ lev[e.to] = lev[g] - 1 /\ cover[e.to] = SlotCover(g, index_at(l + 1, v))
      BY <2>1, <2>2, <3>1 DEF IInv, NoDanglingTable
    <3>3. lev[e.to] = l /\ v \in cover[e.to]
      BY <1>0, <2>1, <3>2 DEF SlotCover
    <3>4. Serving(v, l) = e.to
      BY <3>2, <3>3, ServingIs
    <3>5. (IF g = NoFrame THEN NoFrame ELSE IF e.kind = "table" THEN e.to ELSE NoFrame) = e.to
      BY <1>2, <2>3
    <3> HIDE DEF g, e
    <3> QED
      BY <3>4, <3>5 DEF g, e
  <2>4. CASE e.kind # "table"
    <3>1. ~Links(g, index_at(l + 1, v))
      BY <2>4 DEF Links
    <3>2. ASSUME NEW f \in Linked, lev[f] = l, v \in cover[f]
          PROVE  FALSE
      BY <1>0, <2>1, <3>1, <3>2 DEF IInv, OnePath
    <3>3. Serving(v, l) = NoFrame
      BY <3>2 DEF Serving
    <3> QED
      BY <1>2, <2>4, <3>3
  <2> QED
    BY <2>3, <2>4
<1> QED
  BY <1>1, <1>2

\* One step of the walk: where it is at level l, when at level l + 1 it is at W[l+1].
WalkFrom(W, v) ==
  [l \in 1..LEVELS |->
     IF l = LEVELS THEN root
     ELSE IF W[l+1] = NoFrame THEN NoFrame
     ELSE LET e == mem[W[l+1]][index_at(l + 1, v)]
          IN IF e.kind = "table" THEN e.to ELSE NoFrame]

\* TablesOnPath is defined by recursion on the level; a function that satisfies its
\* equation exists, so it does.
LEMMA WalkExists ==
  ASSUME NEW v, NEW W, W = WalkFrom(W, v)
  PROVE  TablesOnPath(v) = WalkFrom(TablesOnPath(v), v)
BY Zenon DEF TablesOnPath, WalkFrom

\* The walk of query finds the table of each level that serves the page.
LEMMA WalkIsServing ==
  ASSUME IInv, pc # "drop", root # NoFrame, NEW v \in ValidPages
  PROVE  /\ \A l \in 1..LEVELS : TablesOnPath(v)[l] = Serving(v, l)
         /\ Serving(v, LEVELS) = root
<1> DEFINE W == [l \in 1..LEVELS |-> Serving(v, l)]
           T == TablesOnPath(v)
<1>1. root \in Linked /\ lev[root] = LEVELS /\ cover[root] = ValidPages
  BY DEF IInv, RootInv
<1>2. Serving(v, LEVELS) = root
  BY <1>1, ServingIs
<1>3. W = WalkFrom(W, v)
  <2>1. ASSUME NEW l \in 1..LEVELS
        PROVE  W[l] = WalkFrom(W, v)[l]
    <3>1. CASE l = LEVELS
      BY <1>2, <3>1 DEF WalkFrom
    <3>2. CASE l # LEVELS
      <4>1. l \in 1..LEVELS-1 /\ l + 1 \in 1..LEVELS
        BY <3>2, SizesAreNat
      <4>2. W[l+1] = Serving(v, l + 1) /\ W[l] = Serving(v, l)
        BY <4>1
      <4> HIDE DEF W
      <4> QED
        BY <1>1, <3>2, <4>1, <4>2, ServingBelow DEF WalkFrom
    <3> QED
      BY <3>1, <3>2
  <2> QED
    BY <2>1 DEF WalkFrom
<1>4. T = WalkFrom(T, v)
  BY <1>3, WalkExists
<1> DEFINE P(l) == T[l] = W[l]
<1>5. P(LEVELS)
  <2>1. LEVELS \in 1..LEVELS
    BY SizesAreNat
  <2>2. WalkFrom(T, v)[LEVELS] = root
    BY <2>1 DEF WalkFrom
  <2> QED
    BY <1>2, <1>4, <2>1, <2>2
<1>6. ASSUME NEW l \in 1..LEVELS-1, P(l+1)
      PROVE  P(l)
  <2> HIDE DEF W, T
  <2>1. l \in 1..LEVELS /\ l # LEVELS
    BY SizesAreNat
  <2>2. T[l+1] = W[l+1]
    BY <1>6
  <2>3. WalkFrom(T, v)[l] = WalkFrom(W, v)[l]
    BY <2>1, <2>2 DEF WalkFrom
  <2> QED
    BY <1>3, <1>4, <2>3
<1> HIDE DEF P
<1>7. LEVELS \in 1..6
  BY GeometryAssumption DEF MAX_LEVELS
<1>8. \A l \in 1..LEVELS : P(l)
  BY <1>5, <1>6, <1>7
<1> QED
  BY <1>2, <1>8 DEF P

\* The level at which the walk ends.
LastLevel(v) ==
  CHOOSE k \in 1..LEVELS :
    TablesOnPath(v)[k] # NoFrame /\ (k > 1 => TablesOnPath(v)[k-1] = NoFrame)

\* There the walk is at a table that serves the page and whose entry for it is no
\* table.
LEMMA WalkEnds ==
  ASSUME IInv, pc # "drop", root # NoFrame, NEW v \in ValidPages
  PROVE  LET l == LastLevel(v)
             f == TablesOnPath(v)[l]
         IN /\ l \in 1..LEVELS /\ f \in Linked /\ lev[f] = l /\ v \in cover[f]
            /\ mem[f][index_at(l, v)].kind # "table"
<1> DEFINE T == TablesOnPath(v)
           Ends(k) == T[k] # NoFrame /\ (k > 1 => T[k-1] = NoFrame)
           P(k) == T[k] # NoFrame
<1>0. \A l \in 1..LEVELS : T[l] = Serving(v, l)
  BY WalkIsServing
<1>1. P(LEVELS)
  BY <1>0, WalkIsServing, SizesAreNat
<1>2. \E k \in 1..LEVELS : Ends(k)
  <2> SUFFICES ASSUME \A k \in 1..LEVELS : ~Ends(k)
               PROVE  FALSE
    OBVIOUS
  <2>1. ASSUME NEW k \in 1..LEVELS-1, P(k+1)
        PROVE  P(k)
    <3>1. k + 1 \in 1..LEVELS /\ k + 1 > 1 /\ (k + 1) - 1 = k
      BY SizesAreNat
    <3>2. ~Ends(k + 1)
      BY <3>1
    <3> QED
      BY <2>1, <3>1, <3>2
  <2>2. ~P(1)
    <3>1. 1 \in 1..LEVELS /\ ~(1 > 1)
      BY SizesAreNat
    <3>2. ~Ends(1)
      BY <3>1
    <3> QED
      BY <3>1, <3>2
  <2> HIDE DEF P, T
  <2>3. LEVELS \in 1..6
    BY GeometryAssumption DEF MAX_LEVELS
  <2> QED
    BY <1>1, <2>1, <2>2, <2>3
<1> DEFINE l == LastLevel(v)
           f == T[l]
<1>3. l \in 1..LEVELS /\ Ends(l)
  BY <1>2 DEF LastLevel
<1>4. f \in Linked /\ lev[f] = l /\ v \in cover[f]
  <2>1. f = Serving(v, l)
    BY <1>0, <1>3
  <2> QED
    BY <1>3, <2>1, ServingIs
<1>5. mem[f][index_at(l, v)].kind # "table"
  <2> SUFFICES ASSUME mem[f][index_at(l, v)].kind = "table"
               PROVE  FALSE
    OBVIOUS
  <2>1. f \in Frames /\ f \in Tables /\ index_at(l, v) \in Slots
    BY <1>4, CoverIndex DEF Linked, Tables, IInv
  <2> DEFINE t == mem[f][index_at(l, v)].to
  <2>2. Links(f, index_at(l, v))
    BY <1>4, <2>1, LinksOutsideDrop
  <2>3. t \in Linked /\ lev[t] = lev[f] - 1 /\ cover[t] = SlotCover(f, index_at(l, v))
    BY <2>1, <2>2 DEF IInv, NoDanglingTable
  <2>4. lev[t] = l - 1 /\ v \in cover[t] /\ t \in Frames /\ lev[t] > 0
    BY <1>3, <1>4, <2>3 DEF SlotCover, Linked, Tables
  <2> HIDE DEF t
  <2>5. l > 1 /\ l - 1 \in 1..LEVELS
    <3>1. l \in 1..LEVELS /\ l - 1 > 0
      BY <1>3, <2>4
    <3> HIDE DEF l
    <3> QED
      BY <3>1, SizesAreNat
  <2>6. T[l-1] = t
    <3>1. Serving(v, l - 1) = t
      BY <2>3, <2>4, ServingIs
    <3> QED
      BY <1>0, <2>5, <3>1
  <2> QED
    BY <1>3, <2>4, <2>5, <2>6, FrameAssumption
<1> QED
  BY <1>3, <1>4, <1>5

\* What query makes of the entry it finds.
LEMMA QueryResult ==
  ASSUME NEW v, NEW l, l = LastLevel(v), NEW e, e = mem[TablesOnPath(v)[l]][index_at(l, v)]
  PROVE  query(v) =
           IF ~vaddr_is_valid(v) THEN Err("AddressOutOfRange")
           ELSE IF e.kind = "none" THEN Err("NotMapped")
           ELSE IF e.kind = "invalid" THEN Err("InvalidEntryKind")
           ELSE IF Span[l] \notin NamedSizes THEN Err("UnsupportedSize")
           ELSE IF ~leaf_range_exists(v, l) THEN Err("AddressOutOfRange")
           ELSE [pages |-> Pages(leaf_range(v, l)), pa |-> e.pa, fl |-> e.fl]
BY Zenon DEF query, LastLevel

\* Mapped pages are valid.
LEMMA LeavesAreValid ==
  ASSUME IInv, NEW m \in Leaves
  PROVE  m.pages \subseteq ValidPages
<1>1. PICK f \in Linked, i \in Slots : m = LeafAt(f, i)
  BY LeavesAre
<1>2. cover[f] \subseteq ValidPages
  BY DEF Linked, Tables, IInv, TypeOK
<1> QED
  BY <1>1, <1>2 DEF LeafAt, SlotCover

\* The answer of query is the one mapping of the page.
LEMMA QueryExact ==
  ASSUME IInv, ContentInv
  PROVE  QueryIsExact
<1> SUFFICES ASSUME pc = "idle", root # NoFrame, NEW v \in 0..UMAX-1
             PROVE  LET found == {m \in Leaves : v \in m.pages} IN
                    IF found = {}
                    THEN query(v) \in {Err("NotMapped"), Err("AddressOutOfRange"), Err("InvalidEntryKind")}
                    ELSE \/ found = {query(v)}
                         \/ query(v) = Err("AddressOutOfRange") /\ \E m \in found : UMAX - 1 \in m.pages
  BY DEF QueryIsExact
<1> DEFINE found == {m \in Leaves : v \in m.pages}
           l == LastLevel(v)
           f == TablesOnPath(v)[l]
           i == index_at(l, v)
           e == mem[f][i]
<1>1. query(v) =
        IF ~vaddr_is_valid(v) THEN Err("AddressOutOfRange")
        ELSE IF e.kind = "none" THEN Err("NotMapped")
        ELSE IF e.kind = "invalid" THEN Err("InvalidEntryKind")
        ELSE IF Span[l] \notin NamedSizes THEN Err("UnsupportedSize")
        ELSE IF ~leaf_range_exists(v, l) THEN Err("AddressOutOfRange")
        ELSE [pages |-> Pages(leaf_range(v, l)), pa |-> e.pa, fl |-> e.fl]
  BY QueryResult
<1>2. CASE ~vaddr_is_valid(v)
  <2>1. found = {}
    BY <1>2, LeavesAreValid DEF ValidPages
  <2> QED
    BY <1>1, <1>2, <2>1
<1>3. CASE vaddr_is_valid(v)
  <2>1. v \in ValidPages
    BY <1>3 DEF ValidPages
  <2>2. l \in 1..LEVELS /\ f \in Linked /\ lev[f] = l /\ v \in cover[f] /\ e.kind # "table"
    BY <2>1, WalkEnds
  <2> HIDE DEF l, f
  <2>3. f \in Frames /\ f \in Tables /\ i \in Slots /\ e \in Entries
    <3>1. f \in Frames /\ f \in Tables
      BY <2>2 DEF Linked, Tables
    <3>2. i \in Slots
      BY <2>2, <3>1, CoverIndex DEF IInv
    <3> QED
      BY <3>1, <3>2 DEF IInv, TypeOK
  <2>4. \A m \in found : e.kind = "leaf" /\ m = LeafAt(f, i)
    BY <2>2, OneLeaf
  <2>5. CASE e.kind # "leaf"
    <3>1. e.kind \in {"none", "invalid"}
      BY <2>2, <2>3, <2>5, EntryKinds
    <3>2. found = {}
      BY <2>4, <2>5
    <3> QED
      BY <1>1, <1>3, <3>1, <3>2
  <2>6. CASE e.kind = "leaf"
    <3>1. LeafAt(f, i) \in Leaves /\ v \in LeafAt(f, i).pages
      BY <2>2, <2>3, <2>6, LeavesAre DEF LeafAt, SlotCover
    <3>2. found = {LeafAt(f, i)}
      BY <2>4, <3>1
    <3>3. Span[l] \in NamedSizes
      BY <2>2, <2>3, <2>6, GeometryAssumption DEF ContentInv, LeavesEncodable
    <3>4. SlotCover(f, i) = leaf_start(v, l) .. leaf_start(v, l) + Span[l] - 1
      BY <2>2, SlotPages DEF ContentInv
    <3>5. CASE leaf_range_exists(v, l)
      <4>1. Pages(leaf_range(v, l)) = SlotCover(f, i)
        <5>1. /\ leaf_range(v, l).start = leaf_start(v, l)
              /\ leaf_range(v, l).end = leaf_start(v, l) + Span[l]
          BY DEF leaf_range
        <5>2. Pages(leaf_range(v, l)) = leaf_start(v, l) .. (leaf_start(v, l) + Span[l]) - 1
          BY <5>1 DEF Pages
        <5>3. leaf_start(v, l) \in Int /\ Span[l] \in Int
          <6>1. Span[l] \in Int /\ Span[l] > 0 /\ v \in Int
            BY <2>2, SpanFacts, VaSizeFacts
          <6> QED
            BY <6>1, DivMod DEF leaf_start
        <5>4. (leaf_start(v, l) + Span[l]) - 1 = leaf_start(v, l) + Span[l] - 1
          BY <5>3
        <5> QED
          BY <3>4, <5>2, <5>4
      <4>2. query(v) = [pages |-> SlotCover(f, i), pa |-> e.pa, fl |-> e.fl]
        <5>1. e.kind # "none" /\ e.kind # "invalid"
          BY <2>6
        <5> HIDE DEF e
        <5> QED
          BY <1>1, <1>3, <3>3, <3>5, <4>1, <5>1
      <4>3. query(v) = LeafAt(f, i)
        BY <4>2 DEF LeafAt
      <4> QED
        BY <3>2, <4>3
    <3>6. CASE ~leaf_range_exists(v, l)
      <4>1. query(v) = Err("AddressOutOfRange")
        <5>1. e.kind # "none" /\ e.kind # "invalid"
          BY <2>6
        <5> HIDE DEF e
        <5> QED
          BY <1>1, <1>3, <3>3, <3>6, <5>1
      <4>2. UMAX - 1 \in SlotCover(f, i)
        <5>1. Span[l] \in Int /\ Span[l] > 0 /\ UMAX \in Int /\ v \in Int
          BY <2>2, SpanFacts, VaSizeFacts
        <5>2. leaf_start(v, l) \in Int /\ leaf_start(v, l) <= v
          BY <5>1, DivMod DEF leaf_start
        <5>3. leaf_start(v, l) + Span[l] >= UMAX
          BY <3>6, <5>1, <5>2 DEF leaf_range_exists
        <5> QED
          BY <3>4, <5>1, <5>2, <5>3
      <4> QED
        BY <3>2, <4>1, <4>2 DEF LeafAt
    <3> QED
      BY <3>5, <3>6
  <2> QED
    BY <2>5, <2>6
<1> QED
  BY <1>2, <1>3

\* Between calls query returns, for every address, the one mapping that covers it with
\* its whole range, and an error exactly when there is none it can express.
THEOREM QueryTellsTheMappings == Spec => []QueryIsExact
<1>1. IInv /\ ContentInv => QueryIsExact
  BY QueryExact
<1> QED
  BY <1>1, ContentHolds, PTL

===============================================================================

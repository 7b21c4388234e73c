------------------------- MODULE PageTableCursorProofs -------------------------
(***************************************************************************)
(* Proofs about PageTableCursor.  CursorInv is the walker's invariants,    *)
(* which every step of the cursor keeps because it is a step of the walker *)
(* or leaves memory alone, and what the cursor adds: that its cached       *)
(* tables serve the address they were found for (CacheInv), where a call   *)
(* of map has come to in its extents (BatchInv), and that what it has done *)
(* is mapped as the call says (DoneInv) and its changes queued (QueueInv). *)
(* The last two are about translations: a page is translated as the one    *)
(* leaf that covers it says (PageIs), so a step changes the pages of the   *)
(* leaves it changes and no others (PageChanges).                          *)
(***************************************************************************)
EXTENDS PageTableCursor, WalkerContractProofs, FiniteSetTheorems

-------------------------------------------------------------------------------
(* The extents of a call. *)

\* One step of the sums: what they are, when the sum before the last extent is s[k-1].
SumFrom(s, x, n) == [k \in 0..n |-> IF k = 0 THEN 0 ELSE s[k-1] + x[k].size]

\* SizeOf is defined by recursion on the number of extents: the sums exist.
LEMMA SumsExist ==
  ASSUME NEW x, Len(x) \in Nat
  PROVE  \E s : s = SumFrom(s, x, Len(x))
<1> DEFINE T == {n \in 0..Len(x) : ~\E s : s = SumFrom(s, x, n)}
<1> SUFFICES ASSUME Len(x) \in T
             PROVE  FALSE
  OBVIOUS
<1>1. PICK n \in T : \A k \in T : n <= k
  <2>1. T \in SUBSET Nat
    OBVIOUS
  <2> HIDE DEF T
  <2> QED
    BY <2>1, LeastElement
<1>2. n \in 0..Len(x) /\ ~\E s : s = SumFrom(s, x, n)
  BY <1>1
<1>3. CASE n = 0
  <2> DEFINE s == [k \in 0..0 |-> 0]
  <2>1. s = SumFrom(s, x, 0)
    BY DEF SumFrom
  <2> QED
    BY <1>2, <1>3, <2>1
<1>4. CASE n # 0
  <2>1. n - 1 \in 0..Len(x) /\ n - 1 \notin T
    BY <1>1, <1>2, <1>4
  <2>2. PICK s : s = SumFrom(s, x, n - 1)
    BY <2>1
  <2> DEFINE t == [k \in 0..n |-> IF k = n THEN s[n-1] + x[n].size ELSE s[k]]
  <2>3. ASSUME NEW k \in 0..n
        PROVE  t[k] = SumFrom(t, x, n)[k]
    <3>1. CASE k = n
      <4>1. t[n-1] = s[n-1] /\ t[k] = s[n-1] + x[n].size
        BY <1>2, <1>4, <3>1
      <4> HIDE DEF t
      <4> QED
        BY <1>4, <3>1, <4>1 DEF SumFrom
    <3>2. CASE k # n
      <4>1. k \in 0..n-1 /\ t[k] = s[k] /\ (k # 0 => t[k-1] = s[k-1])
        BY <1>2, <3>2
      <4>2. s[k] = SumFrom(s, x, n - 1)[k]
        BY <2>2
      <4> HIDE DEF t
      <4> QED
        BY <4>1, <4>2 DEF SumFrom
    <3> QED
      BY <3>1, <3>2
  <2>4. t = SumFrom(t, x, n)
    <3>1. SumFrom(t, x, n) = [k \in 0..n |-> SumFrom(t, x, n)[k]]
      BY DEF SumFrom
    <3>2. t = [k \in 0..n |-> t[k]]
      OBVIOUS
    <3> HIDE DEF t
    <3> QED
      BY <2>3, <3>1, <3>2
  <2> QED
    BY <1>2, <2>4
<1> QED
  BY <1>3, <1>4

\* They are what SizeOf says.
LEMMA SizeOfIsSum ==
  ASSUME NEW x, NEW s, s = SumFrom(s, x, Len(x))
  PROVE  \E t : t = SumFrom(t, x, Len(x)) /\ \A n : SizeOf(x, n) = t[n]
<1> DEFINE t == CHOOSE r : r = [k \in 0..Len(x) |-> IF k = 0 THEN 0 ELSE r[k-1] + x[k].size]
<1>1. t = SumFrom(t, x, Len(x))
  BY Zenon DEF SumFrom
<1>2. \A n : SizeOf(x, n) = t[n]
  BY Zenon DEF SizeOf
<1> QED
  BY <1>1, <1>2

Backings == Seq([pa: Nat, size: Nat])

\* An extent is a physical base and a size, both numbers.
LEMMA ExtentTypes ==
  ASSUME NEW x \in Backings
  PROVE  /\ Len(x) \in Nat /\ DOMAIN x = 1..Len(x)
         /\ \A n \in 1..Len(x) : x[n].pa \in Nat /\ x[n].size \in Nat
<1> DEFINE S == [pa: Nat, size: Nat]
<1>1. x \in Seq(S)
  BY DEF Backings
<1> HIDE DEF S
<1>2. Len(x) \in Nat /\ DOMAIN x = 1..Len(x) /\ \A n \in 1..Len(x) : x[n] \in S
  BY <1>1
<1> QED
  BY <1>2 DEF S

\* The recursion of SizeOf.
LEMMA SizeOfSteps ==
  ASSUME NEW x \in Backings
  PROVE  /\ SizeOf(x, 0) = 0
         /\ \A n \in 1..Len(x) : SizeOf(x, n) = SizeOf(x, n - 1) + x[n].size
<1>1. Len(x) \in Nat
  BY ExtentTypes
<1>2. PICK s : s = SumFrom(s, x, Len(x)) /\ \A n : SizeOf(x, n) = s[n]
  BY <1>1, SumsExist, SizeOfIsSum
<1>3. s[0] = 0 /\ \A n \in 1..Len(x) : s[n] = s[n-1] + x[n].size
  BY <1>1, <1>2 DEF SumFrom
<1> QED
  BY <1>2, <1>3

\* Sums are numbers ...
LEMMA SizeOfType ==
  ASSUME NEW x \in Backings, NEW n \in 0..Len(x)
  PROVE  SizeOf(x, n) \in Nat
<1> DEFINE T == {k \in 0..Len(x) : SizeOf(x, k) \notin Nat}
<1> SUFFICES ASSUME n \in T
             PROVE  FALSE
  OBVIOUS
<1>1. PICK k \in T : \A j \in T : k <= j
  <2>1. T \in SUBSET Nat
    OBVIOUS
  <2> HIDE DEF T
  <2> QED
    BY <2>1, LeastElement
<1>2. Len(x) \in Nat /\ k \in 0..Len(x) /\ SizeOf(x, k) \notin Nat
  BY <1>1, ExtentTypes
<1>3. k # 0
  BY <1>2, SizeOfSteps
<1>4. k - 1 \in 0..Len(x) /\ k - 1 \notin T
  BY <1>1, <1>2, <1>3
<1>5. SizeOf(x, k - 1) \in Nat
  BY <1>4
<1>6. k \in 1..Len(x) /\ x[k].size \in Nat
  BY <1>2, <1>3, ExtentTypes
<1> QED
  BY <1>2, <1>5, <1>6, SizeOfSteps

\* ... that grow with every extent that is not empty.
LEMMA SizeOfGrows ==
  ASSUME NEW x \in Backings, \A n \in 1..Len(x) : x[n].size # 0,
         NEW i \in 0..Len(x), NEW j \in 0..Len(x), i < j
  PROVE  SizeOf(x, i) < SizeOf(x, j)
<1> DEFINE T == {k \in 0..Len(x) : i < k /\ ~(SizeOf(x, i) < SizeOf(x, k))}
<1> SUFFICES ASSUME j \in T
             PROVE  FALSE
  OBVIOUS
<1>0. Len(x) \in Nat
  BY ExtentTypes
<1>1. PICK k \in T : \A m \in T : k <= m
  <2>1. T \in SUBSET Nat
    BY <1>0
  <2> HIDE DEF T
  <2> QED
    BY <2>1, LeastElement
<1>2. k \in 1..Len(x) /\ i < k /\ ~(SizeOf(x, i) < SizeOf(x, k)) /\ k - 1 \in 0..Len(x)
  BY <1>0, <1>1
<1>3. x[k].size \in Nat /\ x[k].size > 0
  BY <1>2, ExtentTypes
<1>4. SizeOf(x, i) \in Nat /\ SizeOf(x, k - 1) \in Nat /\ SizeOf(x, k) = SizeOf(x, k - 1) + x[k].size
  BY <1>2, SizeOfType, SizeOfSteps
<1>5. CASE i = k - 1
  BY <1>2, <1>3, <1>4, <1>5
<1>6. CASE i # k - 1
  <2>1. k - 1 \notin T
    BY <1>0, <1>1, <1>2
  <2>2. SizeOf(x, i) < SizeOf(x, k - 1)
    BY <1>0, <1>2, <1>6, <2>1
  <2> QED
    BY <1>2, <1>3, <1>4, <2>2
<1> QED
  BY <1>5, <1>6

\* A set of numbers with a bound has a greatest one.
LEMMA MaxIs ==
  ASSUME NEW T \in SUBSET Nat, NEW x \in T, NEW N \in Nat, \A y \in T : y <= N
  PROVE  Max(T) \in T /\ \A y \in T : y <= Max(T)
<1> DEFINE D == {N - y : y \in T}
<1>1. D \in SUBSET Nat /\ N - x \in D
  OBVIOUS
<1> HIDE DEF D
<1>2. PICK d \in D : \A e \in D : d <= e
  BY <1>1, LeastElement
<1>3. PICK z \in T : d = N - z
  BY <1>2 DEF D
<1>4. ASSUME NEW y \in T
      PROVE  z >= y
  <2>1. N - y \in D
    BY DEF D
  <2>2. N - z <= N - y /\ y \in Nat /\ z \in Nat
    BY <1>2, <1>3, <2>1
  <2> QED
    BY <2>2
<1>5. \E m \in T : \A y \in T : m >= y
  BY <1>4
<1>6. Max(T) \in T /\ \A y \in T : Max(T) >= y
  BY <1>5 DEF Max
<1>7. Max(T) \in Nat /\ \A y \in T : y \in Nat
  BY <1>6
<1> QED
  BY <1>6, <1>7

\* A set of addresses that is not empty has a least one.
LEMMA MinIs ==
  ASSUME NEW T \in SUBSET Nat, NEW x \in T
  PROVE  Min(T) \in T /\ \A y \in T : Min(T) <= y
<1>1. \E m \in T : \A y \in T : m <= y
  BY LeastElement
<1> QED
  BY <1>1 DEF Min

\* Multiples of a granule are a granule apart at least.
LEMMA WholeGranules ==
  ASSUME NEW g \in Nat, g # 0, NEW a \in Nat, NEW b \in Nat, a % g = 0, b % g = 0, a < b
  PROVE  a + g <= b /\ (a + g) % g = 0
<1> DEFINE p == a \div g
           q == b \div g
<1>1. p \in Int /\ q \in Int /\ a = g * p /\ b = g * q
  <2>1. a \div g \in Int /\ b \div g \in Int /\ a = g * (a \div g) + (a % g) /\ b = g * (b \div g) + (b % g)
    BY DivMod
  <2> QED
    BY <2>1
<1> HIDE DEF p, q
<1>2. p < q
  <2> SUFFICES ASSUME q <= p
               PROVE  FALSE
    BY <1>1
  <2>1. g * q <= g * p
    BY <1>1
  <2> QED
    BY <1>1, <2>1
<1>3. p + 1 <= q
  BY <1>1, <1>2
<1>4. g * (p + 1) <= g * q
  BY <1>1, <1>3
<1>5. g * (p + 1) = g * p + g /\ 0 \in 0..g-1
  BY <1>1
<1>6. (g * (p + 1) + 0) % g = 0
  BY <1>1, <1>5, DivUnique
<1> QED
  BY <1>1, <1>4, <1>5, <1>6

-------------------------------------------------------------------------------
(* A call that is accepted. *)

\* A call of map has the types of its arguments (BatchAssumption).
LEMMA BatchTypes ==
  ASSUME NEW b \in Batches
  PROVE  /\ b.start \in 0..UMAX-1 /\ b.end \in b.start..UMAX-1 /\ UMAX \in Nat
         /\ b.start \in Nat /\ b.end \in Nat /\ b.end < UMAX
         /\ b.extents \in Backings /\ b.granule \in Nat /\ b.fl \in Flags
         /\ (~b.scattered => Len(b.extents) = 1)
<1>1. UMAX \in Nat
  BY GeometryAssumption
<1>2. /\ b.start \in 0..UMAX-1 /\ b.end \in b.start..UMAX-1
      /\ b.extents \in Seq([pa: Nat, size: Nat]) /\ b.granule \in Nat /\ b.fl \in Flags
      /\ (~b.scattered => Len(b.extents) = 1)
  BY BatchAssumption
<1> QED
  BY <1>1, <1>2 DEF Backings

Accepts(b) == b \in Batches /\ BatchCheck(b) = "Ok"

\* What the checks of map, map_contiguous and map_scattered leave: extents that cover
\* the range, none of them empty, each a whole number of granules.
LEMMA Accepted ==
  ASSUME NEW b, Accepts(b)
  PROVE  /\ Len(b.extents) >= 1 /\ \A n \in 1..Len(b.extents) : b.extents[n].size # 0
         /\ SizeOf(b.extents, Len(b.extents)) = b.end - b.start
         /\ b.granule # 0 =>
              /\ size_is_supported(b.granule)
              /\ \A n \in 1..Len(b.extents) : b.extents[n].size % b.granule = 0
<1> DEFINE x == b.extents
           L == Len(b.extents)
<1>0. /\ b.start \in Nat /\ b.end \in Nat /\ x \in Backings /\ L \in Nat /\ DOMAIN x = 1..L
      /\ SizeOf(x, 0) = 0 /\ \A n \in 1..L : SizeOf(x, n) = SizeOf(x, n - 1) + x[n].size /\ x[n].size \in Nat
  BY BatchTypes, ExtentTypes, SizeOfSteps DEF Accepts
<1>1. SizeOf(x, L) = b.end - b.start /\ b.start # b.end
  BY DEF Accepts, BatchCheck, Size
<1>2. L >= 1
  BY <1>0, <1>1
<1>5. b.end - b.start # 0
  <2>1. \A m, n \in Nat : m # n => n - m # 0
    OBVIOUS
  <2> QED
    BY <1>0, <1>1, <2>1
<1> DEFINE Fine == /\ \A n \in 1..L : x[n].size # 0
                   /\ b.granule # 0 =>
                        size_is_supported(b.granule) /\ \A n \in 1..L : x[n].size % b.granule = 0
<1>3. ASSUME b.granule = 0
      PROVE  Fine
  <2>1. L = 1
    BY <1>3, BatchTypes DEF Accepts, BatchCheck
  <2> HIDE DEF L, x
  <2>2. x[1].size = b.end - b.start
    BY <1>0, <1>1, <2>1
  <2>3. x[1].size # 0
    BY <1>5, <2>2
  <2>4. \A n \in 1..L : n = 1
    BY <2>1
  <2>5. \A n \in 1..L : x[n].size # 0
    BY <2>3, <2>4
  <2> QED
    BY <1>3, <2>5
<1>4. ASSUME b.granule # 0
      PROVE  Fine
  <2>1. size_is_supported(b.granule) /\ \A n \in DOMAIN x : check_scatter_segment(x[n], b.granule)
    BY <1>4 DEF Accepts, BatchCheck
  <2>2. \A n \in 1..L : x[n].size # 0 /\ x[n].size % b.granule = 0
    BY <1>0, <2>1 DEF check_scatter_segment
  <2> QED
    BY <2>1, <2>2
<1> QED
  BY <1>1, <1>2, <1>3, <1>4

\* Where extent n of call b begins.
Starts(b, n) == b.start + SizeOf(b.extents, n - 1)

\* The extents of an accepted call lie one behind the other, from the start of its range
\* to the end.
LEMMA StartsAre ==
  ASSUME NEW b, Accepts(b)
  PROVE  LET L == Len(b.extents) IN
         /\ L \in Nat /\ DOMAIN b.extents = 1..L
         /\ \A n \in 1..L+1 : Starts(b, n) \in Nat /\ Starts(b, n) >= b.start
         /\ Starts(b, 1) = b.start /\ Starts(b, L + 1) = b.end
         /\ \A n \in 1..L : /\ b.extents[n].size \in Nat /\ b.extents[n].pa \in Nat
                            /\ Starts(b, n + 1) = Starts(b, n) + b.extents[n].size
         /\ \A m, n \in 1..L+1 : m < n => Starts(b, m) < Starts(b, n)
         /\ \A n \in 1..L+1 : Starts(b, n) <= b.end
<1> DEFINE x == b.extents
           L == Len(b.extents)
<1>0. b.start \in Nat /\ b.end \in Nat /\ x \in Backings
  BY BatchTypes DEF Accepts
<1>1. L \in Nat /\ DOMAIN x = 1..L /\ \A n \in 1..L : x[n].size \in Nat /\ x[n].pa \in Nat
  BY <1>0, ExtentTypes
<1>2. \A n \in 0..L : SizeOf(x, n) \in Nat
  BY <1>0, SizeOfType
<1>3. SizeOf(x, 0) = 0 /\ \A n \in 1..L : SizeOf(x, n) = SizeOf(x, n - 1) + x[n].size
  BY <1>0, SizeOfSteps
<1>4. SizeOf(x, L) = b.end - b.start /\ \A n \in 1..L : x[n].size # 0
  BY Accepted
<1>5. \A i, j \in 0..L : i < j => SizeOf(x, i) < SizeOf(x, j)
  BY <1>0, <1>4, SizeOfGrows
<1> HIDE DEF x, L
<1>6. \A n \in 1..L+1 : n - 1 \in 0..L /\ Starts(b, n) = b.start + SizeOf(x, n - 1)
  BY <1>1 DEF Starts, x
<1>7. \A n \in 1..L+1 : Starts(b, n) \in Nat /\ Starts(b, n) >= b.start
  BY <1>0, <1>2, <1>6
<1>8. Starts(b, 1) = b.start /\ Starts(b, L + 1) = b.end
  <2>1. 1 \in 1..L+1 /\ L + 1 \in 1..L+1 /\ 1 - 1 = 0 /\ (L + 1) - 1 = L
    BY <1>1
  <2> QED
    BY <1>0, <1>3, <1>4, <1>6, <2>1
<1>9. \A n \in 1..L : Starts(b, n + 1) = Starts(b, n) + x[n].size
  <2> TAKE n \in 1..L
  <2>1. n \in 1..L+1 /\ n + 1 \in 1..L+1 /\ (n + 1) - 1 = n /\ n \in 0..L /\ n - 1 \in 0..L
    BY <1>1
  <2>2. Starts(b, n + 1) = b.start + SizeOf(x, n) /\ Starts(b, n) = b.start + SizeOf(x, n - 1)
    BY <1>6, <2>1
  <2> QED
    BY <1>0, <1>1, <1>2, <1>3, <2>1, <2>2
<1>10. \A m, n \in 1..L+1 : m < n => Starts(b, m) < Starts(b, n)
  <2> TAKE m, n \in 1..L+1
  <2> HAVE m < n
  <2>1. m - 1 \in 0..L /\ n - 1 \in 0..L /\ m - 1 < n - 1
    BY <1>1
  <2>2. SizeOf(x, m - 1) < SizeOf(x, n - 1) /\ SizeOf(x, m - 1) \in Nat /\ SizeOf(x, n - 1) \in Nat
    BY <1>2, <1>5, <2>1
  <2> QED
    BY <1>0, <1>6, <2>2
<1>11. \A n \in 1..L+1 : Starts(b, n) <= b.end
  <2> TAKE n \in 1..L+1
  <2>1. (n = L + 1 \/ n < L + 1) /\ L + 1 \in 1..L+1
    BY <1>1
  <2>2. n < L + 1 => Starts(b, n) < b.end
    BY <1>8, <1>10, <2>1
  <2> QED
    BY <1>0, <1>7, <1>8, <2>1, <2>2
<1> QED
  BY <1>1, <1>7, <1>8, <1>9, <1>10, <1>11 DEF x, L

\* Where a call that is accepted has come to.
LEMMA InBatch ==
  ASSUME BatchInv, batch # NoBatch, BatchCheck(batch.of) = "Ok"
  PROVE  LET b == batch.of
             n == batch.next
             L == Len(b.extents) IN
         /\ Accepts(b) /\ b \in Batches /\ L \in Nat /\ n \in 1..L+1 /\ batch.at \in Nat /\ AcceptedInv
         /\ \A k : Begin(k) = Starts(b, k)
         /\ Starts(b, n) \in Nat /\ b.start <= Starts(b, n) /\ Starts(b, n) <= batch.at
         /\ n = L + 1 => batch.at = b.end
         /\ n # L + 1 => /\ n \in 1..L /\ batch.at < Starts(b, n + 1) /\ Starts(b, n + 1) <= b.end
                         /\ n + 1 \in 1..L+1 /\ Starts(b, n + 1) \in Nat
                         /\ Starts(b, n + 1) = Starts(b, n) + b.extents[n].size
                         /\ b.extents[n].size \in Nat /\ b.extents[n].pa \in Nat
<1> DEFINE b == batch.of
           n == batch.next
           L == Len(b.extents)
<1>1. batch \in [of: Batches, next: Nat, at: 0..UMAX-1] /\ AcceptedInv
  BY DEF BatchInv
<1>2. b \in Batches /\ batch.at \in 0..UMAX-1 /\ UMAX \in Nat
  BY <1>1, GeometryAssumption
<1>3. Accepts(b)
  BY <1>2 DEF Accepts
<1>4. \A k : Begin(k) = Starts(b, k)
  BY DEF Begin, Starts
<1>5. /\ n \in 1..L+1 /\ Begin(n) <= batch.at
      /\ IF n <= L THEN batch.at < Begin(n + 1) ELSE batch.at = b.end
  BY <1>1 DEF AcceptedInv
<1>6. /\ L \in Nat
      /\ \A k \in 1..L+1 : Starts(b, k) \in Nat /\ Starts(b, k) >= b.start /\ Starts(b, k) <= b.end
      /\ \A k \in 1..L : /\ b.extents[k].size \in Nat /\ b.extents[k].pa \in Nat
                         /\ Starts(b, k + 1) = Starts(b, k) + b.extents[k].size
  BY <1>3, StartsAre
<1> HIDE DEF b, n, L
<1>7. Starts(b, n) \in Nat /\ b.start <= Starts(b, n) /\ Starts(b, n) <= batch.at
  <2>1. b.start \in Nat
    BY <1>2, BatchTypes
  <2> QED
    BY <1>4, <1>5, <1>6, <2>1
<1>8. n = L + 1 => batch.at = b.end
  BY <1>5, <1>6
<1>9. n # L + 1 => n \in 1..L /\ n + 1 \in 1..L+1
  BY <1>5, <1>6
<1>10. n # L + 1 => batch.at < Starts(b, n + 1)
  BY <1>4, <1>5, <1>6, <1>9
<1> QED
  BY <1>1, <1>2, <1>3, <1>4, <1>5, <1>6, <1>7, <1>8, <1>9, <1>10 DEF b, n, L

\* The leaf that is mapped next fits in what is left of its extent.
LEMMA NextLeafFits ==
  ASSUME BatchInv, batch # NoBatch, BatchCheck(batch.of) = "Ok",
         batch.next # Len(batch.of.extents) + 1
  PROVE  LET b == batch.of
             s == leaf_size IN
         /\ s \in Nat /\ s > 0 /\ batch.at + s <= Starts(b, batch.next + 1) /\ s \in NamedSizes
         /\ b.granule # 0 => s = b.granule /\ ((batch.at + s) - Starts(b, batch.next)) % s = 0
<1> DEFINE b == batch.of
           n == batch.next
           at == batch.at
           z == Rest.size
           g == b.granule
           L == Len(b.extents)
<1>1. /\ Accepts(b) /\ at \in Nat /\ n \in 1..L /\ at < Starts(b, n + 1) /\ Starts(b, n + 1) \in Nat
      /\ Starts(b, n) \in Nat /\ Starts(b, n) <= at
      /\ Starts(b, n + 1) = Starts(b, n) + b.extents[n].size
      /\ b.extents[n].size \in Nat /\ b.extents[n].pa \in Nat /\ AcceptedInv
  BY InBatch
<1>2. g \in Nat /\ \A k : Begin(k) = Starts(b, k)
  BY <1>1, BatchTypes, InBatch DEF Accepts
<1>3. z = Starts(b, n + 1) - at /\ Rest.pa = b.extents[n].pa + (at - Starts(b, n))
  BY <1>2 DEF Rest
<1> HIDE DEF L
<1>7. z \in Nat /\ z > 0 /\ at + z = Starts(b, n + 1)
  <2>1. \A p, q \in Nat : p < q => q - p \in Nat /\ q - p > 0 /\ p + (q - p) = q
    OBVIOUS
  <2> QED
    BY <1>1, <1>3, <2>1
<1>8. Rest.pa \in Nat
  <2>1. \A p, q, r \in Nat : q <= r => p + (r - q) \in Nat
    OBVIOUS
  <2> QED
    BY <1>1, <1>3, <2>1
<1>4. leaf_size =
        IF at = Begin(n) /\ z \in NamedSizes /\ g \in {0, z} THEN z
        ELSE IF g # 0 THEN g
        ELSE Max({s \in {Span[l] : l \in LeafLevels} : s <= z /\ at % s = 0 /\ Rest.pa % s = 0})
  BY Zenon DEF leaf_size
<1>9. \A l \in LeafLevels : Span[l] \in NamedSizes
  BY GeometryAssumption
<1>5. CASE g # 0
  <2>1. (at - Starts(b, n)) % g = 0
    BY <1>1, <1>2, <1>5 DEF AcceptedInv
  <2>2. b.extents[n].size % g = 0
    BY <1>1, <1>5, Accepted DEF L
  <2>9. at \in Nat /\ Starts(b, n) \in Nat /\ Starts(b, n + 1) \in Nat /\ b.extents[n].size \in Nat
    BY <1>1
  <2> HIDE DEF b, n, at, z, g
  <2>3. at - Starts(b, n) \in Nat /\ at - Starts(b, n) < b.extents[n].size
    BY <1>1
  <2>4. /\ (at - Starts(b, n)) + g <= b.extents[n].size
        /\ ((at - Starts(b, n)) + g) % g = 0
    BY <1>1, <1>2, <1>5, <2>1, <2>2, <2>3, WholeGranules
  <2>5. leaf_size = g
    BY <1>4, <1>5
  <2>7. at + g <= Starts(b, n + 1)
    <3>1. \A p, q, r, k \in Nat : (p - q) + r <= k => p + r <= q + k
      OBVIOUS
    <3> QED
      BY <1>1, <1>2, <2>4, <2>9, <3>1
  <2>8. ((at + g) - Starts(b, n)) % g = 0
    <3>1. \A p, q, r \in Nat : (p + r) - q = (p - q) + r
      OBVIOUS
    <3>2. (at + g) - Starts(b, n) = (at - Starts(b, n)) + g
      BY <1>2, <2>9, <3>1
    <3> QED
      BY <2>4, <3>2
  <2>10. g > 0 /\ g \in Nat
    BY <1>2, <1>5
  <2>11. /\ leaf_size \in Nat /\ leaf_size > 0 /\ at + leaf_size <= Starts(b, n + 1)
         /\ leaf_size = g /\ ((at + leaf_size) - Starts(b, n)) % leaf_size = 0
    BY <2>5, <2>7, <2>8, <2>10
  <2>12. leaf_size \in NamedSizes
    <3>1. size_is_supported(g)
      BY <1>1, <1>5, Accepted DEF g, b
    <3> QED
      BY <1>9, <2>5, <3>1 DEF size_is_supported
  <2> QED
    BY <2>11, <2>12 DEF b, n, at, g
<1>6. CASE g = 0
  <2> DEFINE T == {s \in {Span[l] : l \in LeafLevels} : s <= z /\ at % s = 0 /\ Rest.pa % s = 0}
  <2>1. T \in SUBSET Nat /\ \A s \in T : s > 0 /\ s <= z
    <3>1. \A l \in LeafLevels : Span[l] \in Nat /\ Span[l] > 0
      BY GeometryAssumption
    <3> QED
      BY <3>1
  <2>2. 1 \in T
    <3>1. 1 \in {Span[l] : l \in LeafLevels}
      <4>1. 1 \in LeafLevels /\ Span[1] = 1
        BY CursorAssumption, GeometryAssumption
      <4> QED
        BY <4>1
    <3>2. at % 1 = 0 /\ Rest.pa % 1 = 0
      <4>1. \A x \in Nat : x % 1 = 0
        OBVIOUS
      <4> QED
        BY <1>1, <1>8, <4>1
    <3> QED
      BY <1>7, <3>1, <3>2
  <2> HIDE DEF T
  <2>3. Max(T) \in T
    BY <1>7, <2>1, <2>2, MaxIs
  <2>4. leaf_size = z \/ leaf_size = Max(T)
    BY <1>4, <1>6 DEF T
  <2>7. Max(T) \in NamedSizes
    BY <1>9, <2>3 DEF T
  <2>8. leaf_size \in NamedSizes
    BY <1>4, <1>6, <2>7 DEF T
  <2> HIDE DEF z, at, b, n, g
  <2>5. leaf_size \in Nat /\ leaf_size > 0 /\ leaf_size <= z
    <3>1. Max(T) \in Nat /\ Max(T) > 0 /\ Max(T) <= z
      BY <2>1, <2>3
    <3>2. z <= z
      BY <1>7
    <3> QED
      BY <1>7, <2>4, <3>1, <3>2
  <2>6. at + leaf_size <= Starts(b, n + 1)
    <3>1. \A p, q, r \in Nat : q <= r => p + q <= p + r
      OBVIOUS
    <3> QED
      BY <1>1, <1>7, <2>5, <3>1
  <2> QED
    BY <1>6, <2>5, <2>6, <2>8 DEF b, n, at, g
<1> QED
  BY <1>5, <1>6

\* So it ends in the range of the call, at an address that can be represented.
LEMMA NextLeafIsCall ==
  ASSUME BatchInv, batch # NoBatch, BatchCheck(batch.of) = "Ok",
         batch.next # Len(batch.of.extents) + 1
  PROVE  /\ NextLeaf \in Calls /\ NextLeaf.op = "map" /\ NextLeaf.start = batch.at
         /\ NextLeaf.end = batch.at + leaf_size /\ NextLeaf.end <= batch.of.end
         /\ NextLeaf.fl = batch.of.fl /\ NextLeaf.pa = Rest.pa
         /\ Size(NextLeaf) = leaf_size /\ batch.of.start <= batch.at
<1> DEFINE b == batch.of
           n == batch.next
           at == batch.at
<1>1. /\ Accepts(b) /\ b \in Batches /\ at \in Nat /\ Starts(b, n + 1) \in Nat /\ Starts(b, n + 1) <= b.end
      /\ Starts(b, n) \in Nat /\ Starts(b, n) <= at /\ b.start <= Starts(b, n)
      /\ b.extents[n].pa \in Nat /\ \A k : Begin(k) = Starts(b, k)
  BY InBatch
<1>2. leaf_size \in Nat /\ leaf_size > 0 /\ at + leaf_size <= Starts(b, n + 1)
  BY NextLeafFits
<1>3. b.end \in Nat /\ b.end < UMAX /\ b.start \in Nat /\ b.fl \in Flags /\ UMAX \in Nat
  BY <1>1, BatchTypes
<1>4. Rest.pa = b.extents[n].pa + (at - Starts(b, n))
  BY <1>1 DEF Rest
<1>5. NextLeaf = [op |-> "map", start |-> at, end |-> at + leaf_size, pa |-> Rest.pa, fl |-> b.fl]
  BY DEF NextLeaf
<1> HIDE DEF b, n, at
<1>6. Rest.pa \in Nat /\ at \in 0..UMAX-1 /\ at + leaf_size \in 0..UMAX-1 /\ at + leaf_size <= b.end
      /\ (at + leaf_size) - at = leaf_size /\ b.start <= at
  BY <1>1, <1>2, <1>3, <1>4
<1>7. NextLeaf \in Calls
  BY <1>3, <1>5, <1>6 DEF Calls, Ops
<1> QED
  BY <1>5, <1>6, <1>7 DEF Size, b, n, at

\* What the next leaf is depends on the call in progress alone.
LEMMA BatchSame ==
  ASSUME batch' = batch
  PROVE  UNCHANGED <<Rest, leaf_size, NextLeaf, LeafArgs>> /\ \A k : UNCHANGED Begin(k)
<1>1. \A k : Begin(k)' = Begin(k)
  BY DEF Begin
<1>2. Rest' = Rest
  BY <1>1 DEF Rest
<1>3. leaf_size' = leaf_size
  BY <1>1, <1>2 DEF leaf_size
<1>4. NextLeaf' = NextLeaf
  BY <1>2, <1>3 DEF NextLeaf
<1>5. LeafArgs' = LeafArgs
  BY <1>2, <1>3, <1>4 DEF LeafArgs
<1> QED
  BY <1>1, <1>2, <1>3, <1>4, <1>5

\* A step inside an accepted call.
LEMMA BatchGoesOn ==
  ASSUME BatchInv, batch # NoBatch, BatchCheck(batch.of) = "Ok", batch' = batch,
         pc' \in {"idle", "walk", "flush", "return"},
         pc' \in {"walk", "flush"} =>
           batch.next \in 1..Len(batch.of.extents) /\ LeafArgs = "Ok" /\ req' = NextLeaf,
         pc' = "return" /\ ret' = "Ok" => batch.next = Len(batch.of.extents) + 1
  PROVE  BatchInv'
<1>1. batch \in [of: Batches, next: Nat, at: 0..UMAX-1] /\ AcceptedInv
  BY DEF BatchInv
<1>2. NextLeaf' = NextLeaf /\ LeafArgs' = LeafArgs /\ \A k : Begin(k)' = Begin(k)
  BY BatchSame
<1>3. Len(batch.of.extents) \in Nat
  BY InBatch
<1>4. AcceptedInv'
  BY <1>1, <1>2, <1>3 DEF AcceptedInv
<1> QED
  BY <1>1, <1>4 DEF BatchInv

\* A call is between two leaves.
LEMMA BatchBetween ==
  ASSUME NEW b, Accepts(b), NEW n \in 1..Len(b.extents)+1, NEW a \in 0..UMAX-1,
         batch' = [of |-> b, next |-> n, at |-> a], pc' = "idle", Starts(b, n) <= a,
         IF n = Len(b.extents) + 1 THEN a = b.end ELSE a < Starts(b, n + 1),
         b.granule # 0 => (a - Starts(b, n)) % b.granule = 0
  PROVE  BatchInv'
<1>1. b \in Batches /\ BatchCheck(b) = "Ok" /\ Len(b.extents) \in Nat
  BY StartsAre DEF Accepts
<1>2. batch'.of = b /\ batch'.next = n /\ batch'.at = a
  OBVIOUS
<1>3. \A k : Begin(k)' = Starts(b, k)
  BY <1>2 DEF Begin, Starts
<1>4. n <= Len(b.extents) <=> n # Len(b.extents) + 1
  BY <1>1
<1>5. AcceptedInv'
  BY <1>2, <1>3, <1>4 DEF AcceptedInv
<1>6. batch' \in [of: Batches, next: Nat, at: 0..UMAX-1]
  BY <1>1
<1> QED
  BY <1>1, <1>2, <1>5, <1>6 DEF BatchInv

\* The checks of a call answer Ok or one of the errors.
LEMMA ChecksRefuse == \A b : BatchCheck(b) \in Results
BY DEF BatchCheck, Results

\* A call begins.
LEMMA BatchBegins ==
  ASSUME NEW b \in Batches, map(b)
  PROVE  BatchInv'
<1>1. batch' = [of |-> b, next |-> 1, at |-> b.start] /\ pc = "idle"
  BY DEF map
<1>2. b.start \in 0..UMAX-1 /\ b.start \in Nat /\ b.end \in Nat
  BY BatchTypes
<1>3. CASE BatchCheck(b) = "Ok"
  <2>1. Accepts(b) /\ pc' = "idle"
    BY <1>1, <1>3 DEF Accepts, map
  <2>2. /\ Len(b.extents) >= 1 /\ Len(b.extents) \in Nat /\ Starts(b, 1) = b.start
        /\ 1 \in 1..Len(b.extents)+1 /\ 1 + 1 \in 1..Len(b.extents)+1 /\ 1 # Len(b.extents) + 1
    BY <2>1, Accepted, StartsAre
  <2>3. Starts(b, 1) < Starts(b, 1 + 1)
    BY <2>1, <2>2, StartsAre
  <2>4. b.granule # 0 => (b.start - Starts(b, 1)) % b.granule = 0
    <3>1. b.granule \in Nat
      BY BatchTypes
    <3>2. \A g \in Nat : g # 0 => 0 % g = 0
      OBVIOUS
    <3> QED
      BY <1>2, <2>2, <3>1, <3>2
  <2> QED
    BY <1>1, <1>2, <2>1, <2>2, <2>3, <2>4, BatchBetween
<1>4. CASE BatchCheck(b) # "Ok"
  <2>1. pc' = "return" /\ ret' # "Ok"
    BY <1>4 DEF map, Finish
  <2>2. batch' \in [of: Batches, next: Nat, at: 0..UMAX-1] /\ batch'.of = b /\ batch'.at = b.start
    BY <1>1, <1>2
  <2> QED
    BY <1>4, <2>1, <2>2 DEF BatchInv
<1> QED
  BY <1>3, <1>4

\* A leaf of the call is mapped, and its flush is queued.
LEMMA BatchAdvances ==
  ASSUME BatchInv, LeafDone
  PROVE  BatchInv'
<1> DEFINE b == batch.of
           n == batch.next
           a == batch.at + leaf_size
<1>1. /\ pc = "flush" /\ batch # NoBatch /\ pc' = "idle"
      /\ batch' = [batch EXCEPT !.at = req.end, !.next = IF req.end = Begin(@ + 1) THEN @ + 1 ELSE @]
  BY DEF LeafDone
<1>2. BatchCheck(batch.of) = "Ok" /\ AcceptedInv /\ batch \in [of: Batches, next: Nat, at: 0..UMAX-1]
  BY <1>1 DEF BatchInv
<1>3. n <= Len(b.extents) /\ req = NextLeaf
  BY <1>1, <1>2 DEF AcceptedInv
<1>4. /\ Accepts(b) /\ b \in Batches /\ Len(b.extents) \in Nat /\ n \in 1..Len(b.extents)+1
      /\ batch.at \in Nat /\ Starts(b, n) \in Nat /\ Starts(b, n) <= batch.at
      /\ \A k : Begin(k) = Starts(b, k)
  BY <1>1, <1>2, InBatch
<1>5. batch.next # Len(batch.of.extents) + 1
  BY <1>3, <1>4
<1>6. /\ leaf_size \in Nat /\ leaf_size > 0 /\ a <= Starts(b, n + 1)
      /\ b.granule # 0 => leaf_size = b.granule /\ (a - Starts(b, n)) % leaf_size = 0
  BY <1>1, <1>2, <1>5, NextLeafFits
<1>7. req.end = a /\ a <= b.end
  BY <1>1, <1>2, <1>3, <1>5, NextLeafIsCall
<1>8. /\ n + 1 \in 1..Len(b.extents)+1 /\ Starts(b, n + 1) \in Nat
  BY <1>1, <1>2, <1>5, InBatch
<1>9. b.end \in Nat /\ b.end < UMAX /\ UMAX \in Nat /\ b.granule \in Nat
  BY <1>4, BatchTypes
<1>10. batch' = [of |-> b, next |-> IF a = Starts(b, n + 1) THEN n + 1 ELSE n, at |-> a]
  BY <1>1, <1>2, <1>4, <1>7
<1>11. a \in Nat /\ a \in 0..UMAX-1 /\ Starts(b, n) <= a /\ n \in Nat
  <2>1. batch.at + leaf_size \in Nat /\ batch.at <= batch.at + leaf_size
    BY <1>4, <1>6
  <2> HIDE DEF a, b, n
  <2>2. a \in Nat /\ batch.at <= a
    BY <2>1 DEF a
  <2> QED
    BY <1>4, <1>7, <1>9, <2>2
<1> HIDE DEF a, b, n
<1>12. CASE a = Starts(b, n + 1)
  <2>1. (a - Starts(b, n + 1)) = 0 /\ \A g \in Nat : g # 0 => 0 % g = 0
    BY <1>12, <1>11
  <2>2. b.granule # 0 => (a - Starts(b, n + 1)) % b.granule = 0
    BY <1>9, <2>1
  <2>3. CASE n + 1 = Len(b.extents) + 1
    <3>1. a = b.end
      BY <1>4, <1>12, <2>3, StartsAre
    <3>2. Starts(b, n + 1) <= a /\ batch' = [of |-> b, next |-> n + 1, at |-> a]
      BY <1>10, <1>11, <1>12
    <3>3. IF n + 1 = Len(b.extents) + 1 THEN a = b.end ELSE a < Starts(b, (n + 1) + 1)
      BY <2>3, <3>1
    <3> QED
      BY <1>1, <1>4, <1>8, <1>11, <2>2, <3>2, <3>3, BatchBetween
  <2>4. CASE n + 1 # Len(b.extents) + 1
    <3>1. n + 1 \in 1..Len(b.extents)+1 /\ (n + 1) + 1 \in 1..Len(b.extents)+1 /\ n + 1 < (n + 1) + 1
      BY <1>4, <1>8, <2>4
    <3>2. Starts(b, n + 1) < Starts(b, (n + 1) + 1)
      BY <1>4, <3>1, StartsAre
    <3>3. Starts(b, n + 1) <= a
      BY <1>12, <1>11
    <3> QED
      BY <1>1, <1>4, <1>8, <1>10, <1>11, <1>12, <2>2, <2>4, <3>2, <3>3, BatchBetween
  <2> QED
    BY <2>3, <2>4
<1>13. CASE a # Starts(b, n + 1)
  <2>1. a < Starts(b, n + 1)
    BY <1>6, <1>8, <1>11, <1>13
  <2>2. b.granule # 0 => (a - Starts(b, n)) % b.granule = 0
    BY <1>6
  <2>3. n # Len(b.extents) + 1
    BY <1>5 DEF b, n
  <2> QED
    BY <1>1, <1>4, <1>10, <1>11, <1>13, <2>1, <2>2, <2>3, BatchBetween
<1> QED
  BY <1>12, <1>13

-------------------------------------------------------------------------------
(* The cached descent. *)

\* Two addresses with the same indices above level l are in the same block of the
\* entries of level l + 1.
LEMMA SharedBlock ==
  ASSUME NEW u \in ValidPages, NEW v \in ValidPages, NEW l \in 1..LEVELS-1,
         \A k \in l+1..LEVELS : index_at(k, u) = index_at(k, v)
  PROVE  u \div Span[l+1] = v \div Span[l+1]
<1> DEFINE P(k) == k \in l+1..LEVELS => u \div Span[k] = v \div Span[k]
<1>0. LEVELS \in Nat /\ l \in Nat /\ l + 1 <= LEVELS /\ u \in Int /\ v \in Int /\ E \in Int /\ E > 0
  BY SizesAreNat, PageIsNat
<1>1. P(LEVELS)
  BY <1>0, RootIndex
<1>2. ASSUME NEW k \in 1..LEVELS-1, P(k + 1)
      PROVE  P(k)
  <2> SUFFICES ASSUME k \in l+1..LEVELS
               PROVE  u \div Span[k] = v \div Span[k]
    OBVIOUS
  <2>1. k + 1 \in l+1..LEVELS /\ k # LEVELS /\ k \in 1..LEVELS
    BY <1>0
  <2>2. Span[k] \in Int /\ Span[k] > 0 /\ Span[k+1] = E * Span[k]
    BY <2>1, SpanFacts
  <2>3. u \div (E * Span[k]) = v \div (E * Span[k])
    BY <1>2, <2>1, <2>2
  <2>4. (u \div Span[k]) % E = (v \div Span[k]) % E
    <3>1. index_at(k, u) = index_at(k, v)
      OBVIOUS
    <3> QED
      BY <2>1, <3>1 DEF index_at
  <2> QED
    BY <1>0, <2>2, <2>3, <2>4, SameIndex
<1> HIDE DEF P
<1>3. LEVELS \in 1..6
  BY GeometryAssumption DEF MAX_LEVELS
<1>4. \A k \in 1..LEVELS : P(k)
  BY <1>1, <1>2, <1>3
<1>5. l + 1 \in 1..LEVELS /\ l + 1 \in l+1..LEVELS
  BY <1>0
<1> QED
  BY <1>4, <1>5 DEF P

\* So the table below serves both or neither.
LEMMA SharedTable ==
  ASSUME IInv, BlockInv, NEW u, NEW v \in ValidPages, NEW l \in 1..LEVELS-1, NEW f, Serves(f, l, u),
         \A k \in l+1..LEVELS : index_at(k, u) = index_at(k, v)
  PROVE  Serves(f, l, v)
<1>1. f \in Linked /\ lev[f] = l /\ u \in cover[f] /\ l < LEVELS
  BY SizesAreNat DEF Serves
<1>2. f \in Tables /\ u \in ValidPages
  BY <1>1 DEF Linked, Tables, IInv, TypeOK
<1>3. u \div Span[l+1] = v \div Span[l+1]
  BY <1>2, SharedBlock
<1>4. v \in cover[f] <=> v \div Span[l+1] = u \div Span[l+1]
  BY <1>1, <1>2 DEF BlockInv
<1> QED
  BY <1>1, <1>3, <1>4 DEF Serves

\* There is a root level, and levels are numbers.
LEMMA LevelsFacts == /\ LEVELS \in Nat /\ LEVELS >= 1 /\ 1..LEVELS \in SUBSET Nat
BY SizesAreNat

\* Above the level that can be reused the indices agree.
LEMMA ReusableLevel ==
  ASSUME NEW v
  PROVE  /\ reusable_level(v) \in 1..LEVELS
         /\ last_vaddr = NoPage => reusable_level(v) = LEVELS
         /\ last_vaddr # NoPage =>
              \A k \in 1..LEVELS : k > reusable_level(v) => index_at(k, last_vaddr) = index_at(k, v)
<1> DEFINE T == {1} \cup {l \in 1..LEVELS : index_at(l, last_vaddr) # index_at(l, v)}
<1>1. T \in SUBSET (1..LEVELS) /\ T \in SUBSET Nat /\ 1 \in T /\ \A y \in T : y <= LEVELS
  BY LevelsFacts
<1>2. \A k \in 1..LEVELS : index_at(k, last_vaddr) # index_at(k, v) => k \in T
  OBVIOUS
<1>3. reusable_level(v) = IF last_vaddr = NoPage THEN LEVELS ELSE Max(T)
  BY DEF reusable_level
<1> HIDE DEF T
<1>4. Max(T) \in T /\ \A y \in T : y <= Max(T)
  BY <1>1, LevelsFacts, MaxIs
<1>5. LEVELS \in 1..LEVELS
  BY LevelsFacts
<1>7. Max(T) \in 1..LEVELS
  BY <1>1, <1>4
<1>6. \A k \in 1..LEVELS : k > Max(T) => k \notin T
  <2>1. \A j, k \in 1..LEVELS : k > j => ~(k <= j)
    BY LevelsFacts
  <2> QED
    BY <1>4, <1>7, <2>1
<1> QED
  BY <1>2, <1>3, <1>5, <1>6, <1>7

\* The walk starts at the root or at a cached table, and not below the leaf.
LEMMA WalkStarts ==
  ASSUME NEW v, NEW target \in 1..LEVELS
  PROVE  /\ StartLevel(v, target) \in 1..LEVELS
         /\ StartLevel(v, target) >= target /\ StartLevel(v, target) >= reusable_level(v)
         /\ StartLevel(v, target) # LEVELS => descent[StartLevel(v, target)] # NoFrame
                                              /\ StartLevel(v, target) \in 1..LEVELS-1
<1> DEFINE R == reusable_level(v)
           M == Max({R, target})
           T == {l \in M..LEVELS : \A k \in l..LEVELS-1 : descent[k] # NoFrame}
<1>1. R \in 1..LEVELS /\ LEVELS \in Nat /\ R \in Nat /\ target \in Nat
  BY ReusableLevel, LevelsFacts
<1> HIDE DEF R
<1>2. M \in {R, target} /\ R <= M /\ target <= M
  <2>1. {R, target} \in SUBSET Nat /\ \A y \in {R, target} : y <= LEVELS
    BY <1>1
  <2> QED
    BY <1>1, <2>1, MaxIs
<1>3. M \in 1..LEVELS
  BY <1>1, <1>2
<1>4. StartLevel(v, target) = Min(T)
  BY DEF StartLevel, R
<1> HIDE DEF M
<1>5. T \in SUBSET Nat /\ LEVELS \in T
  BY <1>1, <1>3
<1>6. \A l \in T : l \in M..LEVELS /\ (l # LEVELS => descent[l] # NoFrame)
  BY <1>1, <1>3
<1> HIDE DEF T
<1>7. Min(T) \in T
  BY <1>5, MinIs
<1>8. \A l \in M..LEVELS : l \in 1..LEVELS /\ l >= target /\ l >= R /\ (l # LEVELS => l \in 1..LEVELS-1)
  BY <1>1, <1>2, <1>3
<1> QED
  BY <1>4, <1>6, <1>7, <1>8 DEF R

-------------------------------------------------------------------------------
(* The tree is sound after the steps of the cursor. *)

\* A step that leaves memory alone and begins a descent, if at all, at a table that
\* serves the leaf.
LEMMA QuietStep ==
  ASSUME IInv, ContentInv, pc \in {"idle", "flush"}, pc' \in {"idle", "walk", "return"}, root # NoFrame,
         UNCHANGED <<memory, ghosts, path, pos, child, untidy>>,
         req' \in Calls \cup {NoReq}, cur' \in Frames \cup {NoFrame}, lvl' \in 0..LEVELS, ret' \in Results,
         pc' = "return" => ret' # "none",
         pc' = "walk" => /\ req' \in Calls /\ req'.op = "map" /\ ArgCheck(req') = "Ok"
                         /\ lvl' \in 1..LEVELS /\ lvl' >= size_to_level(Size(req'))
                         /\ Serves(cur', lvl', req'.start)
  PROVE  IInv' /\ ContentInv'
<1>1. /\ UNCHANGED <<mem, owner, root, lev, cover, child, path, pos, untidy>>
      /\ child = NoFrame /\ pos = NoPos
      /\ root \in Linked /\ lev[root] = LEVELS /\ cover[root] = ValidPages
  BY DEF memory, ghosts, IInv, ChildInv, DropInv, RootInv
<1>2. TreeInv'
  BY <1>1, TreeUntouched
<1>3. Linked' = Linked /\ Tables' = Tables /\ \A f \in Linked : f \in Frames
  BY <1>1 DEF Linked, Tables
<1>4. TypeOK'
  BY <1>1, <1>3 DEF IInv, TypeOK, Serves
<1>5. RootInv' /\ ChildInv' /\ DropInv'
  BY <1>1, <1>3 DEF RootInv, ChildInv, DropInv
<1>6. pc' = "walk" => size_is_supported(Size(req'))
  BY AcceptedArguments
<1>7. WalkInv'
  BY <1>1, <1>3, <1>6 DEF WalkInv, AtTable, Serves
<1>8. IInv'
  BY <1>2, <1>4, <1>5, <1>7 DEF IInv, TreeInv
<1>9. BlockInv' /\ LeavesEncodable' /\ UsedInv' /\ ForeignInv' /\ DamageInv'
  BY <1>1, <1>3 DEF ContentInv, BlockInv, LeavesEncodable, UsedInv, ForeignInv, DamageInv, SlotCover
<1>10. TightInv'
  BY <1>1, TightSame DEF MayBeEmpty
<1>11. CallInv'
  BY DEF CallInv, TargetLevel
<1> QED
  BY <1>8, <1>9, <1>10, <1>11 DEF ContentInv

\* The conditions under which a leaf may be mapped are met.
LEMMA LeafIsCall ==
  ASSUME BatchInv, batch # NoBatch, BatchCheck(batch.of) = "Ok",
         batch.next # Len(batch.of.extents) + 1, LeafArgs = "Ok"
  PROVE  /\ ArgCheck(NextLeaf) = "Ok" /\ NextLeaf.start \in ValidPages
         /\ size_is_supported(Size(NextLeaf)) /\ size_to_level(leaf_size) \in 1..LEVELS
<1>1. /\ NextLeaf \in Calls /\ NextLeaf.op = "map" /\ NextLeaf.start = batch.at
      /\ NextLeaf.end = batch.at + leaf_size /\ NextLeaf.pa = Rest.pa /\ Size(NextLeaf) = leaf_size
  BY NextLeafIsCall
<1>2. leaf_size > 0 /\ leaf_size \in Nat
  BY NextLeafFits
<1>3. NextLeaf.start # NextLeaf.end
  <2>1. batch.at \in Nat
    BY InBatch
  <2> QED
    BY <1>1, <1>2, <2>1
<1>4. exact_leaf_size(NextLeaf, NextLeaf.pa) = "Ok"
  BY <1>1 DEF LeafArgs
<1>5. ArgCheck(NextLeaf) = "Ok"
  BY <1>1, <1>3, <1>4 DEF ArgCheck
<1>6. NextLeaf.start \in ValidPages /\ size_is_supported(Size(NextLeaf))
  BY <1>1, <1>5, AcceptedArguments
<1> QED
  BY <1>1, <1>5, <1>6, TargetLevelType

\* What LeafArgs answers is a result.
LEMMA LeafArgsType ==
  ASSUME BatchInv, batch # NoBatch, BatchCheck(batch.of) = "Ok",
         batch.next # Len(batch.of.extents) + 1
  PROVE  LeafArgs \in Results /\ LeafArgs # "none"
<1>1. check_leaf_range(NextLeaf) \in Results \ {"none"}
  BY DEF check_leaf_range, Results
<1>2. LeafArgs # "None"
  <2>1. Size(NextLeaf) = leaf_size
    BY NextLeafIsCall
  <2>2. leaf_size \in NamedSizes
    BY NextLeafFits
  <2> QED
    BY <1>1, <2>1, <2>2 DEF LeafArgs, exact_leaf_size, Results
<1> QED
  BY <1>1, <1>2 DEF LeafArgs, exact_leaf_size, Results

\* What the steps that leave the tree alone do to the descent.
LEMMA ServesSame ==
  ASSUME UNCHANGED <<lev, cover, child>>
  PROVE  Linked' = Linked /\ \A f, l, v : Serves(f, l, v)' <=> Serves(f, l, v)
BY DEF Serves, Linked, Tables

\* A cached table that is not below the level that can be reused serves the page as well.
LEMMA ReusableServes ==
  ASSUME IInv, BlockInv, CacheInv, ~Mapping, NEW v \in ValidPages, NEW l \in 1..LEVELS-1,
         l >= reusable_level(v), descent[l] # NoFrame
  PROVE  Serves(descent[l], l, v)
<1>1. l \in Nat /\ LEVELS \in Nat /\ l < LEVELS
  BY SizesAreNat
<1>2. last_vaddr # NoPage
  BY <1>1, ReusableLevel
<1>3. Serves(descent[l], l, last_vaddr)
  BY <1>2 DEF CacheInv
<1>4. \A k \in l+1..LEVELS : index_at(k, last_vaddr) = index_at(k, v)
  <2> TAKE k \in l+1..LEVELS
  <2>1. reusable_level(v) \in 1..LEVELS
    BY ReusableLevel
  <2>2. k \in 1..LEVELS /\ k > reusable_level(v)
    BY <1>1, <2>1
  <2> QED
    BY <1>2, <2>2, ReusableLevel
<1> QED
  BY <1>3, <1>4, SharedTable

\* A leaf of a call is begun.
LEMMA MapLeafStep ==
  ASSUME IInv, ContentInv, CacheInv, BatchInv, map_leaf
  PROVE  IInv' /\ ContentInv' /\ CacheInv' /\ BatchInv'
<1> DEFINE v == batch.at
           t == size_to_level(leaf_size)
           s == StartLevel(v, t)
           R == reusable_level(v)
<1>1. /\ pc = "idle" /\ batch # NoBatch /\ batch.next \in DOMAIN batch.of.extents
      /\ req' = NextLeaf
      /\ UNCHANGED <<memory, ghosts, path, pos, child, untidy, open, last_vaddr, batch, queued>>
  BY DEF map_leaf
<1>2. BatchCheck(batch.of) = "Ok"
  BY <1>1 DEF BatchInv
<1>3. /\ Len(batch.of.extents) \in Nat /\ batch.next \in 1..Len(batch.of.extents)
      /\ batch.next # Len(batch.of.extents) + 1
  <2>1. Accepts(batch.of)
    BY <1>1, <1>2, InBatch
  <2> QED
    BY <1>1, <2>1, StartsAre
<1>4. /\ NextLeaf \in Calls /\ NextLeaf.op = "map" /\ NextLeaf.start = v
      /\ Size(NextLeaf) = leaf_size
  BY <1>1, <1>2, <1>3, NextLeafIsCall
<1>5. open /\ root # NoFrame /\ ~Mapping
  BY <1>1 DEF CacheInv, Mapping
<1>6. cur \in Frames \cup {NoFrame} /\ lvl \in 0..LEVELS /\ ret \in Results
  BY DEF IInv, TypeOK
<1>7. CASE LeafArgs # "Ok"
  <2>1. pc' = "return" /\ ret' = LeafArgs /\ UNCHANGED <<cur, lvl, descent>>
    BY <1>7 DEF map_leaf, Finish
  <2>2. LeafArgs \in Results /\ LeafArgs # "none"
    BY <1>1, <1>2, <1>3, LeafArgsType
  <2>3. IInv' /\ ContentInv'
    BY <1>1, <1>4, <1>5, <1>6, <2>1, <2>2, QuietStep
  <2>4. CacheInv'
    <3>1. UNCHANGED <<lev, cover, child, root, open, last_vaddr, descent, batch>>
      BY <1>1, <2>1 DEF memory, ghosts
    <3>2. ~Mapping'
      BY <2>1 DEF Mapping
    <3> QED
      BY <1>1, <1>5, <2>1, <3>1, <3>2, ServesSame DEF CacheInv
  <2>5. BatchInv'
    BY <1>1, <1>2, <1>7, <2>1, BatchGoesOn
  <2> QED
    BY <2>3, <2>4, <2>5
<1>8. CASE LeafArgs = "Ok"
  <2>1. /\ descent' = invalidate_below(R) /\ pc' = "walk" /\ lvl' = s
        /\ cur' = (IF s = LEVELS THEN root ELSE descent[s]) /\ ret' = ret
    BY <1>8 DEF map_leaf
  <2>2. ArgCheck(NextLeaf) = "Ok" /\ v \in ValidPages /\ t \in 1..LEVELS
    BY <1>1, <1>2, <1>3, <1>4, <1>8, LeafIsCall
  <2>3. s \in 1..LEVELS /\ s >= t /\ s >= R /\ (s # LEVELS => descent[s] # NoFrame /\ s \in 1..LEVELS-1)
    BY <2>2, WalkStarts
  <2>4. \A l \in 1..LEVELS-1 : l >= R /\ descent[l] # NoFrame => Serves(descent[l], l, v)
    BY <1>5, <2>2, ReusableServes DEF ContentInv
  <2> HIDE DEF s, R, t
  <2>5. Serves(cur', s, v)
    <3>1. CASE s = LEVELS
      <4>1. root \in Linked /\ lev[root] = LEVELS /\ cover[root] = ValidPages
        BY <1>5 DEF IInv, RootInv
      <4> QED
        BY <2>1, <2>2, <3>1, <4>1 DEF Serves
    <3>2. CASE s # LEVELS
      BY <2>1, <2>3, <2>4, <3>2
    <3> QED
      BY <3>1, <3>2
  <2>6. IInv' /\ ContentInv'
    <3>1. cur' \in Frames \cup {NoFrame}
      BY <2>5 DEF Serves, Linked, Tables
    <3>2. lvl' \in 0..LEVELS /\ lvl' \in 1..LEVELS /\ lvl' >= size_to_level(Size(req'))
      BY <1>1, <1>4, <2>1, <2>3 DEF t
    <3> QED
      BY <1>1, <1>4, <1>5, <1>6, <2>1, <2>2, <2>5, <3>1, <3>2, QuietStep
  <2>7. CacheInv'
    <3>1. UNCHANGED <<lev, cover, child, root, open, last_vaddr, batch>>
      BY <1>1 DEF memory, ghosts
    <3>2. Mapping' /\ req'.start = v /\ req'.op = "map"
      BY <1>1, <1>4, <2>1 DEF Mapping
    <3>3. descent' \in [1..LEVELS-1 -> Frames \cup {NoFrame}]
      <4>1. descent \in [1..LEVELS-1 -> Frames \cup {NoFrame}]
        BY DEF CacheInv
      <4> QED
        BY <2>1, <4>1 DEF invalidate_below
    <3>4. \A l \in 1..LEVELS-1 : descent'[l] # NoFrame => Serves(descent'[l], l, v)
      <4> TAKE l \in 1..LEVELS-1
      <4> HAVE descent'[l] # NoFrame
      <4>1. descent'[l] = IF l < R THEN NoFrame ELSE descent[l]
        BY <2>1 DEF invalidate_below
      <4>2. l \in Nat /\ R \in Nat
        BY ReusableLevel, LevelsFacts DEF R
      <4>3. l >= R /\ descent'[l] = descent[l]
        BY <4>1, <4>2
      <4> QED
        BY <2>4, <4>3
    <3>5. \A l \in 1..LEVELS-1 : descent'[l] # NoFrame => Serves(descent[l], l, req.start)'
      <4>1. \A f, l, u : Serves(f, l, u)' <=> Serves(f, l, u)
        BY <3>1, ServesSame
      <4> QED
        BY <3>1, <3>2, <3>4, <4>1 DEF Serves
    <3>6. /\ open' \in BOOLEAN /\ last_vaddr' \in ValidPages \cup {NoPage}
          /\ open' => root' # NoFrame /\ pc' # "drop"
          /\ batch' # NoBatch \/ last_vaddr' # NoPage => open'
      BY <1>1, <1>5, <2>1, <3>1 DEF CacheInv
    <3> QED
      BY <2>1, <3>2, <3>3, <3>5, <3>6 DEF CacheInv
  <2>8. BatchInv'
    BY <1>1, <1>2, <1>3, <1>8, <2>1, BatchGoesOn
  <2> QED
    BY <2>6, <2>7, <2>8
<1> QED
  BY <1>7, <1>8

\* The steps of the cursor that are steps of the walker.
LEMMA WalkerSteps ==
  ASSUME \/ ~open /\ Next
         \/ CursorDescend \/ CursorRefuse \/ CursorInstall
         \/ \E r \in Requests : CursorCall(r)
         \/ CursorStep \/ CursorQueue \/ CursorReturn
  PROVE  Next
<1>1. CursorDescend => Next
  BY DEF CursorDescend, Next, Step
<1>2. CursorRefuse => Next
  BY DEF CursorRefuse, Next, Step
<1>3. CursorInstall => Next
  BY DEF CursorInstall, Next, Step
<1>4. (\E r \in Requests : CursorCall(r)) => Next
  BY DEF CursorCall, Next
<1>5. CursorStep => Next
  BY DEF CursorStep, Next, Step
<1>6. CursorQueue => Next
  <2>1. CursorQueue => Flush
    BY DEF CursorQueue, Flush
  <2> QED
    BY <2>1 DEF Next, Step
<1>7. CursorReturn => Next
  BY DEF CursorReturn, Next, Step
<1> QED
  BY <1>1, <1>2, <1>3, <1>4, <1>5, <1>6, <1>7

\* With no address mapped last, outside a map, there is nothing to keep.
LEMMA CacheOff ==
  ASSUME descent' \in [1..LEVELS-1 -> Frames \cup {NoFrame}], last_vaddr' = NoPage, ~Mapping',
         open' \in BOOLEAN, open' => root' # NoFrame /\ pc' # "drop", batch' # NoBatch => open'
  PROVE  CacheInv'
BY DEF CacheInv

\* A step that leaves the tables and the descent alone.
LEMMA CacheStays ==
  ASSUME CacheInv, open, UNCHANGED <<lev, cover, child, root, open, descent, last_vaddr>>,
         pc' # "drop", ~Mapping',  ~Mapping,
         last_vaddr # NoPage => pc' \notin {"reclaim", "release", "swap"} /\ (pc' = "walk" => req'.op # "unmap")
  PROVE  CacheInv'
<1>1. Linked' = Linked /\ \A f, l, v : Serves(f, l, v)' <=> Serves(f, l, v)
  BY ServesSame
<1>2. last_vaddr' # NoPage => \A l \in 1..LEVELS-1 : descent'[l] # NoFrame => Serves(descent[l], l, last_vaddr)'
  BY <1>1 DEF CacheInv, Serves
<1>3. /\ open' \in BOOLEAN /\ descent' \in [1..LEVELS-1 -> Frames \cup {NoFrame}]
      /\ last_vaddr' \in ValidPages \cup {NoPage} /\ root' # NoFrame
  BY DEF CacheInv
<1> QED
  BY <1>2, <1>3 DEF CacheInv

\* Without a cursor there is no call of it.
LEMMA ClosedStep ==
  ASSUME CacheInv, ~open, UNCHANGED <<open, cache, batch, queued>>
  PROVE  CacheInv' /\ BatchInv'
<1>1. last_vaddr = NoPage /\ batch = NoBatch /\ UNCHANGED <<open, descent, last_vaddr, batch>>
  BY DEF CacheInv, cache
<1> QED
  BY <1>1 DEF CacheInv, BatchInv

\* CacheInv bounds the fields of the cursor.
LEMMA CacheTypes ==
  ASSUME CacheInv
  PROVE  /\ open \in BOOLEAN /\ descent \in [1..LEVELS-1 -> Frames \cup {NoFrame}]
         /\ NoDescent \in [1..LEVELS-1 -> Frames \cup {NoFrame}]
         /\ last_vaddr \in ValidPages \cup {NoPage}
         /\ open => root # NoFrame /\ pc # "drop"
         /\ batch # NoBatch \/ last_vaddr # NoPage => open
BY DEF CacheInv, NoDescent

\* A cursor is opened, is closed, begins a call or ends one.
LEMMA CursorEnds ==
  ASSUME IInv, ContentInv, CacheInv, BatchInv,
         new \/ finish \/ (\E b \in Batches : map(b)) \/ LeafDone \/ BatchDone
  PROVE  IInv' /\ ContentInv' /\ CacheInv' /\ BatchInv'
<1>0. /\ root # NoFrame => cur \in Frames \cup {NoFrame} /\ lvl \in 0..LEVELS /\ ret \in Results
                           /\ req \in Calls \cup {NoReq}
      /\ NoFrame \in Frames \cup {NoFrame} /\ 0 \in 0..LEVELS /\ NoReq \in Calls \cup {NoReq}
      /\ pc = "return" => ret # "none"
  BY LevelsFacts DEF IInv, TypeOK, ContentInv, CallInv
<1>1. CASE new \/ finish
  <2>1. /\ UNCHANGED <<vars, batch>> /\ descent' = NoDescent /\ last_vaddr' = NoPage
        /\ open' \in BOOLEAN /\ root # NoFrame /\ pc = "idle" /\ batch = NoBatch
    BY <1>1, CacheTypes DEF new, finish
  <2>2. IInv' /\ ContentInv'
    BY <2>1, IInvInductive, ContentInductive
  <2>3. UNCHANGED <<root, pc, req, batch>> /\ ~Mapping'
    BY <2>1 DEF vars, memory, Mapping
  <2>4. CacheInv'
    BY <2>1, <2>3, CacheOff, CacheTypes
  <2>5. BatchInv'
    BY <2>1 DEF BatchInv
  <2> QED
    BY <2>2, <2>4, <2>5
<1>2. CASE \E b \in Batches : map(b)
  <2>1. PICK b \in Batches : map(b)
    BY <1>2
  <2>2. /\ pc = "idle" /\ open /\ batch' # NoBatch
        /\ UNCHANGED <<memory, ghosts, req, locals, untidy, open, cache, queued>>
        /\ \/ pc' = "idle" /\ ret' = ret
           \/ pc' = "return" /\ ret' = BatchCheck(b) /\ ret' # "none"
    <3>1. \A c : BatchCheck(c) # "none"
      BY DEF BatchCheck
    <3>2. [of |-> b, next |-> 1, at |-> b.start] # NoBatch
      BY DEF NoBatch
    <3> QED
      BY <2>1, <3>1, <3>2 DEF map, Finish
  <2>3. ret' \in Results
    BY <1>0, <2>2, CacheTypes, ChecksRefuse
  <2>4. /\ UNCHANGED <<mem, owner, root, lev, cover, cur, lvl, path, pos, child>>
        /\ UNCHANGED <<descent, last_vaddr>>
    BY <2>2 DEF memory, ghosts, locals, cache
  <2>5. root # NoFrame
    BY <2>2, CacheTypes
  <2>6. IInv' /\ ContentInv'
    BY <1>0, <2>2, <2>3, <2>4, <2>5, QuietStep
  <2>7. ~Mapping /\ ~Mapping'
    BY <2>2 DEF Mapping
  <2>8. CacheInv'
    BY <2>2, <2>4, <2>7, CacheStays
  <2>9. BatchInv'
    BY <2>1, BatchBegins
  <2> QED
    BY <2>6, <2>8, <2>9
<1>3. CASE LeafDone
  <2>1. /\ pc = "flush" /\ pc' = "idle" /\ open /\ req' = NoReq /\ cur' = NoFrame /\ lvl' = 0
        /\ UNCHANGED <<memory, ghosts, path, pos, child, ret, untidy, open, cache, queued>>
    BY <1>3 DEF LeafDone
  <2>2. root # NoFrame
    BY <2>1, CacheTypes
  <2>3. IInv' /\ ContentInv'
    BY <1>0, <2>1, <2>2, QuietStep
  <2>4. ~Mapping /\ ~Mapping'
    BY <2>1 DEF Mapping
  <2>5. UNCHANGED <<lev, cover, child, root, open, descent, last_vaddr>>
    BY <2>1 DEF memory, ghosts, cache
  <2>6. CacheInv'
    BY <2>1, <2>4, <2>5, CacheStays
  <2>7. BatchInv'
    BY <1>3, BatchAdvances
  <2> QED
    BY <2>3, <2>6, <2>7
<1>4. CASE BatchDone
  <2>1. /\ pc = "idle" /\ pc' = "return" /\ ret' = "Ok" /\ batch # NoBatch
        /\ batch.next \notin DOMAIN batch.of.extents
        /\ UNCHANGED <<memory, ghosts, req, locals, untidy, open, cache, batch, queued>>
    BY <1>4 DEF BatchDone, Finish
  <2>2. open /\ root # NoFrame
    BY <2>1, CacheTypes
  <2>3. UNCHANGED <<lev, cover, child, root, open, descent, last_vaddr, cur, lvl, path, pos>>
    BY <2>1 DEF memory, ghosts, cache, locals
  <2>4. IInv' /\ ContentInv'
    <3>1. "Ok" \in Results /\ "Ok" # "none"
      BY DEF Results
    <3> QED
      BY <1>0, <2>1, <2>2, <2>3, <3>1, QuietStep
  <2>5. ~Mapping /\ ~Mapping'
    BY <2>1 DEF Mapping
  <2>6. CacheInv'
    BY <2>1, <2>2, <2>3, <2>5, CacheStays
  <2>7. BatchCheck(batch.of) = "Ok"
    BY <2>1 DEF BatchInv
  <2>8. batch.next = Len(batch.of.extents) + 1
    <3>1. Len(batch.of.extents) \in Nat /\ DOMAIN batch.of.extents = 1..Len(batch.of.extents)
      BY <2>1, <2>7, InBatch, StartsAre
    <3>2. batch.next \in 1..Len(batch.of.extents)+1
      BY <2>1, <2>7, InBatch
    <3> QED
      BY <2>1, <3>1, <3>2
  <2>9. BatchInv'
    BY <2>1, <2>7, <2>8, BatchGoesOn
  <2> QED
    BY <2>4, <2>6, <2>9
<1> QED
  BY <1>1, <1>2, <1>3, <1>4

\* In a call, the descent of a map is that of the call's next leaf.
LEMMA InCall ==
  ASSUME BatchInv, batch # NoBatch, pc \in {"walk", "flush", "reclaim", "release"}
  PROVE  /\ pc \in {"walk", "flush"} /\ BatchCheck(batch.of) = "Ok" /\ AcceptedInv
         /\ batch.next \in 1..Len(batch.of.extents) /\ LeafArgs = "Ok" /\ req = NextLeaf /\ req.op = "map"
         /\ batch.next # Len(batch.of.extents) + 1
<1>1. pc \in {"walk", "flush"} /\ BatchCheck(batch.of) = "Ok" /\ AcceptedInv
  BY DEF BatchInv
<1>2. /\ batch.next \in 1..Len(batch.of.extents)+1 /\ batch.next <= Len(batch.of.extents)
      /\ LeafArgs = "Ok" /\ req = NextLeaf
  BY <1>1 DEF AcceptedInv
<1>3. Len(batch.of.extents) \in Nat
  BY <1>1, InBatch
<1>4. batch.next \in 1..Len(batch.of.extents) /\ batch.next # Len(batch.of.extents) + 1
  BY <1>2, <1>3
<1> QED
  BY <1>1, <1>2, <1>4 DEF NextLeaf

\* A step of the walker in a call, which does not return Ok.
LEMMA BatchWalks ==
  ASSUME BatchInv, pc \in {"walk", "flush"}, batch' = batch,
         \/ pc' \in {"walk", "flush"} /\ req' = req
         \/ pc' = "return" /\ ret' # "Ok"
  PROVE  BatchInv'
<1>1. CASE batch = NoBatch
  BY <1>1 DEF BatchInv
<1>2. CASE batch # NoBatch
  <2>1. /\ BatchCheck(batch.of) = "Ok" /\ LeafArgs = "Ok" /\ req = NextLeaf
        /\ batch.next \in 1..Len(batch.of.extents)
    BY <1>2, InCall
  <2> QED
    BY <1>2, <2>1, BatchGoesOn
<1> QED
  BY <1>1, <1>2

\* One level down, into a table that was there or a new one, which the cursor caches.
LEMMA DescendStep ==
  ASSUME IInv, ContentInv, CacheInv, BatchInv, CursorDescend
  PROVE  CacheInv' /\ BatchInv'
<1>1. /\ open /\ pc = "walk" /\ pc' = "walk" /\ req.op = "map" /\ req' = req /\ lvl' = lvl - 1
      /\ UNCHANGED <<root, child, open, last_vaddr, batch>> /\ descent' = [descent EXCEPT ![lvl-1] = cur']
  <2>1. CASE MapDescend
    BY <2>1 DEF CursorDescend, CacheTable, MapDescend, StepDown, Mapping, memory
  <2>2. CASE \E f \in Frames : MapGrow(f)
    BY <2>2 DEF CursorDescend, CacheTable, MapGrow, Mapping
  <2> QED
    BY <2>1, <2>2 DEF CursorDescend
<1>2. IInv'
  BY WalkerSteps, IInvInductive
<1>3. Serves(cur, lvl, req.start)' /\ lvl' \in 1..LEVELS /\ cur' \in Frames /\ lvl \in 1..LEVELS
  <2>1. AtTable'
    BY <1>1, <1>2 DEF IInv, WalkInv
  <2>2. lvl' \in 1..LEVELS /\ cur' \in Frames
    BY <1>1, <1>2 DEF IInv, TypeOK
  <2>3. lvl \in 1..LEVELS
    BY <1>1 DEF IInv, TypeOK
  <2> QED
    BY <2>1, <2>2, <2>3 DEF AtTable, Serves
<1>4. \A f \in Linked : f \in Linked' /\ lev'[f] = lev[f] /\ cover'[f] = cover[f]
  <2>1. CASE MapDescend
    BY <2>1 DEF MapDescend, StepDown, ghosts, Linked, Tables
  <2>2. CASE \E f \in Frames : MapGrow(f)
    <3>1. PICK f \in Frames : MapGrow(f)
      BY <2>2
    <3>2. owner[f] = "free" /\ lev' = [lev EXCEPT ![f] = lvl - 1] /\ child' = child
          /\ cover' = [cover EXCEPT ![f] = SlotCover(cur, Idx)]
      BY <3>1 DEF MapGrow, alloc_table_frame
    <3>3. f \notin Tables
      BY <3>2 DEF IInv, NoLostFrame
    <3>4. \A g \in Linked : g \in Frames /\ g \in Tables /\ g # f /\ g # child
      BY <3>3 DEF Linked, Tables
    <3>5. \A g \in Linked : lev'[g] = lev[g] /\ cover'[g] = cover[g]
      BY <3>2, <3>4 DEF IInv, TypeOK
    <3>6. \A g \in Linked : g \in Linked'
      BY <3>2, <3>4, <3>5 DEF Linked, Tables
    <3> QED
      BY <3>5, <3>6
  <2> QED
    BY <2>1, <2>2 DEF CursorDescend
<1>5. \A f, l, v : Serves(f, l, v) => Serves(f, l, v)'
  BY <1>4 DEF Serves
<1>6. descent \in [1..LEVELS-1 -> Frames \cup {NoFrame}] /\ lvl - 1 \in 1..LEVELS-1
  BY <1>1, <1>3, CacheTypes, LevelsFacts
<1>7. \A l \in 1..LEVELS-1 : descent'[l] # NoFrame => Serves(descent[l], l, req.start)'
  <2> TAKE l \in 1..LEVELS-1
  <2>1. CASE l = lvl - 1
    <3>1. descent'[l] = cur' /\ lvl' = l
      BY <1>1, <1>6, <2>1
    <3> QED
      BY <1>3, <3>1 DEF Serves
  <2>2. CASE l # lvl - 1
    <3>1. descent'[l] = descent[l]
      BY <1>1, <1>6, <2>2
    <3>2. descent[l] # NoFrame => Serves(descent[l], l, req.start)
      BY <1>1 DEF CacheInv, Mapping
    <3> QED
      BY <1>1, <1>5, <3>1, <3>2 DEF Serves
  <2> QED
    BY <2>1, <2>2
<1>8. descent' \in [1..LEVELS-1 -> Frames \cup {NoFrame}]
  BY <1>1, <1>3, <1>6
<1>9. Mapping'
  BY <1>1 DEF Mapping
<1>10. CacheInv'
  <2>1. /\ open' \in BOOLEAN /\ last_vaddr' \in ValidPages \cup {NoPage}
        /\ open' => root' # NoFrame /\ pc' # "drop"
        /\ batch' # NoBatch \/ last_vaddr' # NoPage => open'
    BY <1>1, CacheTypes
  <2> QED
    BY <1>1, <1>7, <1>8, <1>9, <2>1 DEF CacheInv
<1>11. BatchInv'
  BY <1>1, BatchWalks
<1> QED
  BY <1>10, <1>11

\* A leaf that is refused resets the cursor, if no entry is of an illegal kind.
LEMMA RefuseStep ==
  ASSUME IInv, ContentInv, CacheInv, BatchInv, ~Damaged, CursorRefuse
  PROVE  CacheInv' /\ BatchInv'
<1>1. /\ open /\ pc = "walk" /\ pc' = "return" /\ ret' # "Ok" /\ ret' # "InvalidEntryKind"
      /\ UNCHANGED <<root, child, open, descent, batch>>
  <2>1. CASE MapRefuse
    <3>1. Slot.kind # "invalid"
      <4>1. pc = "walk"
        BY <2>1 DEF MapRefuse, Mapping
      <4>2. cur \in Frames /\ Idx \in Slots /\ Slot \in Entries
        BY <4>1, AtSlot
      <4> QED
        BY <4>2, InvalidIsDamage DEF Slot
    <3> QED
      BY <2>1, <3>1 DEF CursorRefuse, MapRefuse, Mapping, Fail, Finish, memory, locals
  <2>2. CASE \E e \in AllocErrors : MapStarve(e)
    BY <2>2 DEF CursorRefuse, MapStarve, Mapping, Finish, AllocErrors, memory, locals
  <2> QED
    BY <2>1, <2>2 DEF CursorRefuse
<1>2. last_vaddr' = NoPage /\ ~Mapping'
  BY <1>1 DEF CursorRefuse, Mapping
<1>3. CacheInv'
  BY <1>1, <1>2, CacheTypes, CacheOff
<1>4. BatchInv'
  BY <1>1, BatchWalks
<1> QED
  BY <1>3, <1>4

\* The leaf is stored: its address is the one the cached tables serve from now on.
LEMMA InstallStep ==
  ASSUME IInv, ContentInv, CacheInv, BatchInv, CursorInstall
  PROVE  CacheInv' /\ BatchInv'
<1>1. /\ open /\ pc = "walk" /\ pc' = "flush" /\ req' = req /\ Mapping
      /\ UNCHANGED <<root, lev, cover, child, open, descent, batch>> /\ last_vaddr' = req.start
  BY DEF CursorInstall, MapInstall, Mapping, ghosts, locals
<1>2. req.start \in ValidPages
  BY <1>1, AtSlot
<1>3. \A l \in 1..LEVELS-1 : descent'[l] # NoFrame => Serves(descent[l], l, last_vaddr)'
  <2>1. \A f, l, v : Serves(f, l, v)' <=> Serves(f, l, v)
    BY <1>1, ServesSame
  <2> QED
    BY <1>1, <2>1 DEF CacheInv, Serves
<1>4. ~Mapping'
  BY <1>1 DEF Mapping
<1>5. CacheInv'
  BY <1>1, <1>2, <1>3, <1>4, CacheTypes DEF CacheInv
<1>6. BatchInv'
  BY <1>1, BatchWalks
<1> QED
  BY <1>5, <1>6

\* unmap, protect and remap begin: unmap forgets the cached tables, the others keep them.
LEMMA OtherCalls ==
  ASSUME IInv, CacheInv, BatchInv, NEW r \in Requests, CursorCall(r)
  PROVE  CacheInv' /\ BatchInv'
<1>1. /\ open /\ open' = open /\ batch = NoBatch /\ batch' = batch /\ pc = "idle" /\ pc' \in {"walk", "return"}
      /\ req' = r /\ r.op # "map" /\ UNCHANGED <<root, lev, cover, child>>
  BY DEF CursorCall, Call, Finish, memory, ghosts
<1>2. ~Mapping /\ ~Mapping'
  BY <1>1 DEF Mapping
<1>3. CASE r.op = "unmap"
  <2>1. descent' = NoDescent /\ last_vaddr' = NoPage
    BY <1>3 DEF CursorCall
  <2> QED
    BY <1>1, <1>2, <2>1, CacheOff, CacheTypes DEF BatchInv
<1>4. CASE r.op # "unmap"
  <2>1. UNCHANGED <<descent, last_vaddr>>
    BY <1>4 DEF CursorCall, cache
  <2> QED
    BY <1>1, <1>2, <1>4, <2>1, CacheStays DEF BatchInv
<1> QED
  BY <1>3, <1>4

\* The steps of protect and remap free no table; those of unmap do, with nothing cached.
LEMMA RestOfCalls ==
  ASSUME IInv, ContentInv, CacheInv, BatchInv, CursorStep \/ CursorQueue
  PROVE  CacheInv' /\ BatchInv'
<1>1. /\ open /\ UNCHANGED <<open, descent, last_vaddr, batch, root, req>>
      /\ pc \in {"walk", "reclaim", "release", "flush"} /\ pc' \in {"walk", "reclaim", "release", "flush", "return"}
      /\ pc = "walk" => req.op # "map"
      /\ pc' = "walk" => pc = "walk"
  <2>1. CASE CursorQueue
    BY <2>1 DEF CursorQueue, Finish, cache, memory
  <2>2. CASE CursorStep
    <3>1. open /\ UNCHANGED <<open, descent, last_vaddr, batch>>
      BY <2>2 DEF CursorStep, cache
    <3>2. CASE ExactDescend \/ ExactRefuse \/ Rewrite \/ UnmapClear
      BY <3>1, <3>2 DEF ExactDescend, ExactRefuse, Rewrite, UnmapClear, AtLeaf, Exact, ExactOps, StepDown, Fail, Finish, memory
    <3>3. CASE ReclaimStop \/ ReclaimUnlink \/ ReclaimFree
      BY <3>1, <3>3 DEF ReclaimStop, ReclaimUnlink, ReclaimFree, Finish, memory
    <3> QED
      BY <2>2, <3>2, <3>3 DEF CursorStep
  <2> QED
    BY <2>1, <2>2
<1>2. batch = NoBatch
  <2> SUFFICES ASSUME batch # NoBatch
               PROVE  FALSE
    OBVIOUS
  <2>1. pc \in {"walk", "flush"} /\ req.op = "map"
    BY <1>1, InCall
  <2>2. CursorStep
    BY DEF CursorQueue
  <2> QED
    BY <1>1, <2>1, <2>2 DEF CursorStep, ExactDescend, ExactRefuse, Rewrite, UnmapClear, AtLeaf, Exact,
         ReclaimStop, ReclaimUnlink, ReclaimFree
<1>3. BatchInv'
  BY <1>1, <1>2 DEF BatchInv
<1>4. ~Mapping /\ ~Mapping'
  BY <1>1 DEF Mapping
<1>5. CASE pc \in {"reclaim", "release"}
  <2>1. last_vaddr' = NoPage
    BY <1>1, <1>5 DEF CacheInv
  <2>2. root # NoFrame
    BY <1>1, CacheTypes
  <2> QED
    BY <1>1, <1>2, <1>3, <1>4, <2>1, <2>2, CacheOff, CacheTypes
<1>6. CASE pc \notin {"reclaim", "release"}
  <2>1. UNCHANGED <<lev, cover, child>>
    BY <1>6 DEF CursorQueue, CursorStep, ExactDescend, ExactRefuse, Rewrite, UnmapClear,
         ReclaimStop, ReclaimUnlink, ReclaimFree, StepDown, Fail, ghosts, locals
  <2>2. last_vaddr # NoPage =>
           pc' \notin {"reclaim", "release", "swap"} /\ (pc' = "walk" => req'.op # "unmap")
    <3> HAVE last_vaddr # NoPage
    <3>1. pc = "walk" => req.op # "unmap"
      BY DEF CacheInv
    <3>2. ~UnmapClear
      BY <3>1 DEF UnmapClear, AtLeaf, Exact
    <3>3. pc' \in {"walk", "flush", "return"}
      BY <1>6, <3>2 DEF CursorQueue, CursorStep, ExactDescend, ExactRefuse, Exact, Rewrite, StepDown, Fail, Finish,
           ReclaimStop, ReclaimUnlink, ReclaimFree
    <3> QED
      BY <1>1, <3>1, <3>3
  <2> QED
    BY <1>1, <1>3, <1>4, <2>1, <2>2, CacheStays
<1> QED
  BY <1>5, <1>6

\* The answer is taken.
LEMMA CallReturns ==
  ASSUME IInv, CacheInv, CursorReturn
  PROVE  CacheInv' /\ BatchInv'
<1>1. /\ open /\ UNCHANGED <<open, descent, last_vaddr, root, lev, cover>> /\ batch' = NoBatch
      /\ pc = "return" /\ pc' = "idle" /\ child' = NoFrame
  BY DEF CursorReturn, Return, cache, memory, ghosts
<1>2. child = NoFrame /\ ~Mapping /\ ~Mapping'
  BY <1>1 DEF IInv, ChildInv, Mapping
<1> QED
  BY <1>1, <1>2, CacheStays DEF BatchInv

Sound == IInv /\ ContentInv /\ CacheInv /\ BatchInv

\* Every step of the cursor keeps the walker sound, the cache correct and the batch in order.
LEMMA CursorSound ==
  ASSUME ~Damaged, Sound, CursorNext \/ UNCHANGED cvars
  PROVE  Sound'
<1> USE DEF Sound
<1>1. CASE UNCHANGED cvars
  <2>1. UNCHANGED vars /\ UNCHANGED <<open, descent, last_vaddr, batch>>
    BY <1>1 DEF cvars, cache
  <2>2. UNCHANGED <<mem, owner, root, lev, cover, child, pc, req, ret>>
    BY <2>1 DEF vars, memory, ghosts, locals
  <2>3. IInv' /\ ContentInv'
    BY <2>1, IInvInductive, ContentInductive
  <2>4. CacheInv'
    BY <2>1, <2>2 DEF CacheInv, Serves, Linked, Tables, Mapping
  <2>5. BatchInv'
    <3>1. batch # NoBatch => UNCHANGED AcceptedInv
      BY <2>1, <2>2, BatchSame DEF AcceptedInv
    <3> QED
      BY <2>1, <2>2, <3>1 DEF BatchInv
  <2> QED
    BY <2>3, <2>4, <2>5
<1>2. CASE new \/ finish \/ (\E b \in Batches : map(b)) \/ LeafDone \/ BatchDone
  BY <1>2, CursorEnds
<1>3. CASE map_leaf
  BY <1>3, MapLeafStep
<1>4. ASSUME Next
      PROVE  IInv' /\ ContentInv'
  BY <1>4, IInvInductive, ContentInductive
<1>5. CASE ~open /\ Next /\ UNCHANGED <<open, cache, batch, queued>>
  BY <1>4, <1>5, ClosedStep
<1>6. CASE CursorDescend
  BY <1>4, <1>6, WalkerSteps, DescendStep
<1>7. CASE CursorRefuse
  BY <1>4, <1>7, WalkerSteps, RefuseStep
<1>8. CASE CursorInstall
  BY <1>4, <1>8, WalkerSteps, InstallStep
<1>9. CASE \E r \in Requests : CursorCall(r)
  BY <1>4, <1>9, WalkerSteps, OtherCalls
<1>10. CASE CursorStep \/ CursorQueue
  BY <1>4, <1>10, WalkerSteps, RestOfCalls
<1>11. CASE CursorReturn
  BY <1>4, <1>11, WalkerSteps, CallReturns
<1> QED
  BY <1>1, <1>2, <1>3, <1>5, <1>6, <1>7, <1>8, <1>9, <1>10, <1>11 DEF CursorNext

\* It begins so, with no cursor.
LEMMA InitSound ==
  ASSUME CursorInit
  PROVE  Sound
<1>1. IInv /\ ContentInv
  BY IInvInductive, ContentInductive DEF CursorInit
<1>2. CacheInv /\ BatchInv
  BY DEF CursorInit, CacheInv, BatchInv, NoDescent
<1> QED
  BY <1>1, <1>2 DEF Sound

-------------------------------------------------------------------------------
(* What the table makes of a page. *)

\* A page of mapping m.
Translated(m, v) ==
  IF UMAX - 1 \in m.pages THEN Unmapped ELSE [pa |-> m.pa + (v - Min(m.pages)), fl |-> m.fl]

\* The answers of query tell an error, a page and no page apart.
LEMMA AnswersDiffer ==
  /\ \A e : "error" \in DOMAIN Err(e)
  /\ \A p, a, fl : "error" \notin DOMAIN [pages |-> p, pa |-> a, fl |-> fl]
  /\ \A a, fl : [pa |-> a, fl |-> fl] # Unmapped
<1>1. \A a, fl : [pa |-> a, fl |-> fl] # Unmapped
  <2> SUFFICES ASSUME NEW a, NEW fl, [pa |-> a, fl |-> fl] = Unmapped
               PROVE  FALSE
    OBVIOUS
  <2>1. DOMAIN [pa |-> a, fl |-> fl] = {"pa", "fl"} /\ DOMAIN Unmapped = {"pa"}
    BY DEF Unmapped
  <2> QED
    BY <2>1
<1> QED
  BY <1>1 DEF Err

\* The least page of a range is its first.
LEMMA MinOfRange ==
  ASSUME NEW a \in Nat, NEW b \in Int, a <= b
  PROVE  Min(a .. b) = a
<1>1. a .. b \in SUBSET Nat /\ a \in a .. b /\ \A x \in a .. b : a <= x
  OBVIOUS
<1>2. Min(a .. b) \in a .. b /\ \A x \in a .. b : Min(a .. b) <= x
  BY <1>1, MinIs
<1>3. Min(a .. b) <= a /\ a <= Min(a .. b) /\ Min(a .. b) \in Int
  BY <1>1, <1>2
<1> QED
  BY <1>3

\* An address outside the translated space is never mapped.
LEMMA PageOutside == \A w : ~vaddr_is_valid(w) => PageAt(w) = Unmapped
BY AnswersDiffer DEF PageAt, query

\* A page is translated as the mapping of it says, and not at all without one.
LEMMA PageIs ==
  IInv /\ ContentInv /\ pc # "drop" /\ root # NoFrame =>
    \A w \in ValidPages :
      /\ \A m \in Leaves : w \in m.pages => PageAt(w) = Translated(m, w)
      /\ (\A m \in Leaves : w \notin m.pages) => PageAt(w) = Unmapped
<1> SUFFICES ASSUME IInv, ContentInv, pc # "drop", root # NoFrame, NEW v \in ValidPages
             PROVE  /\ \A m \in Leaves : v \in m.pages => PageAt(v) = Translated(m, v)
                    /\ (\A m \in Leaves : v \notin m.pages) => PageAt(v) = Unmapped
  OBVIOUS
<1> DEFINE l == LastLevel(v)
           f == TablesOnPath(v)[l]
           i == index_at(l, v)
           e == mem[f][i]
<1>1. query(v) =
        IF ~vaddr_is_valid(v) THEN Err("AddressOutOfRange")
        ELSE IF e.kind = "none" THEN Err("NotMapped")
        ELSE IF e.kind = "invalid" THEN Err("InvalidEntryKind")
        ELSE IF Span[l] \notin NamedSizes THEN Err("UnsupportedSize")
        ELSE IF ~leaf_range_exists(v, l) THEN Err("AddressOutOfRange")
        ELSE [pages |-> Pages(leaf_range(v, l)), pa |-> e.pa, fl |-> e.fl]
  BY QueryResult
<1>2. vaddr_is_valid(v) /\ v \in Nat /\ v \in 0..UMAX-1
  BY PageIsNat DEF ValidPages
<1>3. l \in 1..LEVELS /\ f \in Linked /\ lev[f] = l /\ v \in cover[f] /\ e.kind # "table"
  BY WalkEnds
<1> HIDE DEF l, f
<1>4. f \in Frames /\ f \in Tables /\ i \in Slots /\ e \in Entries
  <2>1. f \in Frames /\ f \in Tables
    BY <1>3 DEF Linked, Tables
  <2>2. i \in Slots
    BY <1>3, <2>1, CoverIndex DEF IInv
  <2> QED
    BY <2>1, <2>2 DEF IInv, TypeOK
<1>5. \A m \in Leaves : v \in m.pages => e.kind = "leaf" /\ m = LeafAt(f, i)
  BY <1>3, OneLeaf
<1>6. CASE e.kind # "leaf"
  <2>1. e.kind \in {"none", "invalid"}
    BY <1>3, <1>4, <1>6, EntryKinds
  <2>2. "error" \in DOMAIN query(v)
    BY <1>1, <1>2, <2>1, AnswersDiffer
  <2> QED
    BY <1>5, <1>6, <2>2 DEF PageAt
<1>7. CASE e.kind = "leaf"
  <2> DEFINE m == LeafAt(f, i)
  <2>1. m \in Leaves /\ v \in m.pages
    BY <1>3, <1>4, <1>7, LeavesAre DEF LeafAt, SlotCover
  <2>2. Span[l] \in NamedSizes
    BY <1>3, <1>4, <1>7, GeometryAssumption DEF ContentInv, LeavesEncodable
  <2>3. SlotCover(f, i) = leaf_start(v, l) .. leaf_start(v, l) + Span[l] - 1
    BY <1>3, SlotPages DEF ContentInv
  <2>4. Span[l] \in Int /\ Span[l] > 0 /\ UMAX \in Int
    BY <1>3, SpanFacts, VaSizeFacts
  <2>5. leaf_start(v, l) \in Int /\ leaf_start(v, l) <= v
    BY <1>2, <2>4, DivMod DEF leaf_start
  <2>6. leaf_start(v, l) \in Nat
    <3>1. leaf_start(v, l) \in SlotCover(f, i)
      BY <2>3, <2>4, <2>5
    <3>2. leaf_start(v, l) \in ValidPages
      BY <2>1, <3>1, LeavesAreValid DEF LeafAt
    <3> QED
      BY <3>2, PageIsNat
  <2>7. m.pages = leaf_start(v, l) .. leaf_start(v, l) + Span[l] - 1 /\ m.pa = e.pa /\ m.fl = e.fl
    BY <2>3 DEF LeafAt
  <2>8. UMAX - 1 \in m.pages <=> ~leaf_range_exists(v, l)
    <3>1. \A s, p, u, w \in Int : s <= w /\ w <= u - 1 => (u - 1 \in s .. s + p - 1 <=> ~(s + p < u))
      OBVIOUS
    <3> QED
      BY <1>2, <2>4, <2>5, <2>7, <3>1 DEF leaf_range_exists
  <2>9. PageAt(v) = Translated(m, v)
    <3>1. CASE leaf_range_exists(v, l)
      <4>1. Pages(leaf_range(v, l)) = m.pages
        <5>1. /\ leaf_range(v, l).start = leaf_start(v, l)
              /\ leaf_range(v, l).end = leaf_start(v, l) + Span[l]
          BY DEF leaf_range
        <5>2. Pages(leaf_range(v, l)) = leaf_start(v, l) .. (leaf_start(v, l) + Span[l]) - 1
          BY <5>1 DEF Pages
        <5>3. (leaf_start(v, l) + Span[l]) - 1 = leaf_start(v, l) + Span[l] - 1
          BY <2>4, <2>5
        <5> QED
          BY <2>7, <5>2, <5>3
      <4>2. query(v) = [pages |-> m.pages, pa |-> e.pa, fl |-> e.fl]
        <5>1. e.kind # "none" /\ e.kind # "invalid"
          BY <1>7
        <5> HIDE DEF e, m
        <5> QED
          BY <1>1, <1>2, <2>2, <3>1, <4>1, <5>1
      <4> HIDE DEF m, e
      <4>3. "error" \notin DOMAIN query(v)
        BY <4>2, AnswersDiffer
      <4> QED
        BY <2>7, <2>8, <3>1, <4>2, <4>3 DEF PageAt, Translated
    <3>2. CASE ~leaf_range_exists(v, l)
      <4>1. query(v) = Err("AddressOutOfRange")
        <5>1. e.kind # "none" /\ e.kind # "invalid"
          BY <1>7
        <5> HIDE DEF e
        <5> QED
          BY <1>1, <1>2, <2>2, <3>2, <5>1
      <4> QED
        BY <2>8, <3>2, <4>1, AnswersDiffer DEF PageAt, Translated
    <3> QED
      BY <3>1, <3>2
  <2>10. \A n \in Leaves : v \in n.pages => n = m
    BY <1>5
  <2> QED
    BY <2>1, <2>9, <2>10
<1> QED
  BY <1>6, <1>7

\* So a page whose mapping stays is translated as before.
LEMMA PageSame ==
  ASSUME IInv, ContentInv, pc # "drop", root # NoFrame,
         IInv', ContentInv', pc' # "drop", root' # NoFrame, NEW v \in 0..UMAX-1,
         \A m : v \in m.pages => (m \in Leaves' <=> m \in Leaves)
  PROVE  PageAt(v)' = PageAt(v)
<1>1. CASE ~vaddr_is_valid(v)
  <2>1. (\A w : ~vaddr_is_valid(w) => PageAt(w) = Unmapped)'
    BY PageOutside, PTL
  <2> QED
    BY <1>1, <2>1, PageOutside
<1>2. CASE vaddr_is_valid(v)
  <2>1. v \in ValidPages
    BY <1>2 DEF ValidPages
  <2>2. /\ \A m \in Leaves' : v \in m.pages => PageAt(v)' = Translated(m, v)
        /\ (\A m \in Leaves' : v \notin m.pages) => PageAt(v)' = Unmapped
    <3>1. (IInv /\ ContentInv /\ pc # "drop" /\ root # NoFrame =>
             \A w \in ValidPages :
               /\ \A m \in Leaves : w \in m.pages => PageAt(w) = Translated(m, w)
               /\ (\A m \in Leaves : w \notin m.pages) => PageAt(w) = Unmapped)'
      BY PageIs, PTL
    <3> QED
      BY <2>1, <3>1 DEF Translated
  <2>3. /\ \A m \in Leaves : v \in m.pages => PageAt(v) = Translated(m, v)
        /\ (\A m \in Leaves : v \notin m.pages) => PageAt(v) = Unmapped
    BY <2>1, PageIs
  <2>4. CASE \E m \in Leaves : v \in m.pages
    BY <2>2, <2>3, <2>4
  <2>5. CASE \A m \in Leaves : v \notin m.pages
    BY <2>2, <2>3, <2>5
  <2> QED
    BY <2>4, <2>5
<1> QED
  BY <1>1, <1>2

NewLeaf == [pages |-> Pages(req), pa |-> req.pa, fl |-> req.fl]

\* A leaf of map is stored where there was none.
LEMMA InstallLeaves ==
  ASSUME IInv, ContentInv, MapInstall
  PROVE  /\ Leaves' = Leaves \cup {NewLeaf} /\ \A m \in Leaves : m.pages \cap Pages(req) = {}
         /\ Pages(req) \subseteq ValidPages /\ Pages(req) \subseteq 0..UMAX-1
         /\ req \in Calls /\ req.start \in Nat /\ req.end \in Nat /\ req.start < req.end /\ req.end < UMAX
<1>1. /\ pc = "walk" /\ req.op = "map" /\ req.op \in Ops /\ lvl = TargetLevel /\ Slot.kind = "none"
      /\ WriteSlot(Leaf(req.pa, req.fl)) /\ UNCHANGED <<lev, cover, child>>
  BY DEF MapInstall, is_present, ghosts, locals, Mapping, Ops
<1>2. /\ cur \in Frames /\ cur \in Linked /\ Idx \in Slots /\ Slot = mem[cur][Idx]
      /\ lev[cur] = lvl /\ req.start \in SlotCover(cur, Idx)
  BY <1>1, AtSlot DEF Slot
<1>3. SlotCover(cur, Idx) = Pages(req) /\ req.start \in Pages(req)
  BY <1>1, TargetPages
<1>4. Leaves' = Leaves \cup {NewLeaf}
  <2>1. Leaf(req.pa, req.fl).kind = "leaf" /\ Leaf(req.pa, req.fl).pa = req.pa /\ Leaf(req.pa, req.fl).fl = req.fl
    BY DEF Leaf
  <2>2. Leaves' = (Leaves \ {}) \cup {[pages |-> SlotCover(cur, Idx), pa |-> req.pa, fl |-> req.fl]}
    BY <1>1, <2>1, LeavesWritten DEF ContentInv
  <2> QED
    BY <1>3, <2>2 DEF NewLeaf
<1>5. \A m \in Leaves : m.pages \cap Pages(req) = {}
  <2> SUFFICES ASSUME NEW m \in Leaves, NEW v \in m.pages, v \in Pages(req)
               PROVE  FALSE
    OBVIOUS
  <2>1. v \in cover[cur] /\ index_at(lev[cur], v) = Idx
    BY <1>3 DEF SlotCover
  <2> QED
    BY <1>1, <1>2, <2>1, OneLeaf
<1>6. Pages(req) \subseteq ValidPages
  BY <1>2, <1>3 DEF SlotCover, IInv, TypeOK
<1>7. req \in Calls /\ req.start \in 0..UMAX-1 /\ req.end \in 0..UMAX-1 /\ UMAX \in Nat
  BY <1>1, CallInProgress, CallTypes, GeometryAssumption
<1>8. req.start \in Nat /\ req.end \in Nat /\ req.end < UMAX
  BY <1>7
<1>9. req.start < req.end
  BY <1>3, <1>8 DEF Pages
<1>10. Pages(req) \subseteq 0..UMAX-1
  BY <1>6 DEF ValidPages
<1> QED
  BY <1>4, <1>5, <1>6, <1>7, <1>8, <1>9, <1>10

\* remap, protect and unmap change the leaf of their range.
LEMMA RewriteLeaves ==
  ASSUME IInv, ContentInv, Rewrite \/ UnmapClear, NEW v, v \notin Pages(req), NEW m, v \in m.pages
  PROVE  m \in Leaves' <=> m \in Leaves
<1> DEFINE old == LeafAt(cur, Idx)
<1>1. /\ pc = "walk" /\ req.op \in Ops /\ Slot.kind = "leaf" /\ LeafCheck = "Ok"
      /\ UNCHANGED <<lev, cover, child>>
  BY DEF Rewrite, UnmapClear, AtLeaf, Exact, ghosts, locals, Ops, ExactOps
<1>2. PICK e : e.kind # "table" /\ WriteSlot(e)
  BY DEF Rewrite, UnmapClear, Unused, Leaf
<1>3. leaf_range(req.start, lvl) = [start |-> req.start, end |-> req.end]
  BY <1>1, LeafLevelNamed DEF LeafCheck
<1>4. SlotCover(cur, Idx) = Pages(req)
  BY <1>1, <1>3, RangeIsSlot
<1>5. Leaves' = (Leaves \ {old}) \cup
                (IF e.kind = "leaf" THEN {[pages |-> SlotCover(cur, Idx), pa |-> e.pa, fl |-> e.fl]} ELSE {})
  BY <1>1, <1>2, LeavesWritten DEF ContentInv
<1>6. old.pages = Pages(req)
  BY <1>4 DEF LeafAt
<1> HIDE DEF old
<1>7. m # old /\ \A a, fl : m # [pages |-> SlotCover(cur, Idx), pa |-> a, fl |-> fl]
  BY <1>4, <1>6
<1> QED
  BY <1>5, <1>7

\* The other steps of a cursor leave the leaves alone.
LEMMA LeavesKept ==
  ASSUME Sound, CursorNext \/ UNCHANGED cvars, open, open'
  PROVE  \/ Leaves' = Leaves
         \/ CursorInstall
         \/ CursorStep /\ (Rewrite \/ UnmapClear) /\ batch = NoBatch
<1>0. IInv /\ ContentInv /\ UsedInv /\ BatchInv /\ pc # "drop"
  BY CacheTypes DEF Sound, ContentInv
<1>1. CASE UNCHANGED cvars
  <2>1. UNCHANGED <<mem, lev, cover, child>>
    BY <1>1 DEF cvars, vars, memory, ghosts, locals
  <2> QED
    BY <2>1, LeavesSame
<1>2. CASE (\E b \in Batches : map(b)) \/ map_leaf \/ CursorRefuse \/ LeafDone \/ BatchDone
           \/ (\E r \in Requests : CursorCall(r)) \/ CursorQueue
  <2>1. UNCHANGED <<mem, lev, cover, child>>
    BY <1>2 DEF map, map_leaf, CursorRefuse, MapRefuse, MapStarve, Fail, LeafDone, BatchDone,
         CursorCall, Call, CursorQueue, memory, ghosts, locals
  <2> QED
    BY <2>1, LeavesSame
<1>3. CASE CursorReturn
  <2>1. UNCHANGED <<mem, lev, cover>> /\ child' = NoFrame /\ pc = "return"
    BY <1>3 DEF CursorReturn, Return, memory, ghosts
  <2>2. child = NoFrame
    BY <1>0, <2>1 DEF IInv, ChildInv
  <2> QED
    BY <2>1, <2>2, LeavesSame
<1>4. CASE CursorDescend
  <2>1. CASE MapDescend
    <3>1. UNCHANGED <<mem, lev, cover, child>>
      BY <2>1 DEF MapDescend, StepDown, memory, ghosts
    <3> QED
      BY <3>1, LeavesSame
  <2>2. CASE \E f \in Frames : MapGrow(f)
    BY <1>0, <2>2, TablesMove
  <2> QED
    BY <1>4, <2>1, <2>2 DEF CursorDescend
<1>5. CASE CursorStep
  <2>1. CASE ExactDescend \/ ExactRefuse \/ ReclaimStop
    <3>1. UNCHANGED <<mem, lev, cover, child>>
      BY <2>1 DEF ExactDescend, StepDown, ExactRefuse, Fail, ReclaimStop, memory, ghosts, locals
    <3> QED
      BY <3>1, LeavesSame
  <2>2. CASE ReclaimUnlink \/ ReclaimFree
    BY <1>0, <2>2, TablesMove
  <2>3. CASE Rewrite \/ UnmapClear
    <3>1. pc = "walk" /\ req.op # "map"
      BY <2>3 DEF Rewrite, UnmapClear, AtLeaf, Exact, ExactOps
    <3>2. batch = NoBatch
      BY <1>0, <3>1, InCall
    <3> QED
      BY <1>5, <2>3, <3>2
  <2> QED
    BY <1>5, <2>1, <2>2, <2>3 DEF CursorStep
<1>6. ~new /\ ~finish
  BY DEF new, finish
<1> QED
  BY <1>1, <1>2, <1>3, <1>4, <1>5, <1>6 DEF CursorNext

\* What changes for page v in a step of a cursor.
LEMMA PageChanges ==
  ASSUME Sound, Sound', CursorNext \/ UNCHANGED cvars, open, open', NEW v \in 0..UMAX-1, PageAt(v)' # PageAt(v)
  PROVE  /\ v \in Pages(req)
         /\ \/ CursorInstall /\ PageAt(v) = Unmapped
            \/ CursorStep /\ (Rewrite \/ UnmapClear) /\ batch = NoBatch
<1>0. /\ IInv /\ ContentInv /\ pc # "drop" /\ root # NoFrame
      /\ IInv' /\ ContentInv' /\ pc' # "drop" /\ root' # NoFrame
  <2>1. CacheInv /\ CacheInv'
    BY DEF Sound
  <2>2. open' => root' # NoFrame /\ pc' # "drop"
    BY <2>1 DEF CacheInv
  <2> QED
    BY <2>1, <2>2, CacheTypes DEF Sound
<1>1. ~(\A m : v \in m.pages => (m \in Leaves' <=> m \in Leaves))
  BY <1>0, PageSame
<1>2. CASE Leaves' = Leaves
  BY <1>1, <1>2
<1>3. CASE CursorInstall
  <2>1. MapInstall
    BY <1>3 DEF CursorInstall
  <2>2. /\ Leaves' = Leaves \cup {NewLeaf} /\ \A m \in Leaves : m.pages \cap Pages(req) = {}
        /\ Pages(req) \subseteq ValidPages
    BY <1>0, <2>1, InstallLeaves
  <2>3. NewLeaf.pages = Pages(req)
    BY DEF NewLeaf
  <2>4. v \in Pages(req)
    BY <1>1, <2>2, <2>3
  <2>5. PageAt(v) = Unmapped
    BY <1>0, <2>2, <2>4, PageIs
  <2> QED
    BY <1>3, <2>4, <2>5
<1>4. CASE CursorStep /\ (Rewrite \/ UnmapClear) /\ batch = NoBatch
  BY <1>0, <1>1, <1>4, RewriteLeaves
<1> QED
  BY <1>2, <1>3, <1>4, LeavesKept

-------------------------------------------------------------------------------
(* The pages that a call has mapped. *)

\* The extent that backs a page.
LEMMA BackingIs ==
  ASSUME NEW b, Accepts(b), NEW n \in 1..Len(b.extents), NEW v \in Nat,
         Starts(b, n) <= v, v < Starts(b, n + 1)
  PROVE  Backing(b, v) = [pa |-> b.extents[n].pa + (v - Starts(b, n)), fl |-> b.fl]
<1> DEFINE x == b.extents
           L == Len(b.extents)
           In(k) == SizeOf(x, k-1) <= v - b.start /\ v - b.start < SizeOf(x, k)
           i == CHOOSE k \in DOMAIN x : In(k)
<1>1. /\ L \in Nat /\ DOMAIN x = 1..L /\ n \in 1..L /\ x \in Backings /\ b.start \in Nat
      /\ \A k \in 1..L+1 : Starts(b, k) \in Nat
      /\ \A k, m \in 1..L+1 : k < m => Starts(b, k) < Starts(b, m)
      /\ \A k \in 1..L : x[k].pa \in Nat
  BY StartsAre, BatchTypes DEF Accepts
<1>2. \A k \in 1..L : /\ SizeOf(x, k-1) \in Nat /\ SizeOf(x, k) \in Nat /\ k \in 1..L+1 /\ k + 1 \in 1..L+1
                      /\ Starts(b, k) = b.start + SizeOf(x, k-1) /\ Starts(b, k+1) = b.start + SizeOf(x, k)
  <2> TAKE k \in 1..L
  <2>1. k \in 0..L /\ k - 1 \in 0..L /\ k \in 1..L+1 /\ k + 1 \in 1..L+1 /\ (k + 1) - 1 = k
    BY <1>1
  <2>2. SizeOf(x, k-1) \in Nat /\ SizeOf(x, k) \in Nat
    BY <1>1, <2>1, SizeOfType
  <2>3. Starts(b, k+1) = b.start + SizeOf(x, (k + 1) - 1)
    BY DEF Starts
  <2> QED
    BY <2>1, <2>2, <2>3 DEF Starts
<1>3. \A k \in 1..L : In(k) <=> Starts(b, k) <= v /\ v < Starts(b, k + 1)
  <2>1. \A s, z, y \in Nat : (z <= v - s <=> s + z <= v) /\ (v - s < y <=> v < s + y)
    OBVIOUS
  <2> QED
    BY <1>1, <1>2, <2>1
<1>4. \A k \in 1..L : In(k) => k = n
  <2> SUFFICES ASSUME NEW k \in 1..L, Starts(b, k) <= v, v < Starts(b, k + 1), k # n
               PROVE  FALSE
    BY <1>3
  <2>1. /\ Starts(b, k) \in Nat /\ Starts(b, k + 1) \in Nat
        /\ Starts(b, n) \in Nat /\ Starts(b, n + 1) \in Nat
    BY <1>1, <1>2
  <2>2. CASE k < n
    <3>1. k + 1 = n \/ k + 1 < n
      BY <1>1, <2>2
    <3>2. Starts(b, k + 1) <= Starts(b, n)
      BY <1>1, <1>2, <2>1, <3>1
    <3> QED
      BY <2>1, <3>2
  <2>3. CASE n < k
    <3>1. n + 1 = k \/ n + 1 < k
      BY <1>1, <2>3
    <3>2. Starts(b, n + 1) <= Starts(b, k)
      BY <1>1, <1>2, <2>1, <3>1
    <3> QED
      BY <2>1, <3>2
  <2> QED
    BY <1>1, <2>2, <2>3
<1>5. i = n
  <2>1. In(n)
    BY <1>3
  <2> HIDE DEF In
  <2> QED
    BY <1>1, <1>4, <2>1
<1>6. Backing(b, v) = [pa |-> x[n].pa + (v - b.start) - SizeOf(x, n-1), fl |-> b.fl]
  BY <1>5 DEF Backing
<1>7. x[n].pa + (v - b.start) - SizeOf(x, n-1) = x[n].pa + (v - Starts(b, n))
  <2>1. x[n].pa \in Nat /\ SizeOf(x, n-1) \in Nat /\ Starts(b, n) = b.start + SizeOf(x, n-1)
    BY <1>1, <1>2
  <2>2. \A p, s, z \in Nat : p + (v - s) - z = p + (v - (s + z))
    OBVIOUS
  <2> QED
    BY <1>1, <2>1, <2>2
<1> QED
  BY <1>6, <1>7

\* A step of a call after which no more of the call is done, and no page changed.
LEMMA DoneSame ==
  ASSUME Sound, Sound', CursorNext \/ UNCHANGED cvars, DoneInv, batch # NoBatch, ~CursorInstall, open',
         batch' # NoBatch => batch'.of = batch.of /\ Done' = Done
  PROVE  DoneInv'
<1> SUFFICES ASSUME batch' # NoBatch
             PROVE  DoneInv'
  BY DEF DoneInv
<1>1. open
  BY CacheTypes DEF Sound
<1>2. Leaves' = Leaves
  BY <1>1, LeavesKept
<1>3. \A v \in Done : v \in 0..UMAX-1
  <2>1. batch \in [of: Batches, next: Nat, at: 0..UMAX-1]
    BY DEF Sound, BatchInv
  <2>2. batch.of.start \in Nat /\ UMAX \in Nat /\ batch.at \in 0..UMAX-1
    BY <2>1, BatchTypes
  <2>3. pc = "flush" => req.end \in 0..UMAX-1
    <3> HAVE pc = "flush"
    <3>1. req = NextLeaf /\ BatchCheck(batch.of) = "Ok" /\ batch.next # Len(batch.of.extents) + 1
      BY InCall DEF Sound
    <3>2. req \in Calls
      BY <3>1, NextLeafIsCall DEF Sound
    <3> QED
      BY <3>2, CallTypes
  <2> QED
    BY <2>2, <2>3 DEF Done
<1>4. \A v \in Done : PageAt(v)' = PageAt(v)
  BY <1>1, <1>3, PageChanges
<1>5. \A v : Backing(batch.of, v)' = Backing(batch.of, v)
  BY DEF Backing
<1> QED
  BY <1>2, <1>4, <1>5 DEF DoneInv

\* A leaf of the call is stored.
LEMMA DoneGrows ==
  ASSUME Sound, Sound', CursorNext, CursorInstall, DoneInv, batch # NoBatch
  PROVE  DoneInv'
<1> DEFINE b == batch.of
           n == batch.next
           at == batch.at
<1>1. MapInstall /\ pc = "walk" /\ pc' = "flush" /\ UNCHANGED <<batch, open, req>>
  BY DEF CursorInstall, MapInstall, Mapping
<1>2. /\ open /\ open' /\ IInv /\ ContentInv /\ IInv' /\ ContentInv' /\ BatchInv
      /\ pc # "drop" /\ root # NoFrame /\ pc' # "drop" /\ root' # NoFrame
  <2>1. CacheInv' /\ open /\ open'
    BY <1>1 DEF Sound, CursorInstall
  <2>2. pc' # "drop" /\ root' # NoFrame
    BY <2>1 DEF CacheInv
  <2> QED
    BY <2>1, <2>2, CacheTypes DEF Sound
<1>3. /\ BatchCheck(b) = "Ok" /\ n \in 1..Len(b.extents) /\ req = NextLeaf
      /\ n # Len(b.extents) + 1
  BY <1>1, <1>2, InCall
<1>4. /\ Accepts(b) /\ at \in Nat /\ Starts(b, n) \in Nat /\ Starts(b, n) <= at
      /\ Starts(b, n + 1) \in Nat /\ b.start <= Starts(b, n) /\ b.extents[n].pa \in Nat
      /\ \A k : Begin(k) = Starts(b, k)
  BY <1>2, <1>3, InBatch
<1>5. /\ leaf_size \in Nat /\ leaf_size > 0 /\ at + leaf_size <= Starts(b, n + 1)
      /\ b.granule # 0 => leaf_size = b.granule
  BY <1>2, <1>3, NextLeafFits
<1>6. /\ req.start = at /\ req.end = at + leaf_size /\ req.fl = b.fl
      /\ req.pa = b.extents[n].pa + (at - Starts(b, n)) /\ b.start <= at
  <2>1. Rest.pa = b.extents[n].pa + (at - Starts(b, n))
    BY <1>4 DEF Rest
  <2> QED
    BY <1>2, <1>3, <2>1, NextLeafIsCall
<1>7. /\ Leaves' = Leaves \cup {NewLeaf} /\ \A m \in Leaves : m.pages \cap Pages(req) = {}
      /\ Pages(req) \subseteq ValidPages /\ Pages(req) \subseteq 0..UMAX-1
      /\ req.start \in Nat /\ req.end \in Nat /\ req.start < req.end /\ req.end < UMAX /\ UMAX \in Nat
  BY <1>1, <1>2, InstallLeaves, VaSizeFacts
<1>8. /\ Done = b.start .. at - 1 /\ Done' = b.start .. req.end - 1
      /\ Pages(req) = at .. req.end - 1 /\ b.start \in Nat
  <2>1. b.start \in Nat
    BY <1>4, BatchTypes DEF Accepts
  <2> QED
    BY <1>1, <1>6, <2>1 DEF Done, Pages
<1> HIDE DEF b, n, at
<1>9. \A v \in Done' : v \in Nat /\ v \in 0..UMAX-1 /\ ((v \in Done /\ v \notin Pages(req)) \/ v \in Pages(req))
  BY <1>4, <1>6, <1>7, <1>8
<1>10. \A v \in Done : v \notin Pages(req)
  BY <1>4, <1>8
<1>11. ASSUME NEW v \in Pages(req)
       PROVE  PageAt(v)' = Backing(b, v)
  <2>1. v \in ValidPages /\ v \in Nat /\ at <= v /\ v < req.end
    BY <1>4, <1>7, <1>8
  <2>2. (IInv /\ ContentInv /\ pc # "drop" /\ root # NoFrame =>
           \A w \in ValidPages :
             /\ \A m \in Leaves : w \in m.pages => PageAt(w) = Translated(m, w)
             /\ (\A m \in Leaves : w \notin m.pages) => PageAt(w) = Unmapped)'
    BY PageIs, PTL
  <2>3. \A m \in Leaves' : v \in m.pages => PageAt(v)' = Translated(m, v)
    BY <1>2, <2>1, <2>2 DEF Translated
  <2>4. NewLeaf \in Leaves' /\ NewLeaf.pages = Pages(req) /\ NewLeaf.pa = req.pa /\ NewLeaf.fl = req.fl
    BY <1>7 DEF NewLeaf
  <2>5. PageAt(v)' = Translated(NewLeaf, v)
    BY <2>3, <2>4
  <2>6. UMAX - 1 \notin Pages(req)
    BY <1>7, <1>8
  <2>7. Min(Pages(req)) = at
    <3>1. at <= req.end - 1 /\ req.end - 1 \in Int
      BY <1>6, <1>7
    <3> QED
      BY <1>4, <1>8, <3>1, MinOfRange
  <2>8. PageAt(v)' = [pa |-> req.pa + (v - at), fl |-> b.fl]
    BY <1>6, <2>4, <2>5, <2>6, <2>7 DEF Translated
  <2>9. Starts(b, n) <= v /\ v < Starts(b, n + 1)
    BY <1>4, <1>5, <1>6, <2>1
  <2>10. Backing(b, v) = [pa |-> b.extents[n].pa + (v - Starts(b, n)), fl |-> b.fl]
    BY <1>3, <1>4, <2>1, <2>9, BackingIs DEF b, n
  <2>11. req.pa + (v - at) = b.extents[n].pa + (v - Starts(b, n))
    <3> DEFINE p == b.extents[n].pa
               s == Starts(b, n)
    <3>1. p \in Nat /\ s \in Nat /\ at \in Nat /\ v \in Nat /\ req.pa = p + (at - s)
      BY <1>4, <1>6, <2>1
    <3> HIDE DEF p, s
    <3>2. req.pa + (v - at) = p + (v - s)
      BY <3>1
    <3> QED
      BY <3>2 DEF p, s
  <2> QED
    BY <2>8, <2>10, <2>11
<1>12. \A v \in Done : PageAt(v)' = Backing(b, v)
  <2> TAKE v \in Done
  <2>1. v \in 0..UMAX-1
    BY <1>4, <1>6, <1>7, <1>8
  <2>2. PageAt(v)' = PageAt(v)
    BY <1>2, <1>10, <2>1, PageChanges
  <2> QED
    BY <2>2 DEF DoneInv, b
<1>13. \A v \in Done' : PageAt(v)' = Backing(b, v)
  BY <1>9, <1>11, <1>12
<1>14. ASSUME b.granule # 0, NEW m \in Leaves', m.pages \cap Done' # {}
       PROVE  Cardinality(m.pages) = b.granule
  <2>1. CASE m = NewLeaf
    <3>1. m.pages = at .. req.end - 1
      BY <1>8, <2>1 DEF NewLeaf
    <3>2. Cardinality(at .. req.end - 1) = (req.end - 1) - at + 1
      <4>1. at \in Int /\ req.end - 1 \in Int /\ ~(at > req.end - 1)
        BY <1>4, <1>6, <1>7
      <4> QED
        BY <4>1, FS_Interval
    <3>3. (req.end - 1) - at + 1 = leaf_size
      BY <1>4, <1>5, <1>6
    <3> QED
      BY <1>5, <1>14, <3>1, <3>2, <3>3
  <2>2. CASE m # NewLeaf
    <3>1. m \in Leaves /\ m.pages \cap Pages(req) = {}
      BY <1>7, <1>14, <2>2
    <3>2. m.pages \cap Done # {}
      BY <1>9, <1>14, <3>1
    <3> QED
      BY <1>14, <3>1, <3>2 DEF DoneInv, b
  <2> QED
    BY <2>1, <2>2
<1>15. batch'.of = b
  BY <1>1 DEF b
<1>16. \A v : Backing(batch.of, v)' = Backing(b, v)
  BY <1>15 DEF Backing
<1> QED
  BY <1>13, <1>14, <1>15, <1>16 DEF DoneInv

\* Which steps a call in progress may take.
LEMMA StepsInCall ==
  ASSUME Sound, CursorNext, batch # NoBatch
  PROVE  map_leaf \/ CursorDescend \/ CursorRefuse \/ CursorInstall \/ LeafDone \/ BatchDone \/ CursorReturn
<1>1. open
  BY CacheTypes DEF Sound
<1>2. ~new /\ ~finish /\ (\A b \in Batches : ~map(b)) /\ (\A r \in Requests : ~CursorCall(r)) /\ ~CursorQueue
  BY <1>1 DEF new, finish, map, CursorCall, CursorQueue
<1>3. ~CursorStep
  <2> SUFFICES ASSUME CursorStep
               PROVE  FALSE
    OBVIOUS
  <2>1. pc \in {"walk", "reclaim", "release"} /\ (pc = "walk" => req.op # "map")
    BY DEF CursorStep, ExactDescend, ExactRefuse, Rewrite, UnmapClear, AtLeaf, Exact, ExactOps,
       ReclaimStop, ReclaimUnlink, ReclaimFree
  <2> QED
    BY <2>1, InCall DEF Sound
<1> QED
  BY <1>1, <1>2, <1>3 DEF CursorNext

\* What a call has mapped stays mapped as it says, and each leaf adds its pages.
LEMMA DoneStep ==
  ASSUME Sound, Sound', CursorNext \/ UNCHANGED cvars, DoneInv
  PROVE  DoneInv'
<1>1. CASE batch' = NoBatch
  BY <1>1 DEF DoneInv
<1>2. CASE UNCHANGED cvars /\ batch # NoBatch
  <2>1. UNCHANGED <<pc, req, batch, open>>
    BY <1>2 DEF cvars, vars
  <2>2. UNCHANGED Done /\ open' /\ ~CursorInstall
    <3>1. open /\ pc' = pc
      BY <1>2, <2>1, CacheTypes DEF Sound
    <3>2. CursorInstall => pc = "walk" /\ pc' = "flush"
      BY DEF CursorInstall, MapInstall, Mapping
    <3> QED
      BY <2>1, <3>1, <3>2 DEF Done
  <2> QED
    BY <1>2, <2>1, <2>2, DoneSame
<1>3. CASE batch = NoBatch /\ batch' # NoBatch
  <2>1. CursorNext
    BY <1>3 DEF cvars
  <2>2. PICK b \in Batches : map(b)
    BY <1>3, <2>1 DEF CursorNext, new, finish, map_leaf, CursorDescend, CacheTable, CursorRefuse, CursorInstall,
       LeafDone, BatchDone, CursorCall, CursorStep, CursorQueue, CursorReturn
  <2>3. batch'.of = b /\ batch'.at = b.start /\ pc' # "flush" /\ b.start \in Nat
    BY <2>2, BatchTypes DEF map, Finish
  <2>4. Done' = {}
    BY <2>3 DEF Done
  <2> QED
    BY <2>4 DEF DoneInv
<1>4. CASE batch # NoBatch /\ batch' # NoBatch /\ CursorNext
  <2>1. open
    BY <1>4, CacheTypes DEF Sound
  <2>2. CASE CursorInstall
    BY <1>4, <2>2, DoneGrows
  <2>3. CASE ~CursorInstall /\ (map_leaf \/ CursorDescend \/ CursorRefuse \/ BatchDone)
    <3>1. batch' = batch /\ pc # "flush" /\ pc' # "flush" /\ open' = open
      BY <2>3 DEF map_leaf, CursorDescend, CacheTable, CursorRefuse, BatchDone, Finish, MapDescend, StepDown,
         MapGrow, MapRefuse, MapStarve, Fail, Mapping
    <3>2. Done' = Done
      BY <3>1 DEF Done
    <3> QED
      BY <1>4, <2>1, <2>3, <3>1, <3>2, DoneSame
  <2>4. CASE LeafDone
    <3>1. /\ batch' = [batch EXCEPT
                !.at = req.end, !.next = IF req.end = Begin(@ + 1) THEN @ + 1 ELSE @]
          /\ pc = "flush" /\ pc' = "idle" /\ open' = open
      BY <2>4 DEF LeafDone
    <3>2. batch \in [of: Batches, next: Nat, at: 0..UMAX-1]
      BY <1>4 DEF Sound, BatchInv
    <3>3. batch'.of = batch.of /\ batch'.at = req.end
      BY <3>1, <3>2
    <3>4. Done' = Done
      BY <3>1, <3>3 DEF Done
    <3>5. ~CursorInstall
      BY <3>1 DEF CursorInstall, MapInstall, Mapping
    <3> QED
      BY <1>4, <2>1, <3>1, <3>3, <3>4, <3>5, DoneSame
  <2>5. ~CursorReturn
    BY <1>4 DEF CursorReturn
  <2> QED
    BY <1>4, <2>2, <2>3, <2>4, <2>5, StepsInCall
<1> QED
  BY <1>1, <1>2, <1>3, <1>4

-------------------------------------------------------------------------------
(* Changes and the flush queue. *)

\* A refusal of deallocate is one of a frame of the table adopted.
LEMMA FreesItsOwn ==
  ASSUME IInv, ContentInv, BootFrames = {}, pc = "release"
  PROVE  CanFree(child)
<1>1. child \in Tables /\ child \in Frames
  BY DEF IInv, ChildInv, Tables
<1>2. owner[child] \in {"walker", "adopted"}
  BY <1>1 DEF IInv, NoLostFrame
<1> QED
  BY <1>1, <1>2 DEF ContentInv, ForeignInv, CanFree

\* What a call that has stored something has still to queue.
Owed == IF batch = NoBatch /\ pc \in {"reclaim", "release", "flush"} THEN Pages(req) ELSE {}

\* Each page a step changes is queued by it, or owed by the call until it ends.
LEMMA QueueStep ==
  ASSUME Sound, Sound', CursorNext, QueueInv
  PROVE  QueueInv'
<1> SUFFICES ASSUME BootFrames = {}, open, open'
             PROVE  changed' \subseteq queued' \cup Owed'
  <2>1. ~(open /\ open') => changed' = {}
    BY DEF CursorNext
  <2> QED
    BY <2>1 DEF QueueInv, Owed
<1> DEFINE moved == {v \in ValidPages : PageAt(v)' # PageAt(v)}
<1>1. changed' = changed \cup moved /\ changed \subseteq queued \cup Owed
  BY DEF CursorNext, QueueInv, Owed
<1>2. \A v \in moved : /\ v \in Pages(req)
                       /\ CursorInstall \/ (CursorStep /\ (Rewrite \/ UnmapClear) /\ batch = NoBatch)
  <2> SUFFICES ASSUME NEW v \in ValidPages, PageAt(v)' # PageAt(v)
               PROVE  /\ v \in Pages(req)
                      /\ CursorInstall \/ (CursorStep /\ (Rewrite \/ UnmapClear) /\ batch = NoBatch)
    OBVIOUS
  <2>1. v \in 0..UMAX-1
    BY DEF ValidPages
  <2> QED
    BY <2>1, PageChanges
<1> HIDE DEF moved
<1>3. SUFFICES /\ queued \subseteq queued' /\ Owed \subseteq queued' \cup Owed'
               /\ moved \subseteq queued' \cup Owed'
  BY <1>1
<1>4. CASE CursorInstall
  <2>1. queued' = queued \cup Pages(req) /\ pc = "walk"
    BY <1>4 DEF CursorInstall, MapInstall, Mapping
  <2> QED
    BY <1>2, <2>1 DEF Owed
<1>5. CASE CursorStep /\ ~CursorInstall
  <2>1. queued' = queued /\ batch' = batch
    BY <1>5 DEF CursorStep
  <2>2. batch = NoBatch
    BY <1>5, StepsInCall DEF CursorStep, map_leaf, CursorDescend, CursorRefuse, CursorInstall, LeafDone, BatchDone,
       CursorReturn, Return, MapDescend, MapGrow, MapRefuse, MapStarve, Mapping, Rewrite, UnmapClear, AtLeaf, Exact,
       ExactOps, ExactDescend, ExactRefuse, ReclaimStop, ReclaimUnlink, ReclaimFree
  <2>3. CASE Rewrite \/ UnmapClear
    <3>1. pc = "walk" /\ pc' \in {"reclaim", "flush"} /\ req' = req
      BY <2>3 DEF Rewrite, UnmapClear, AtLeaf, Exact
    <3>2. Owed = {} /\ Owed' = Pages(req)
      BY <2>1, <2>2, <3>1 DEF Owed, Pages
    <3> QED
      BY <1>2, <2>1, <3>2
  <2>4. CASE ~(Rewrite \/ UnmapClear)
    <3>1. moved = {}
      BY <1>2, <1>5, <2>4
    <3>2. CASE ExactDescend \/ ExactRefuse
      <4>1. pc = "walk"
        BY <3>2 DEF ExactDescend, ExactRefuse, Exact
      <4> QED
        BY <2>1, <3>1, <4>1 DEF Owed
    <3>3. CASE ReclaimStop \/ ReclaimUnlink \/ ReclaimFree
      <4>1. pc \in {"reclaim", "release"} /\ pc' \in {"reclaim", "release", "flush"} /\ req' = req
        <5>1. ReclaimFree => pc' = "reclaim"
          BY FreesItsOwn DEF ReclaimFree, Sound
        <5> QED
          BY <3>3, <5>1 DEF ReclaimStop, ReclaimUnlink, ReclaimFree
      <4>2. Owed' = Owed
        BY <2>1, <2>2, <4>1 DEF Owed, Pages
      <4> QED
        BY <2>1, <3>1, <4>2
    <3> QED
      BY <1>5, <2>4, <3>2, <3>3 DEF CursorStep
  <2> QED
    BY <2>3, <2>4
<1>6. CASE CursorQueue /\ ~CursorInstall /\ ~CursorStep
  <2>1. queued' = queued \cup Pages(req) /\ pc = "flush"
    BY <1>6 DEF CursorQueue
  <2> QED
    BY <1>2, <1>6, <2>1 DEF Owed
<1>7. CASE ~CursorInstall /\ ~CursorStep /\ ~CursorQueue
  <2>1. moved = {}
    BY <1>2, <1>7
  <2>2. queued' = queued
    BY <1>7 DEF CursorNext, new, finish, map, map_leaf, CursorDescend, CacheTable, CursorRefuse, LeafDone, BatchDone,
       CursorCall, CursorReturn
  <2>3. Owed = {}
    <3> SUFFICES ASSUME batch = NoBatch, pc \in {"reclaim", "release", "flush"}
                 PROVE  FALSE
      BY DEF Owed
    <3> QED
      BY <1>7 DEF CursorNext, new, finish, map, map_leaf, CursorDescend, CursorRefuse, LeafDone, BatchDone,
         CursorCall, CursorReturn, Call, Return, MapDescend, MapGrow, MapRefuse, MapStarve, Mapping
  <2> QED
    BY <2>1, <2>2, <2>3
<1> QED
  BY <1>4, <1>5, <1>6, <1>7

-------------------------------------------------------------------------------
(* Answers. *)

\* The walker answers only at the end of a call.
LEMMA AnswerOfWalker ==
  ASSUME AnswerInv, Next
  PROVE  AnswerInv'
<1>1. CASE (\E f \in Frames : try_new(f)) \/ adopt \/ (\E r \in Requests : Call(r)) \/ DropStart
  BY <1>1 DEF AnswerInv, try_new, adopt, Call, DropStart, Finish
<1>2. CASE MapDescend \/ MapRefuse \/ MapInstall \/ (\E f \in Frames : MapGrow(f) \/ SplitBuild(f))
           \/ (\E e \in AllocErrors : MapStarve(e) \/ SplitStarve(e)) \/ SplitSwap
  BY <1>2 DEF AnswerInv, MapDescend, MapRefuse, MapInstall, MapGrow, SplitBuild, MapStarve, SplitStarve, SplitSwap,
     StepDown, Fail, Finish, Mapping, AtLeaf, Exact
<1>3. CASE ExactDescend \/ ExactRefuse \/ Rewrite \/ UnmapClear \/ ReclaimStop \/ ReclaimUnlink \/ ReclaimFree
  BY <1>3 DEF AnswerInv, ExactDescend, ExactRefuse, Rewrite, UnmapClear, ReclaimStop, ReclaimUnlink, ReclaimFree,
     StepDown, Fail, Finish, AtLeaf, Exact
<1>4. CASE MergeDescend \/ MergeRefuse \/ MergeNothing \/ MergeWrite \/ MergeFree
  BY <1>4 DEF AnswerInv, MergeDescend, MergeRefuse, MergeNothing, MergeWrite, MergeFree, StepDown, Fail, Finish, Merging
<1>5. CASE Flush \/ Return \/ DropScan \/ DropFree
  BY <1>5 DEF AnswerInv, Flush, Return, DropScan, DropFree, Finish
<1> QED
  BY <1>1, <1>2, <1>3, <1>4, <1>5 DEF Next, Step

\* So does the cursor.
LEMMA AnswerStep ==
  ASSUME AnswerInv, CursorNext \/ UNCHANGED cvars
  PROVE  AnswerInv'
<1>1. CASE UNCHANGED cvars
  BY <1>1 DEF AnswerInv, cvars, vars
<1>2. CASE new \/ finish \/ (\E b \in Batches : map(b)) \/ map_leaf \/ LeafDone \/ BatchDone
  BY <1>2 DEF AnswerInv, new, finish, map, map_leaf, LeafDone, BatchDone, Finish, vars
<1> QED
  BY <1>1, <1>2, WalkerSteps, AnswerOfWalker DEF CursorNext

-------------------------------------------------------------------------------
(* Theorems. *)

\* Every cursor leaves a sound tree: its invariant holds initially and is kept by each
\* step, if nobody has put an entry of no legal kind into the table.
THEOREM CursorInvInductive ==
  /\ CursorInit => CursorInv
  /\ ~Damaged /\ CursorInv /\ [CursorNext]_cvars => CursorInv'
<1>1. CursorInit => CursorInv
  <2> HAVE CursorInit
  <2>1. Sound
    BY InitSound
  <2>2. DoneInv /\ QueueInv /\ AnswerInv
    BY DEF CursorInit, Init, DoneInv, QueueInv, AnswerInv
  <2> QED
    BY <2>1, <2>2 DEF Sound, CursorInv
<1>2. ASSUME ~Damaged, CursorInv, [CursorNext]_cvars
      PROVE  CursorInv'
  <2>1. Sound /\ DoneInv /\ QueueInv /\ AnswerInv
    BY <1>2 DEF CursorInv, Sound
  <2>2. CursorNext \/ UNCHANGED cvars
    BY <1>2
  <2>3. Sound'
    BY <1>2, <2>1, <2>2, CursorSound
  <2>4. DoneInv'
    BY <2>1, <2>2, <2>3, DoneStep
  <2>5. AnswerInv'
    BY <2>1, <2>2, AnswerStep
  <2>6. QueueInv'
    <3>1. CASE CursorNext
      BY <2>1, <2>3, <3>1, QueueStep
    <3>2. CASE UNCHANGED cvars
      <4>1. UNCHANGED <<changed, queued, batch, pc, req>>
        BY <3>2 DEF cvars, vars
      <4> QED
        BY <2>1, <4>1 DEF QueueInv, Pages
    <3> QED
      BY <2>2, <3>1, <3>2
  <2> QED
    BY <2>3, <2>4, <2>5, <2>6 DEF Sound, CursorInv
<1> QED
  BY <1>1, <1>2

\* So it holds always: the assumption is what the consumer of adopt owes anyway, a
\* table whose entries the format can have.
THEOREM CursorHolds == ~Damaged => (CursorSpec => []CursorInv)
<1> SUFFICES ASSUME ~Damaged
             PROVE  CursorSpec => []CursorInv
  OBVIOUS
<1>1. CursorInit => CursorInv
  BY CursorInvInductive
<1>2. CursorInv /\ [CursorNext]_cvars => CursorInv'
  BY CursorInvInductive
<1> QED
  BY <1>1, <1>2, PTL DEF CursorSpec

\* A cached descent is never resumed from a table that is freed, or that does not serve
\* the address: "the cached descent stays valid" (src/walker.rs).
THEOREM DescentIsCorrect == ~Damaged => (CursorSpec => []DescentCorrect)
<1> SUFFICES ASSUME ~Damaged
             PROVE  CursorSpec => []DescentCorrect
  OBVIOUS
<1>1. CursorInv => DescentCorrect
  <2> SUFFICES ASSUME CursorInv, last_vaddr # NoPage, NEW l \in 1..LEVELS-1, descent[l] # NoFrame
               PROVE  /\ descent[l] \in Linked /\ lev[descent[l]] = l
                      /\ pc # "walk" => last_vaddr \in cover[descent[l]]
    BY DEF DescentCorrect
  <2>1. CacheInv /\ open
    BY CacheTypes DEF CursorInv
  <2>2. CASE Mapping
    BY <2>1, <2>2 DEF CacheInv, Serves, Mapping
  <2>3. CASE ~Mapping
    BY <2>1, <2>3 DEF CacheInv, Serves
  <2> QED
    BY <2>2, <2>3
<1>2. CursorSpec => []CursorInv
  BY CursorHolds
<1> QED
  BY <1>1, <1>2, PTL

\* Every page whose translation a cursor has changed is queued for its flush when a call
\* has ended, also when the call failed; the allocator knows all of the walker's frames.
THEOREM ChangesAreQueued == BootFrames = {} => (CursorSpec => []QueuedCoversChanges)
<1> SUFFICES ASSUME BootFrames = {}
             PROVE  CursorSpec => []QueuedCoversChanges
  OBVIOUS
<1>1. CursorInv => QueuedCoversChanges
  BY DEF CursorInv, QueueInv, QueuedCoversChanges
<1>2. CursorSpec => []CursorInv
  BY CursorHolds DEF Damaged
<1> QED
  BY <1>1, <1>2, PTL

\* map_contiguous and map_scattered map the range from the front, each page to the place
\* in the backing that the call names, and all of it when they return Ok.
THEOREM PrefixIsMapped == ~Damaged => (CursorSpec => []PrefixMapped)
<1> SUFFICES ASSUME ~Damaged
             PROVE  CursorSpec => []PrefixMapped
  OBVIOUS
<1>1. CursorInv => PrefixMapped
  <2> SUFFICES ASSUME CursorInv, batch # NoBatch, pc \in {"idle", "return"}
               PROVE  /\ \A v \in batch.of.start..batch.at-1 : PageAt(v) = Backing(batch.of, v)
                      /\ ret = "Ok" => batch.at = batch.of.end
    BY DEF PrefixMapped
  <2>1. \A v \in batch.of.start..batch.at-1 : PageAt(v) = Backing(batch.of, v)
    BY DEF CursorInv, DoneInv, Done
  <2>2. ASSUME ret = "Ok"
        PROVE  batch.at = batch.of.end
    <3>1. pc = "return" /\ BatchInv
      BY <2>2 DEF CursorInv, AnswerInv
    <3>2. BatchCheck(batch.of) = "Ok" /\ AcceptedInv
      BY <2>2, <3>1 DEF BatchInv
    <3>3. batch.next = Len(batch.of.extents) + 1
      BY <2>2, <3>1, <3>2 DEF AcceptedInv
    <3> QED
      BY <3>1, <3>2, <3>3, InBatch
  <2> QED
    BY <2>1, <2>2
<1>2. CursorSpec => []CursorInv
  BY CursorHolds
<1> QED
  BY <1>1, <1>2, PTL

\* A call that names a granule gets leaves of that size and of no other.
THEOREM GranuleIsExact == ~Damaged => (CursorSpec => []GranuleExact)
<1> SUFFICES ASSUME ~Damaged
             PROVE  CursorSpec => []GranuleExact
  OBVIOUS
<1>1. CursorInv => GranuleExact
  <2> SUFFICES ASSUME CursorInv, batch # NoBatch, batch.of.granule # 0, NEW m \in Leaves,
                      NEW v \in m.pages, v \in batch.of.start..batch.at-1
               PROVE  Cardinality(m.pages) = batch.of.granule
    BY DEF GranuleExact
  <2>1. v \in Done
    <3>1. CASE pc # "flush"
      BY <3>1 DEF Done
    <3>2. CASE pc = "flush"
      <4>1. /\ req = NextLeaf /\ BatchCheck(batch.of) = "Ok" /\ batch.next # Len(batch.of.extents) + 1
            /\ BatchInv
        BY <3>2, InCall DEF CursorInv
      <4>2. req.end = batch.at + leaf_size /\ leaf_size \in Nat /\ batch.at \in Nat
        BY <4>1, NextLeafIsCall, NextLeafFits, InBatch
      <4>3. batch.of.start \in Nat
        BY <4>1, InBatch, BatchTypes
      <4> QED
        BY <3>2, <4>2, <4>3 DEF Done
    <3> QED
      BY <3>1, <3>2
  <2> QED
    BY <2>1 DEF CursorInv, DoneInv
<1>2. CursorSpec => []CursorInv
  BY CursorHolds
<1> QED
  BY <1>1, <1>2, PTL

\* map never changes a page that was mapped, nor one outside the range of the call: a
\* refused call, an exhausted allocator and a leaf refused half-way included.
THEOREM FreshPagesOnly == ~Damaged => (CursorSpec => BatchMapsFreshPages)
<1> SUFFICES ASSUME ~Damaged
             PROVE  CursorSpec => BatchMapsFreshPages
  OBVIOUS
<1>1. ASSUME CursorInv, CursorInv', [CursorNext]_cvars
      PROVE  [\A v \in ValidPages : batch # NoBatch /\ PageAt(v)' # PageAt(v) =>
                PageAt(v) = Unmapped /\ v \in Pages(batch.of)]_cvars
  <2> SUFFICES ASSUME CursorNext, NEW v \in ValidPages, batch # NoBatch, PageAt(v)' # PageAt(v)
               PROVE  PageAt(v) = Unmapped /\ v \in Pages(batch.of)
    BY <1>1
  <2>1. Sound /\ Sound' /\ open /\ v \in 0..UMAX-1
    BY <1>1, CacheTypes DEF CursorInv, Sound, ValidPages
  <2>2. open'
    BY <2>1, StepsInCall DEF map_leaf, CursorDescend, CacheTable, CursorRefuse, CursorInstall, LeafDone, BatchDone,
       CursorReturn
  <2>3. v \in Pages(req) /\ CursorInstall /\ PageAt(v) = Unmapped
    BY <2>1, <2>2, PageChanges
  <2>4. pc = "walk" /\ BatchInv
    BY <2>1, <2>3 DEF CursorInstall, MapInstall, Mapping, Sound
  <2>5. req = NextLeaf /\ BatchCheck(batch.of) = "Ok" /\ batch.next # Len(batch.of.extents) + 1
    BY <2>4, InCall
  <2>6. /\ req.start = batch.at /\ req.end <= batch.of.end /\ batch.of.start <= batch.at
        /\ batch.at \in Nat /\ batch.of.start \in Nat /\ batch.of.end \in Nat
    BY <2>4, <2>5, NextLeafIsCall, InBatch, BatchTypes
  <2>7. req.end \in Int
    BY <2>4, <2>5, NextLeafIsCall, CallTypes
  <2>8. v \in batch.of.start .. batch.of.end - 1
    BY <2>3, <2>6, <2>7 DEF Pages
  <2> QED
    BY <2>3, <2>8 DEF Pages
<1>2. CursorSpec => []CursorInv
  BY CursorHolds
<1> QED
  BY <1>1, <1>2, PTL DEF CursorSpec, BatchMapsFreshPages

===============================================================================

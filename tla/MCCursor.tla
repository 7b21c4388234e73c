-------------------------------- MODULE MCCursor --------------------------------
(* Small instances of PageTableCursor for TLC. *)
EXTENDS PageTableCursor, TLC, Sequences

CONSTANTS f1, f2, f3, f4, f5, f6, b1, b2, b3, b4

\* Three levels of two entries; leaves at levels 1 and 2; all of 0..7 is valid, so
\* that a batch can cross a table of either level.
SmallSpan == <<1, 2, 4>>

FrameSymmetry == Permutations(Frames \ BootFrames)

NoBoot == [root |-> NoFrame]

Request(o, s, e, p, f) == [op |-> o, start |-> s, end |-> e, pa |-> p, fl |-> f]

Extent(p, n) == [pa |-> p, size |-> n]

Batch(s, e, x, sc, g) ==
  [start |-> s, end |-> e, extents |-> x, scattered |-> sc, granule |-> g, fl |-> "rw"]

Contiguous(s, e, p) == Batch(s, e, <<Extent(p, e - s)>>, FALSE, 0)

\* One page; across a boundary of level 1, then 2; cut into leaves of both sizes, or not; of
\* a named size no level has; up to the end of the address space and beyond; past
\* the last physical page; and a shape that is no shape.
CoreBatches ==
  {Contiguous(3, 4, 1), Contiguous(1, 4, 1), Contiguous(3, 5, 0), Contiguous(4, 8, 0), Contiguous(7, 9, 3),
   Contiguous(4, 6, 7), Batch(2, 2, <<Extent(0, 0)>>, FALSE, 0)} \cup
  {Batch(2, 4, <<Extent(2, 1), Extent(1, 1)>>, TRUE, g) : g \in {0, 1, 2}} \cup
  {Batch(1, 3, <<Extent(0, 2)>>, FALSE, 2), Batch(2, 4, <<Extent(2, 2)>>, FALSE, 1),
   Batch(2, 5, <<Extent(3, 1), Extent(0, 1)>>, TRUE, 1),
   Batch(4, 8, <<Extent(0, 4)>>, FALSE, 4)}

CoreRequests ==
  {Request("unmap", 3, 4, 0, "rw"), Request("remap", 2, 4, 0, "rw"), Request("protect", 3, 4, 0, "ro")}

Slots2(e0, e1) == [i \in Slots |-> IF i = 0 THEN e0 ELSE e1]

\* A table the kernel adopts: an entry of no legal kind at page 6, all else unmapped.
FaultyBoot ==
  [root |-> b1,
   mem  |-> (b1 :> Slots2(Table(b2), Table(b3)) @@ b2 :> ZeroTable @@ b3 :> Slots2(Unused, Invalid)),
   lev  |-> (b1 :> 3 @@ b2 :> 2 @@ b3 :> 2),
   cover |-> (b1 :> ValidPages @@ b2 :> 0..3 @@ b3 :> 4..7)]

\* A page, the faulty page, and a page whose path differs from the first one's
\* below the tables that the second walk has cached.
FaultyBatches == {Contiguous(0, 1, 0), Contiguous(6, 7, 0), Contiguous(1, 2, 1)}

===============================================================================

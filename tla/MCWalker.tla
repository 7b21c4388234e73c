------------------------------- MODULE MCWalker -------------------------------
(* Small instances of PageTableWalker for TLC. *)
EXTENDS PageTableWalker, TLC

CONSTANTS f1, f2, f3, f4, f5, b1, b2, b3, b4

\* Two entries per table, three levels.  Valid pages are 0..3 and 12..15, as
\* canonical addresses are.  With leaves at every level this is Sv39 shrunk; with
\* leaves at levels 1 and 2 only, it has a named size that no level has, as the
\* four-level x86-64 format does.
SmallSpan == <<1, 2, 4>>

FrameSymmetry == Permutations(Frames \ BootFrames)

NoBoot == [root |-> NoFrame]

Request(o, r, p, fl) == [op |-> o, start |-> r[1], end |-> r[2], pa |-> p, fl |-> fl]

\* Two pages of one table, the level-2 leaf over them and the one beside it, the
\* level-3 leaf over both, and a page in the upper half.
CoreRanges == {<<0, 1>>, <<1, 2>>, <<0, 2>>, <<2, 4>>, <<0, 4>>, <<12, 13>>}

\* Empty, beyond the lower half, up to a non-canonical end, not aligned to its
\* size, and the last page but one.
OddRanges == {<<0, 0>>, <<4, 5>>, <<3, 5>>, <<1, 3>>, <<14, 15>>}

CoreRequests ==
  {Request("map", x, p, "rw") : x \in CoreRanges, p \in {0, 1}} \cup
  {Request("unmap", x, 0, "rw") : x \in CoreRanges} \cup
  {Request("remap", x, p, "rw") : x \in {<<0, 1>>, <<0, 2>>}, p \in {1, 2}} \cup
  {Request("protect", x, 0, "ro") : x \in {<<1, 2>>, <<0, 2>>}} \cup
  {Request(o, x, 0, "rw") : o \in {"split_at", "merge_at"}, x \in {<<0, 1>>, <<0, 2>>, <<0, 4>>}} \cup
  {Request(o, x, 0, "rw") : o \in Ops, x \in OddRanges} \cup
  {Request(o, <<0, 1>>, 4, "rw") : o \in {"map", "remap"}}

\* A bootloader's table: two mergeable pages at 0, an entry of no legal kind
\* beside their table, and a leaf over the last two pages of the address type.
BootSlots(e0, e1) == [i \in Slots |-> IF i = 0 THEN e0 ELSE e1]

Boot ==
  [root |-> b1,
   mem  |-> (b1 :> BootSlots(Table(b2), Table(b4)) @@ b2 :> BootSlots(Table(b3), Invalid) @@
             b3 :> BootSlots(Leaf(0, "rw"), Leaf(1, "rw")) @@
             b4 :> BootSlots(Unused, Leaf(2, "rw"))),
   lev  |-> (b1 :> 3 @@ b2 :> 2 @@ b3 :> 1 @@ b4 :> 2),
   cover |-> (b1 :> ValidPages @@ b2 :> 0..3 @@ b3 :> 0..1 @@ b4 :> 12..15)]

BootRequests ==
  {Request("map", x, 0, "rw") : x \in {<<0, 1>>, <<1, 2>>, <<0, 2>>, <<2, 3>>, <<12, 13>>}} \cup
  {Request("unmap", x, 0, "rw") : x \in {<<0, 1>>, <<1, 2>>, <<0, 2>>, <<0, 4>>, <<12, 13>>}} \cup
  {Request("unmap", <<14, 15>>, 0, "rw"), Request("protect", <<2, 3>>, 0, "ro"),
   Request("split_at", <<0, 2>>, 0, "rw"), Request("merge_at", <<0, 2>>, 0, "rw"),
   Request("merge_at", <<2, 4>>, 0, "rw")}

\* Two levels of four entries, and a named size between their spans, as 16 KiB is
\* between the 4 KiB and the 2 MiB of x86-64: a range of one page, two, three, four.
WideSpan == <<1, 4>>

SizeRequests == {Request(o, <<0, n>>, 0, "rw") : o \in {"map", "unmap"}, n \in 1..4}

===============================================================================

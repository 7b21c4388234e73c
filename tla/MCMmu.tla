--------------------------------- MODULE MCMmu ---------------------------------
(* Small instances of WalkerMmu for TLC. *)
EXTENDS WalkerMmu, TLC

CONSTANTS f1, f2, f3, f4, b1, b2, b3

SmallSpan == <<1, 2, 4>>

FrameSymmetry == Permutations(Frames \ BootFrames)

NoBoot == [root |-> NoFrame]

Slots2(e0, e1) == [i \in Slots |-> IF i = 0 THEN e0 ELSE e1]

\* A table to adopt: pages 0 and 1 make one leaf.  The allocator refuses its frames.
PairBoot ==
  [root |-> b1,
   mem  |-> (b1 :> Slots2(Table(b2), Unused) @@ b2 :> Slots2(Table(b3), Unused) @@
             b3 :> Slots2(Leaf(0, "rw"), Leaf(1, "rw"))),
   lev  |-> (b1 :> 3 @@ b2 :> 2 @@ b3 :> 1),
   cover |-> (b1 :> ValidPages @@ b2 :> 0..3 @@ b3 :> 0..1)]

Request(o, s, e, p, fl) == [op |-> o, start |-> s, end |-> e, pa |-> p, fl |-> fl]

MmuRanges == {<<0, 1>>, <<1, 2>>, <<0, 2>>}

MmuRequests ==
  {Request("map", x[1], x[2], p, "rw") : x \in MmuRanges \cup {<<12, 13>>}, p \in {0, 1}} \cup
  {Request("unmap", x[1], x[2], 0, "rw") : x \in MmuRanges} \cup
  {Request("remap", x[1], x[2], 2, "rw") : x \in {<<0, 1>>, <<0, 2>>}} \cup
  {Request("protect", x[1], x[2], 0, "ro") : x \in {<<1, 2>>, <<0, 2>>}} \cup
  {Request(o, 0, 2, 0, "rw") : o \in {"split_at", "merge_at"}} \cup
  {Request("map", 0, 2, 0, "global")}

AdoptRequests ==
  {Request("map", x[1], x[2], 0, "rw") : x \in MmuRanges \cup {<<12, 13>>}} \cup
  {Request("unmap", x[1], x[2], 0, "rw") : x \in MmuRanges \cup {<<12, 13>>}} \cup
  {Request("protect", 1, 2, 0, "ro")} \cup
  {Request("map", 0, 1, 0, "global")} \cup
  {Request(o, 0, 2, 0, "rw") : o \in {"split_at", "merge_at"}}

\* A level-2 leaf: more pages than FullThreshold.
GlobalRequests ==
  {Request("map", x[1], x[2], 0, fl) : x \in {<<0, 2>>, <<2, 3>>}, fl \in {"rw", "global"}} \cup
  {Request("unmap", x[1], x[2], 0, "rw") : x \in {<<0, 2>>, <<2, 3>>}}

===============================================================================

# A verification development of kore-memory

This directory holds TLA+ models of [kore-memory](../src/README.md), TLC
configurations that check them on small instances, and proofs checked by TLAPS.
The crate edits page tables for x86-64, AArch64 and RISC-V kernels. Line numbers
below are those of `src/src/walker.rs` unless another file is named.

## The system

| Part | State it keeps | Operations | Talks to |
| --- | --- | --- | --- |
| page-table walker (`PageTableWalker`) | the root frame; everything else is in the table frames | `try_new`, `adopt`, `query`, `map`, `remap`, `protect`, `unmap`, `split_at`, `merge_at`, `Drop` | frame allocator, entry format, TLB backend |
| batching cursor (`PageTableCursor`) | the tables on the path of the last address, that address, the flush queue | `new`, `map`, `remap`, `protect`, `unmap`, `finish`, `Drop`; inside `map`: `map_contiguous`, `map_scattered`, `map_leaf` | the walker it borrows, the flush queue |
| flush queue | up to 128 disjoint ranges, or "flush everything" | `queue_flush_range`, `flush_pending` | TLB backend |
| geometry and argument checks (`PagingMetaData`, helpers) | none | `index_at`, `vaddr_is_valid`, `size_to_level`, `leaf_range`, `check_leaf_range`, `exact_leaf_size` | |
| entry formats (`X86Pte`, `A64Pte`, `Rv64Pte`, their flags) | none | `new_leaf`, `new_table`, `entry_kind`, `leaf_flags`, flag conversions | geometry |
| TLB backends (`X86Tlb`, `X86TlbBroadcast`, `A64Tlb`, `Rv64Tlb`) | a cached `INVLPGB` page limit | flush an address range or everything, locally or on all CPUs | hardware |
| activation (`install`, `activate`, `current`) | control registers | switch the CPU to a table | hardware |
| frame allocator (`FrameAllocator`) | the consumer's | `allocate`, `deallocate` | |
| typed access and requests (`Mapping`, `MapBacking`, `MappingFlags`) | none | reads, writes, constructors | |

Interactions. The consumer holds `&mut` to the walker, so one operation runs at a
time and no lock is taken; a cursor borrows the walker for as long as it lives.
Every operation descends from the root one level at a time, does its stores, may
call the allocator - which can fail or refuse at any call - and ends with a flush
through the TLB backend. The hardware does not take part in that discipline: the
MMU of any CPU walks the same frames between any two stores and keeps what it read
in its TLB and its paging-structure caches.

What is hard. (1) Failure in the middle: each allocator call is an early return
that leaves the earlier stores in place. (2) The order of store, free and flush
against a translating MMU. (3) Long sequences of legal calls: large and small
leaves of the same range, split and merge, tables reclaimed when the last entry
goes. (4) Cached state: the cursor's path, the TLB. (5) Limits: the flush queue's
128 ranges, the end of the address type, the non-canonical hole, sizes a format
has no level for. `PROJECT.json` lists each hazard at its line.

What makes each part correct:

* walker: the tables are a tree that loses no frame and holds no pointer to a
  freed one; a call takes effect completely or not at all, with an error that the
  mappings justify; every loop ends.
* walker and MMU: when a call returns, no CPU can translate through what the call
  removed; split and merge are invisible at every store.
* cursor: a cached table is the one a descent from the root would reach; a batch
  maps its range from the front and nothing else; every change has been queued when
  a call returns, and `finish` or `Drop` flushes it, failed calls included.
* flush queue: what is pending is exactly what was queued, each page once.
* entry formats: what is encoded decodes to itself, and a leaf is never taken for
  a table.
* activation: after every register write the CPU translates through a root it was
  given, read with the right shape, tag and memory types, or does not translate.

## The modules

| Module | Models | Depends on |
| --- | --- | --- |
| `PagingGeometry` | the pure functions on addresses and sizes, for any format: number of levels, entries per table, span of an entry per level, which levels have leaves, which sizes have a name | |
| `PageTableWalker` | the walker with the allocator it calls, one action per store, allocator call or level of a descent | `PagingGeometry` |
| `AddressSpace` | what the `PageTable` trait promises: a set of mappings, changed by whole calls | |
| `FlushQueue` | `queue_flush_range` and `flush_pending`, one iteration of their loops per step | |
| `PageTableCursor` | the cursor: the walker's own steps with what they do to the cursor's fields | `PageTableWalker` |
| `WalkerMmu` | the walker together with the MMUs of two CPUs that have cached all they may cache, and the TLB backends | `PageTableWalker` |
| `EntryFormats` | the eleven paging formats: geometry, encoding and decoding of entries, what the hardware reads in them, and one slot under any sequence of the walker's writes | |
| `Activation` | install, activate, current and the direct register writes of the three activators, one register write per step, on a CPU with interrupts and a TLB | `EntryFormats` |
| `PageTableWalkerProofs` | theorems: the tables are a tree that loses no frame | `PageTableWalker`, `TLAPS` |
| `WalkerContentProofs` | theorems: what the tables hold, and what `query` makes of it | `PageTableWalkerProofs` |
| `WalkerContractProofs` | theorem: the walker implements `AddressSpace` | `WalkerContentProofs` |
| `WalkerMmuProofs` | theorems: what the MMUs hold when a call returns | `WalkerMmu`, `WalkerContractProofs` |
| `FlushQueueProofs` | the theorems about the queue | `FlushQueue`, `TLAPS` |
| `PageTableCursorProofs` | theorems: what a cursor caches, maps and queues | `PageTableCursor`, `WalkerContractProofs` |
| `ActivationProofs` | theorems: entries, geometries, and what an activation leaves in the registers | `Activation`, `TLAPS` |
| `ActivationSafetyProofs` | theorems: what the CPU translates through after each write | `ActivationProofs` |
| `MCWalker`, `MCMmu`, `MCCursor`, `MCActivation` | instances for TLC (`FlushQueue` needs none) | |

### PageTableWalker

Addresses are counted in base pages: an offset inside a page never decides
anything in this code. A frame holds `E` entries, each unused, invalid, a table
pointer or a leaf with a physical base and a flag bundle; `Entries` is what
`PageTableEntry` (`src/src/paging.rs:45`) promises of any encoding. `owner` is the
allocator's view of a frame: free, given to the walker, `boot` (a table that was
there before the walker), `adopted`. The allocator refuses to take back a frame it
did not give out, which is what `adopt` makes possible.

`pc` names the step a call is at: `walk` (one level of a descent per step),
`swap` (split has filled its table and not linked it yet), `reclaim` and `release`
(unmap's way back up: empty table found, entry cleared, frame freed), `flush`,
`return`, and `drop` (`drop_subtree`, whose recursion is kept in `path` and `pos`).
A call begins with its argument checks in `Call(r)` and leaves its result in
`ret`. Requests are records `[op, start, end, pa, fl]`; the set `Requests` is a
constant, and the theorems hold for any.

| Code | Actions |
| --- | --- |
| `try_new`, `adopt` (162-191) | `try_new`, `adopt` |
| `map` of one leaf (297-356) | `MapDescend`, `MapGrow`, `MapStarve`, `MapRefuse`, `MapInstall` |
| `exact_leaf_slot` (239-268) | `ExactDescend`, `ExactRefuse`, `LeafCheck` |
| `remap`, `protect` (358-413) | `Rewrite` |
| `unmap` (415-509) | `UnmapClear`, `ReclaimStop`, `ReclaimUnlink`, `ReclaimFree` |
| `split_at` (511-568) | `SplitBuild`, `SplitStarve`, `SplitSwap` |
| `merge_at` (570-686) | `MergeDescend`, `MergeRefuse`, `MergeNothing`, `MergeWrite`, `MergeFree` |
| `flush_leaf_range` (688-700) | `Flush` |
| `Drop`, `drop_subtree` (804-819, 1580-1602) | `DropStart`, `DropScan`, `DropFree` |
| `query` (211-237) | the operator `query` |

Two history variables carry what the code has no variable for: `lev[f]`, the level
of a table, and `cover[f]`, the pages whose translation goes through it. They are
set when a table is linked and cleared when it is freed, and no guard reads them.
`untidy` remembers that tables other than the root may be empty: some call failed
half-way, or the adopted tree had such a table (`Loose`). `Damaged` says that it had
an entry that is no legal kind, the one thing for which the walker answers
`InvalidEntryKind`. Its leaves are legal ones (`BootAssumption`).

A map of more than one leaf opens a cursor: in `PageTableWalker` alone it is no
call (`NeedsCursor`), in `PageTableCursor` it is `new`, `map`, `finish`.

### AddressSpace and the refinement

`AddressSpace` has a set of mappings `[pages, pa, fl]` and one atomic action per
outcome of a call. `PageTableWalker` implements it under the mapping `Contract`:
the mappings are the leaves of linked tables, and the effect appears at the one
store that makes it (`MapInstall`, `Rewrite`, `UnmapClear`, `SplitSwap`,
`MergeWrite`). The property `ImplementsContract` says that every other step is
invisible, that a call that returns an error has changed nothing - but for the
refusal of an adopted frame, which the contract admits - and that each error is
justified by the mappings.

### FlushQueue

The ranges are the code's, in the code's order: `Absorb` removes the range at `idx`
with `swap_remove` and looks at the same index again, `Skip` goes on, `Push` adds
the grown window or gives the queue up. The history variable `stale` holds the
pages that changed and were not flushed since. Unit: base pages; the checked
arithmetic of lines 976 and 987 cannot fail for ranges that are address ranges, and
those two branches are left out. `flush_pending` takes a range from the queue as it
flushes it, in the order of the starts, which is what sorting first does.

### PageTableCursor

The cursor borrows the walker, and the actions of `PageTableWalker` are reused
inside those of the cursor: `CursorDescend` is `MapDescend` or `MapGrow` together
with the store into `descent`. That is faithful because `map_leaf_sized_at_level`
is, line for line, `map_leaf_direct_sized_no_flush` with a different start of the
walk and the cache. A call of `map` is a record in `Batches` with its range, its
extents (one for `MapBacking::Contiguous`), whether it was `Scattered`, and its
granule, 0 for `MappingContiguity::Contiguous`. `batch` is how far it has come: the
call `of`, the number `next` of the extent in progress, and the address `at` of the
next leaf. `Begin(n)` is where extent n starts, so that `Rest` is what is left of the
one in progress.

| Code | Actions |
| --- | --- |
| `new`, `finish`, `Drop` (917-930, 1054-1062, 1350-1360) | `new`, `finish` |
| `map`, the checks of `map_contiguous`, `map_scattered` (1070-1196) | `map`, `BatchCheck` |
| the loops of `map_contiguous` and `map_scattered` | `map_leaf` with its checks `LeafArgs`, `LeafDone`, `BatchDone`, `leaf_size` |
| `reusable_level`, `invalidate_below`, start of the walk (936-958, 1237-1256) | `map_leaf`, `StartLevel` |
| `map_leaf_sized_at_level` (1258-1299) | `CursorDescend`, `CursorRefuse`, `CursorInstall` |
| `unmap`, `protect`, `remap` (1301-1347) | `CursorCall`, `CursorStep`, `CursorQueue` |

The flush queue is abstracted to `queued`, the set of pages it covers: `FlushQueue`
shows that it is exact, that it overflows into a full flush and that a flush leaves
nothing. `changed` is a history variable: the pages that `query` answers
differently for since the cursor was opened.

`CursorInv` is the inductive invariant, checked by the run `cursor` and proved for all
instances. Beside the walker's own `IInv` and `ContentInv` it has `CacheInv` (a cached
table serves the address the cursor was left at, or that of the leaf being mapped),
`BatchInv` (where the call stands in its extents, and what its checks have
established), `DoneInv` (the pages passed are backed as the call says, by leaves of its
granule), `QueueInv` (a changed page is queued, or in the range of the call that will
queue it) and `AnswerInv` (no answer is left over when a call begins).

### WalkerMmu

The MMU is taken at its worst: `tlb[c]` holds every translation, and `tables[c]`
every table pointer, that a walk by CPU `c` could have read since the last flush
that covers it there. One CPU runs the walker, another one only translates.
`backend` is the consumer's choice of `TlbInvalidation`, fixed for the life of a
table:

| Backend | One page or a range | Everything |
| --- | --- | --- |
| `X86Tlb` | `INVLPG`: all, locally | reload of CR3: keeps global translations, locally |
| `X86PcidTlb` | `INVPCID` of an address: keeps global translations, locally | `INVPCID` of a context: the same |
| `X86InvlpgbTlb`, and with its global flag `InvlpgbWithGlobal` | `INVLPGB` and `TLBSYNC`: on all CPUs, global ones only with the flag | never chosen: it overrides `prefer_full_flush` |
| `A64Tlb` | `TLBI VAAE1IS`: all, on all CPUs | `TLBI VMALLE1IS`: the same |
| `Rv64Tlb` | `sfence.vma` with an address: leaf entries only, locally | `sfence.vma`: all, locally |

`FullThreshold` is the page count above which the default policy flushes everything
(`src/src/paging.rs:211`). `Reached` is the set of CPUs a backend vouches for:
"cross-core shootdown is layered above" the local ones, so what another CPU holds
under them is no matter of this crate. Global leaves are asked of the walker only
with the backends in `GlobalUsers`, and a table with global leaves is adopted under
one of them only. The stores of the walker are seen in program order.

`unmap` (line 500) and `merge_at` (line 682) return with `?` when the allocator
refuses a frame, as it does for those of an adopted table: their stores are done and
their flush is not. The history variable `unflushed` holds the pages of such calls
until a flush covers them or Drop begins, and `CoherentAtReturn` speaks of the other
pages. It is empty for as long as the allocator takes back what it gave.

`mmu.cfg` leaves `Rv64Tlb` out. An `sfence.vma` with an address need not order
accesses to non-leaf entries, so after an unmap of one page that reclaimed a table
a hart may still hold a pointer to it, and `FreedTablesForgotten` fails. The crate
says nothing about it either way, so there is no finding, only a hazard.

### EntryFormats

An entry is the set of its named bits, the address it holds, its memory-type index
(PAT index, PBMT or AttrIndx) and its shareability. `X86Leaf`, `Rv64Leaf`,
`A64Leaf` and the `...Table` operators are `new_leaf` and `new_table`; `X86Flags`,
`Rv64Flags`, `A64Flags` are the conversions back; `X86Kind`, `Rv64Kind`, `A64Kind`
are `entry_kind`. Bit 7 of an x86-64 entry is one bit with two meanings, as in the
code, and so is the bit that makes an AArch64 descriptor a page or a table.
`HwKind`, `HwRights` and `HwType` are what the processor manuals make of the same
bits (external). The bits of `TTE64` belong to another crate and are modelled from
their use; its two execute-never bits are one here, since the code always writes
both.

The state machine follows one slot. `map_leaf_direct`, `link_table`,
`protect_no_flush`, `remap_no_flush` and `unmap_no_flush` are the stores of the
walker; `split_at` and `merge_at` follow a leaf into the table below and back, with
the flags *read back from the entry*, as lines 537 and 649 do; `merge_over`
is the same merge seen from the slot of the table; `AdoptHighPat` is a 4 KiB leaf
of other code with the PAT bit set, which the decoder must map to the policy of the
lower slot. `want` is a history variable, what was last asked of the slot.
`ReadsBack` compares it with what the walker reads, `HardwareAgrees` with what the
hardware does.

What a format cannot say is not asked for: `Kept` is the part of the flags that
survives. RISC-V has no write-through, and without Svpbmt one memory type;
shareability is kept on AArch64 only, where `System` becomes outer. `LeafFlags` are
those made by the flag types' `new`, which adds READ. `Rv64Flags::default()`
(`src/src/arch/riscv64/entry.rs:36`) has no access bit, and a leaf made of it reads
back as a table: that is a hazard of the type, and outside the model.

`GeometryExact` is about the eleven geometries alone: the index fields of the levels
tile the virtual address, root tables narrower than the others included, leaves are
as large as what their entry translates, and of the addresses with one path through
the tables exactly one is canonical (every width up to a word of `WordBits` bits, with
the early return of `canonical_vaddr_is_valid` for an address as wide as its type).

### Activation

| Code | Actions |
| --- | --- |
| `activate` of the three activators, `write_cr3`, `write_satp` | `activate`, then one `WriteRegister` per register of `X86Program`, `A64Program`, `Rv64Program`, then `Return` |
| `without_interrupts`, `with_irq_disabled` | `irq_masked` in `Enter`, `irq_restored` in `Return` |
| `write_cr0`, `write_cr4`, `write_mair_el1`, `write_tcr_el1`, `write_ttbr0_el1`, `write_ttbr1_el1`, `write_sctlr_el1` | `write` |
| `install`: `frame_from_root`, `encode_ttbr`, `ppn_from_root` | `install`: a root that is unaligned or too large is refused |
| `current` | `Observe`; `Reactivate` activates the token it gave |
| `install_x86_pat`, `install_a64_mair_el1` | the actions of the same names |

The rest of the system is external: `Boot`, `MaskInterrupts`, `Interrupt` (a handler
that leaves another root active, whenever interrupts are enabled, between any two
steps), `Invalidate` (the caller takes a tag back). So is the CPU: `Refuses` (the
exceptions of CR0, CR3 and CR4), `RegAfter` (a write of satp with a mode the CPU
lacks is ignored), `Surviving` (what a write drops from the TLB) and `Contexts`
(what it then translates through). It is taken at its worst, translating through the
active root after every single write and keeping the result.

Barriers on AArch64. Each write of TCR, TTBR and SCTLR is followed by an ISB, with
interrupts masked, and is one step with it. The writes of MAIR, direct or by
`activate`, have no barrier: `walk_mair` is the value that translations may still use,
and it takes up what MAIR holds at the next barrier, that of TCR or TTBR, or the one
in `install_a64_mair_el1`. SCTLR's does not count, because the MMU may translate
before it. `MemoryTypeInForce` is asked of both values, so that an activation that
wrote MAIR after its last barrier before SCTLR would violate it.

`Legal` is what the safety comments of `activate` ask of the caller: the controls
together describe the root, paging is not turned off, PCIDE is turned on under a CR3
without flags, and a tag is reused for another root only where the call or the
caller has dropped it. The direct writes are under the same obligations: their
values are raw and checked by nobody, so that of `write_ttbr0_el1` has to be one of a
root the register holds, and before `write_sctlr_el1` MAIR has to be in force, as the
comment of `install_a64_mair_el1` asks. Only legal calls are made; what the
properties say is that the *order* of writes inside a legal call is right at every
prefix. They say nothing of a caller who asks for a satp mode that the CPU lacks, who
reuses an AArch64 ASID without invalidating it, or who preserves the translations of
another root under a PCID: `PROJECT.json` lists these under `hazards`, as the caller's. On AArch64 the
upper half of the address space belongs to the kernel, with ASID 0, and paging once
enabled stays enabled. `current` is called while the CPU translates, and one token
is kept. The instances have no global x86-64 translations: those are `mmu`'s.

The module extends `EntryFormats`: before `Boot` the entry machine runs, after it the
CPU. `MemoryTypeInForce` joins the two, the index an entry carries with the table
that PAT or MAIR holds at that moment.

## What is checked

| Run | Properties | Instance |
| --- | --- | --- |
| `walker_core` | `TypeOK`, `NoDanglingTable`, `NoLostFrame`, `OnePath`, `TightTree`, `LeavesEncodable`, `ImplementsContract` | fresh table, 3 levels of 2 entries, 5 frames, 49 requests |
| `walker_adopt` | `IInv`, `ContentInv`, `QueryIsExact`, `ImplementsContract`, `CallsReturn` | an adopted table with two mergeable pages, an invalid entry and a leaf at the top of the address type; no leaves at the root level; no symmetry |
| `mmu` | `MmuInv`, `CoherentAtReturn`, `FreedTablesForgotten`, `SplitMergeTransparent` | 2 CPUs, 5 backends, a fresh table or an adopted one with two mergeable pages, 3 adopted frames and 2 more, threshold 1 page, global leaves with `InvlpgbWithGlobal` and `A64Tlb` |
| `activation` | `TypeOK`, `ReadsBack`, `HardwareAgrees`, `GeometryExact`, `ActiveRootIsToken`, `NoGarbageTranslation`, `TranslationsFromActiveRoot`, `NoFault`, `RestoresObserved`, `MemoryTypeInForce`, `InterruptsAsBefore` | all 11 formats with and without Svpbmt, 72 flag bundles, 2 bases; a CPU of each architecture, 5 roots, 2 tags, 4 satp modes of which the CPU has 3 |
| `queue` | `TypeOK`, `QueueIsExact`, `RangesApart`, `CountIsExact`, `EscalatesOnlyOnOverflow`, `FlushCoversAll`, `CallsEnd` | 8 pages, capacity 3, threshold 4 |
| `cursor` | `CursorInv`, `DescentCorrect`, `QueuedCoversChanges`, `PrefixMapped`, `GranuleExact`, `BatchMapsFreshPages` | 8 valid pages, leaves at levels 1 and 2, 5 frames, 14 batches, 3 other calls |
| `cursor_stale_descent` | `BatchMapsFreshPages` is violated | an adopted table with an invalid entry, 3 batches |
| `walker_unsupported_size` | `SizesAreChosenLegal` is violated | 2 levels of 4 entries, a named size between their spans |
| `walker_already_mapped` | `AlreadyMappedMeansMapped` is violated | as `walker_core` |
| `walker_merge_refused` | `RefusedMergeChangesNothing` is violated | as `walker_adopt` |
| `mmu_freed_table` | `FreedTablesNeverWalked` is violated | `X86Tlb` alone, a fresh table and 4 frames |
| `mmu_global` | `CoherentAtReturn` is violated | `X86Tlb` alone, global leaves asked for |

Why these bounds are enough to be interesting. Two entries per table is the least
number for which a table can be half empty; three levels is the least for which a
reclaim can stop in the middle, a leaf can be two levels above another, and split
and merge can be repeated. The address type has 16 pages of which 8 are valid, in
two halves, so that the non-canonical hole, the sign-extended half and the missing
end of the last leaf all occur. Five frames let one path and a second one exist in
full and a third allocation fail. Requests include overlapping leaves of all
three sizes, ranges that are empty, unaligned, or reach into the hole, and
physical addresses that are unaligned or too large. In the adopted instance the
size that has a name and no level stands for the 512 GiB entry of four-level
x86-64.

The queue's capacity of 128 becomes 3: enough for a window that absorbs two ranges
on either side of one it has passed, for `swap_remove` to move a range that was not
looked at, and for an overflow; eight pages hold more separate runs than the queue
does. In `cursor` all of 0..7 is valid, so that a batch crosses the boundary of a
table of either level; the batches are cut into leaves of both sizes, stick to a
granule, start on what an earlier one has mapped, reach the end of the valid
addresses, or have a shape that is refused, and an unmap takes a cached table away.

In `activation` the five roots are two of one shape, one of another, one that is not
aligned and one too wide for each register, so that switches between same and
different shapes, and refusals, all occur; the tags are 0 and 8, because CR3 bit 3 is
both a PCID bit and a cache flag. A CPU of each architecture is booted once: what an
activation does depends on the registers, not on the tables below the root. Base 8
is aligned for every leaf level that two entries per table give, and splits reach
the odd bases in between. `CHECK_DEADLOCK FALSE` is there because an entry slot may
end up holding a table, which the consumer need never remove, and because a CPU on
which a write was refused has no next step (which `NoFault` says never happens).

In `mmu` the allocator refuses the frames of the adopted table, so that calls end
before their flush, and the two other frames are just enough for a split, for a
table that is linked and reclaimed again, and for a map that fails.

`walker_core`, `cursor` and `mmu` reduce by the symmetry of the frames the allocator
gives out: no operation orders or compares them, and the boot table's frames are
left out of the permutations. `walker_adopt` checks a liveness property and uses
none.

The six violations are disagreements between the code and its own comments; the
`findings` of `PROJECT.json` quote them. Two deserve a word here. A contiguous map
of exactly 16 KiB, 64 KiB, 32 MiB or 512 MiB on x86-64 is refused, because
`exact_leaf_size` (1470) takes the length of the range for a page size. And the one
`?` of `map_leaf_sized_at_level` (1262) leaves the cursor with tables cached for
another address: the next map returns `Ok` and has mapped the wrong page. The
public `map` drops its cursor on an error, so today only a cursor that is used
again could show it.

Fairness. `Spec` assumes weak fairness of `Step`, the steps of a call that has
begun. The code is a sequential function without locks, waits or retries, so a call
that has begun runs on until it returns. Nothing is assumed of `Call`, `DropStart`
or the constructors: the consumer need not make another call. `FlushQueue` makes the
same assumption of its two functions. The MMU, the entry slot and the CPU of
`Activation` are under no fairness and have no liveness property.

## What is proved

`PageTableWalkerProofs` proves, for every number of levels (up to the six of
`MAX_LEVELS`), entries, frames, flags and calls, and every boot table that meets
`BootAssumption`:

* `TypeSafe`: `Spec => []TypeOK`
* `NeverDangling`: `Spec => []NoDanglingTable`
* `NeverLost`: `Spec => []NoLostFrame`
* `AlwaysOnePath`: `Spec => []OnePath`

They assume `GeometryAssumption`, `FrameAssumption`, `RequestAssumption` and
`BootAssumption`. The first is what all formats have in common: an entry of level
l+1 spans `E` entries of level l; leaf levels have a named size; the address type,
the physical limit and the halves of a sign-extended space are multiples of what is
counted in them, since all are powers of two; leaves are at the lowest levels. The
last says that the table handed to `adopt` is a tree whose leaves the format has, the
caller's obligation that `adopt`'s safety comment states. TLC evaluates all four on
every run.

The argument. None of the three tree properties is inductive alone. Freeing a
table is safe only because exactly one entry pointed to it, and the code knows
that entry only as "the one the descent came through". So the inductive invariant
`IInv` says, beside the properties, where each step stands:

* `WalkInv`: the table under examination is a linked one of level `lvl` that serves
  the start of the range, and so are the parents that unmap remembers;
* `ChildInv`: the table in transit is a table that nothing links - emptied by
  unmap, merged away, or filled by split_at - and at its level;
* `DropInv`: `path[l]` is a linked table of level l, and the entry before `pos[l]`
  is the one that leads to `path[l-1]`; the entries before that lead to freed
  frames and are no links any more (`Scanned`);
* `RootInv`, `CoverInv`, `BootInv`: the root serves every valid page, no table
  serves none, and a boot table is untouched until it is adopted.

`OnePath` with `CoverInv` gives `UniqueLink` (a table is linked from one entry) and
`NothingBelow` (below a table without links there is none). From these the module
proves one lemma per kind of store - `LeafWrite`, `LinkTable`, `CutTable`,
`FreeChild`, `TreeSameLinks` - and one lemma per action on top of them, which
`IInvInductive` puts together. At the end of Drop the same argument shows that the
root is the last table, so nothing is left behind.

`WalkerContentProofs` goes on, under the same assumptions, to what the entries hold:

* `TreeIsTight`: `Spec => []TightTree`
* `LeavesAreEncodable`: `Spec => []LeavesEncodable`
* `QueryTellsTheMappings`: `Spec => []QueryIsExact`

Its inductive invariant `ContentInv` (`ContentHolds`) stands beside `IInv`. `BlockInv`
says that what goes through an entry is an aligned block of pages, which is what
makes an index, a page offset and the end of a leaf agree; `UsedInv` that each leaf
has such pages; `TightInv` where the one table that may be empty is during a call;
`CallInv` that the arguments of the call in progress passed its checks;
`ForeignInv` and `DamageInv` that frames the allocator will not take back, and
invalid entries, were adopted. `QueryIsExact` is no invariant in itself: the lemmas
`WalkEnds` and `OneLeaf` show that the descent of `query` ends at the one entry
that holds the page.

`WalkerContractProofs` proves `WalkerImplementsContract`: `Spec => ImplementsContract`,
the refinement. The initial state maps to the initial state of `AddressSpace`, and
each action of the walker maps to the one action of the contract that its call has
there, or to a stutter. The mappings are a set defined from all tables at once, so
each kind of store has a lemma that says what it does to that set: nothing
(`MapGrow`, reclaiming an empty table), one mapping more, fewer or changed, a block
cut into `E`, `E` blocks joined. For each error that is returned, a lemma finds the
mapping that justifies it in the entry the descent stopped at.

`WalkerMmuProofs` proves, for every geometry, set of calls, adopted table, set of
backends and threshold:

* `MmuInvariantHolds`: `MmuSpec => []MmuInv`
* `CoherentWhenCallsReturn`: `MmuSpec => []CoherentAtReturn`
* `FreedTablesAreForgotten`: `MmuSpec => []FreedTablesForgotten`
* `SplitMergeAreTransparent`: `MmuSpec => SplitMergeTransparent`

The first three assume that global pages are asked for only over backends whose
flushes drop them (`GlobalUsers \subseteq GlobalFlushers`): the run `mmu_global` shows
what happens otherwise. The third also assumes that `Rv64Tlb` is not used, for the
reason given above.

The argument. A walk of the hardware for a page ends at exactly one table
(`WalkReads`, `EndsOnce`), so a store that keeps what that table says of the page
keeps its translation; one lemma per store shows that it does so for all pages
outside the range of the call, and for `split_at` and `merge_at` inside it too.
`MmuInv` says that a page translates as the table says unless it is in `unflushed`
or in `Pending`, the range of a call between its store and its flush; that every
pointer leads to the table that serves its pages, with the same exceptions; and that
no global translation is there but for `GlobalUsers`. `FlushReaches` closes the gap:
whichever way `prefer_full_flush` decides, the flush covers the range of the call on
every CPU in `Reached`.

`FlushQueueProofs` proves, for every capacity, threshold and size of the address
type, under `QueueAssumption` alone:

* `QueueTyped`: `Spec => []TypeOK`
* `AlwaysExact`: `Spec => []QueueIsExact`
* `AlwaysApart`: `Spec => []RangesApart`
* `FlushCompletes`: `Spec => FlushCoversAll`
* `EscalationJustified`: `Spec => EscalatesOnlyOnOverflow`
* `CountTellsChanges`: `Spec => []CountIsExact`

The inductive invariant adds `WindowInv`: the window touches none of the ranges
already passed. It survives `Absorb` because the window grows only by a range that
is itself apart from those (`RangesApart`), so an absorbed range never brings a
passed one into reach; this is why one pass suffices. `EscalationJustified` maps
every pending range and the window to its start, each of which begins a run of
changed pages that no other range continues. For `CountTellsChanges`, ranges that are
apart share no page, so each range the fold adds contributes pages that were not
counted (`FrontGrows`, `CountIsQueued`).

`PageTableCursorProofs` proves, for every geometry, set of batches and other calls, and
number of frames, under the walker's four assumptions, `CursorAssumption` (base pages
are leaves) and `BatchAssumption` (the types of a call's arguments):

* `CursorHolds`: `~Damaged => (CursorSpec => []CursorInv)`
* `DescentIsCorrect`: `~Damaged => (CursorSpec => []DescentCorrect)`
* `PrefixIsMapped`: `~Damaged => (CursorSpec => []PrefixMapped)`
* `GranuleIsExact`: `~Damaged => (CursorSpec => []GranuleExact)`
* `FreshPagesOnly`: `~Damaged => (CursorSpec => BatchMapsFreshPages)`
* `ChangesAreQueued`: `BootFrames = {} => (CursorSpec => []QueuedCoversChanges)`

Neither hypothesis is there for the proof's sake. `~Damaged` excludes a boot table with
an invalid entry: with one, the code leaves `last_vaddr` set on the way out of line
1262, and `cursor_stale_descent` shows the wrong page it then maps. `BootFrames = {}`,
the walker of `try_new`, excludes an allocator that refuses a frame: such a refusal
ends an unmap with its stores done and its range not queued (lines 1316-1319).

The argument. A step of the cursor is a step of the walker or leaves the tables alone
(`WalkerSteps`, `QuietStep`), so the walker's invariants come from the walker's
theorems; the one exception is the start of a map from a cached table, which is right
because that table serves the address: by `BlockInv` the pages of a table are those
that agree in the indices above it, which is what `reusable_level` compares
(`SharedTable`, `ReusableLevel`). An unmap, which may free a cached table, has dropped
the cache first. `BatchInv` rests on the sums `SizeOf` of the extents: each extent of
an accepted call starts where the one before ends (`StartsAre`), and each leaf ends in
the extent it began in. `DoneInv` and `QueueInv` are about what `query` answers, and
are reduced to the leaves: the leaf that covers a page decides what it translates to
(`PageIs`), so a step changes the pages of the leaves it changes and no others
(`PageSame`, `PageChanges`), and what each walker step does to the leaves is what
`WalkerContractProofs` has shown.

`ActivationProofs` proves, for every set of formats, flags, addresses, roots, tags,
modes and interrupts, under `FormatAssumption` (the names of formats, flags and
shareabilities), `SizeAssumption` (sizes are numbers, and no format has more levels than
`MAX_LEVELS`) and `ActivationAssumption` (Bare mode exists, and the halves that
`current` is asked about are TTBR0 and TTBR1):

* `EntriesReadBack`: `Spec => []ReadsBack`
* `EntriesAgreed`: `Spec => []HardwareAgrees`
* `GeometryHolds`: `Spec => []GeometryExact`
* `ActivationTyped`: `Spec => []TypeOK`
* `InterruptsRestored`: `Spec => InterruptsAsBefore`
* `TokenIsActive`: `Spec => []ActiveRootIsToken`

The argument for entries. Per architecture, one lemma says
what a leaf made from some flags reads back as (`X86Reads`, `Rv64Reads`, `A64Reads`);
`LeafLevels` says which size a leaf of each level has, which decides the bit the
decoder goes by; `LeafSays` joins them. The flags a split or merge writes are not
those asked for but what was read back, so the inductive invariant `EntryInv` speaks
of *some* flags with the same `Kept` part: `KeptTwice` (what is lost is lost once)
carries it through any number of round trips.

`GeometryHolds` has two halves. The tiling of an address by its index fields is
arithmetic on the numbers of each of the eleven formats (`NumbersOf`, `FormatGeometry`).
That each path has exactly one canonical address holds for a word and a format of any
width: a canonical address is its low bits and a sign, which decides what is above
them (`UpperBits`), and a word is its low bits times the rest because powers multiply
(`PowerSum`, `OneAddress`).

For activations, `ActInv` says that each register is still to be written or already
what the token asks (`Carries`), and that interrupts are masked during a call, so
that no handler writes in between. `ProgramWrites` shows that the three programs
leave out no register the token speaks of, `RightValue` that each of their writes
gives its register the token's value, and `CarriedOn` that a write disturbs no other
register. `LegalFits` is where legality is needed: a root that `install` refused,
or a satp mode the CPU ignores, never gets this far.

`ActivationSafetyProofs` proves, under the same assumptions, what holds after
*every* register write, and not only at the end:

* `RootsAreSound`: `Spec => []NoGarbageTranslation`
* `NoWriteRefused`: `Spec => []NoFault`
* `MemoryTypesHold`: `Spec => []MemoryTypeInForce`
* `TranslationsAreOfTheRoot`: `Spec => []TranslationsFromActiveRoot`
* `ObservedComesBack`: `Spec => []RestoresObserved`

The inductive invariant `SafeInv` has a part per architecture. What is left of a
program is always one of its tails (`X86From4`, `X86From3`, `X86From0`; `A64FromMair`,
`A64FromTcr`, `A64FromTtbr`, `A64FromSctlr`; `Rv64FromFence`), and the `Due` part says
for each tail which registers hold the token's value by then and that the rest is
still legal. The `Core` part says what the CPU reads through and what it has kept
under which tag, and that the MAIR of the last barrier is the one the entries were
made for while paging is on; the token part what `current` gave. `X86Fine` and `A64Fine` are the
conditions under which a single write preserves `Core`, and each tail's first write
is shown to meet them. The order of the writes is used there: a swapped order leaves
a tail whose first write is not fine.

Sums and powers. `SizeOf`, `count` and `Power` are recursive functions, and the
induction theorems of the library take a predicate as a parameter, which the provers
do not instantiate. The lemmas about them are proved by a least counterexample instead:
the set of numbers at which two such functions differ, or a bound fails, would have a
least element, and the recursion equation contradicts it (`SumsExist`,
`PowerSteps`).

Only model-checked: liveness. `CallsReturn` and `CallsEnd` need fairness and
ENABLED, which the provers used do not cover. Every invariant and every action property
that a passing run checks is also a theorem.

## What is left, in order

1. An abstract specification for the cursor, `AddressSpace` extended by maps of
   several leaves.
2. `WalkerMmu` extended: the cursor's deferred flush against the MMU, stores seen out
   of program order, and the ranges `INVLPGB` cuts a flush into.

Not modelled. `Mapping`'s typed reads and writes and its slice copies: pointer
arithmetic on one value, no state of the crate. How `INVLPGB` cuts a flush into
requests of the CPU's page limit and what it falls back to when an address does not
fit: batches larger than any instance. The order in which another CPU sees the
walker's stores. `Coherency`, which no format encodes. The consumer's frame allocator
beyond its contract, the crate roots, the benchmarks.

------------------------------- MODULE WalkerMmu -------------------------------
(***************************************************************************)
(* The walker composed with the hardware that translates through its       *)
(* table while it works on it (external: how the MMU behaves is what the   *)
(* TLB backends under src/arch assume of it).                              *)
(*                                                                         *)
(* The MMU may walk the table at any moment and keep what it read until a  *)
(* flush takes it out.  It is modelled at its worst: tlb[v] is every       *)
(* translation of page v (or the absence of one) and tables is every table *)
(* pointer it could have read since the last flush that concerns them.     *)
(***************************************************************************)
EXTENDS PageTableWalker

CONSTANTS
  Backends,       \* the TLB backends to consider, by name
  FullThreshold,  \* default prefer_full_flush: above this many pages, flush everything
  GlobalFlags,    \* leaf flags that make a translation global
  GlobalUsers     \* the backends whose consumer maps global pages

ASSUME MmuAssumption ==
  /\ Backends \subseteq {"X86Tlb", "X86PcidTlb", "X86InvlpgbTlb", "InvlpgbWithGlobal", "A64Tlb", "Rv64Tlb"}
  /\ FullThreshold \in Nat /\ GlobalFlags \subseteq Flags /\ GlobalUsers \subseteq Backends


\* The CPU that runs the walker, and any other one that uses the same table.
Cpus == {"local", "remote"}

VARIABLES
  backend,   \* the consumer's TlbInvalidation, fixed for the life of the table
  tlb,       \* tlb[c][v]: translations of v that CPU c may hold
  tables,    \* tables[c]: [to, pages], pointers to tables it may hold, with the pages they serve
  unflushed  \* history: pages of calls that ended before their flush

hwvars == <<tlb, tables, unflushed>>
mvars == <<vars, backend, hwvars>>

-------------------------------------------------------------------------------
(* One walk of the table, as the hardware does it. *)

NoTranslation == [pa |-> -1, fl |-> "none"]

Translation(v) ==
  LET walk == TablesOnPath(v)
      l == CHOOSE k \in 1..LEVELS : walk[k] # NoFrame /\ (k > 1 => walk[k-1] = NoFrame)
      e == mem[walk[l]][index_at(l, v)]
  IN IF e.kind = "leaf" THEN [pa |-> e.pa + (v % Span[l]), fl |-> e.fl] ELSE NoTranslation

TablePointers(v) ==
  {[to |-> TablesOnPath(v)[l], pages |-> {w \in ValidPages : w \div Span[l+1] = v \div Span[l+1]}] :
     l \in {k \in 1..LEVELS-1 : TablesOnPath(v)[k] # NoFrame}}

IsGlobal(t) == t # NoTranslation /\ t.fl \in GlobalFlags

\* The table is in use from its creation until Drop begins.
InUse == root # NoFrame /\ pc # "drop"

Walked == [v \in ValidPages |-> IF InUse THEN {Translation(v)} ELSE {}]

PointersWalked == IF InUse THEN UNION {TablePointers(v) : v \in ValidPages} ELSE {}

-------------------------------------------------------------------------------
(* What each backend's instructions drop: global translations or not, pointers *)
(* to tables or not, on which CPUs.                                            *)

Drops(globals, pointers, cpus) == [globals |-> globals, pointers |-> pointers, cpus |-> cpus]

\* One address.  INVLPG and TLBI VAAE1IS drop whatever serves it; INVPCID keeps
\* global translations; sfence.vma with an address orders leaf entries only.
flush_tlb_local ==
  CASE backend = "X86Tlb"     -> Drops(TRUE, TRUE, {"local"})
    [] backend = "X86PcidTlb" -> Drops(FALSE, TRUE, {"local"})
    [] backend = "A64Tlb"     -> Drops(TRUE, TRUE, Cpus)
    [] backend = "Rv64Tlb"    -> Drops(TRUE, FALSE, {"local"})

\* Everything: a reload of CR3, INVPCID of one context, TLBI VMALLE1IS, sfence.vma.
flush_tlb_all_local ==
  CASE backend \in {"X86Tlb", "X86PcidTlb", "X86InvlpgbTlb", "InvlpgbWithGlobal"} ->
                                 Drops(FALSE, TRUE, {"local"})
    [] backend = "A64Tlb"     -> Drops(TRUE, TRUE, Cpus)
    [] backend = "Rv64Tlb"    -> Drops(TRUE, TRUE, {"local"})

\* INVLPGB followed by TLBSYNC reaches every CPU, and global translations only
\* when asked to; the other backends sweep the range address by address.
flush_tlb_range_local ==
  CASE backend = "X86InvlpgbTlb"     -> Drops(FALSE, TRUE, Cpus)
    [] backend = "InvlpgbWithGlobal" -> Drops(TRUE, TRUE, Cpus)
    [] OTHER                         -> flush_tlb_local

\* Mutant: the default policy for a backend whose full flush is the weaker one.
prefer_full_flushDefault(count) == count > FullThreshold

\* The default of the trait, which the INVLPGB backend overrides.
prefer_full_flush(count) ==
  backend \notin {"X86InvlpgbTlb", "InvlpgbWithGlobal"} /\ count > FullThreshold

\* flush_leaf_range: what the flush at the end of a call reaches, and leaves.
FlushDrops ==
  IF prefer_full_flush(Size(req)) THEN flush_tlb_all_local ELSE flush_tlb_range_local

FlushedPages == IF prefer_full_flush(Size(req)) THEN ValidPages ELSE Pages(req)

TlbAfterFlush ==
  [c \in Cpus |-> [v \in ValidPages |->
     IF c \in FlushDrops.cpus /\ v \in FlushedPages
     THEN {t \in tlb[c][v] : IsGlobal(t) /\ ~FlushDrops.globals}
     ELSE tlb[c][v]]]

TablesAfterFlush ==
  [c \in Cpus |->
     IF c \in FlushDrops.cpus /\ FlushDrops.pointers
     THEN {p \in tables[c] : p.pages \cap FlushedPages = {}}
     ELSE tables[c]]

\* The CPUs a flush of the walker vouches for.  "Cross-core shootdown is layered
\* above" the other backends: what the remote CPU holds under them is left out.
Reached == IF backend \in {"X86InvlpgbTlb", "InvlpgbWithGlobal", "A64Tlb"} THEN Cpus ELSE {"local"}

\* Their MMUs walk again after every step of the walker.
MmuWalks(keptTlb, keptTables) ==
  /\ tlb' = [c \in Cpus |-> [v \in ValidPages |->
       IF c \in Reached THEN keptTlb[c][v] \cup Walked'[v] ELSE {}]]
  /\ tables' = [c \in Cpus |-> IF c \in Reached THEN keptTables[c] \cup PointersWalked' ELSE {}]

NoTlb == [c \in Cpus |-> [v \in ValidPages |-> {}]]

NoTables == [c \in Cpus |-> {}]

BootGlobal ==
  \E f \in BootFrames, i \in Slots :
    BootTree.mem[f][i].kind = "leaf" /\ BootTree.mem[f][i].fl \in GlobalFlags

MmuInit ==
  /\ Init
  /\ backend \in Backends /\ (BootGlobal => backend \in GlobalUsers)
  /\ tlb = NoTlb
  /\ tables = NoTables
  /\ unflushed = {}

\* Before Drop the consumer has switched every CPU to another table and flushed
\* this one.  A frame that the allocator refuses ends unmap and merge_at before
\* their flush.
MmuNext ==
  /\ Next
  /\ req' # NoReq /\ req'.fl \in GlobalFlags => backend \in GlobalUsers
  /\ CASE pc = "flush" -> /\ MmuWalks(TlbAfterFlush, TablesAfterFlush)
                          /\ unflushed' = unflushed \ FlushedPages
       [] pc' = "drop" -> /\ MmuWalks(NoTlb, NoTables)
                          /\ unflushed' = {}
       [] OTHER -> /\ MmuWalks(tlb, tables)
                   /\ unflushed' = IF pc = "release" /\ ret' = "DeallocRefused"
                                   THEN unflushed \cup Pages(req) ELSE unflushed
  /\ UNCHANGED backend

MmuSpec == MmuInit /\ [][MmuNext]_mvars

-------------------------------------------------------------------------------
(* Properties. *)

\* When a call has returned, however it ended, those CPUs can only translate a
\* page as the table now does: every store that changed a translation was covered
\* by a flush of that page that reached them.  The early return of unmap and
\* merge_at when a frame is refused leaves no more than the range of that call, and
\* that only until a flush covers it.
CoherentAtReturn ==
  pc \in {"return", "idle"} /\ InUse =>
    \A c \in Reached, v \in ValidPages \ unflushed : tlb[c][v] = {Translation(v)}

\* When a call has returned, every table pointer they hold leads to the table that
\* now serves its pages, and none to a frame that was given back to the allocator.
FreedTablesForgotten ==
  pc \in {"return", "idle"} /\ InUse =>
    \A c \in Reached : \A p \in tables[c] :
      p.pages \cap unflushed = {} => p.to \in Linked /\ cover[p.to] = p.pages

\* split_at and merge_at never change what any page translates to, at any store:
\* "concurrent walkers see either form and translate identically".
SplitMergeTransparent ==
  [][req.op \in {"split_at", "merge_at"} =>
       \A v \in ValidPages : InUse => Translation(v)' = Translation(v)]_mvars

\* No page-table memory is given back while the MMU may still walk into it: the
\* tlbsync comment of src/arch/x86_64/tlb.rs, "they may walk stale TLB entries into
\* freed page-table memory".
FreedTablesNeverWalked ==
  \A p \in tables["local"] : owner[p.to] # "free"

-------------------------------------------------------------------------------
(* The inductive invariant, on top of IInv and ContentInv. *)

\* The pages that the call in progress has changed and not flushed yet.
Pending == IF pc \in {"reclaim", "release", "flush"} THEN Pages(req) \cap ValidPages ELSE {}

\* A page translates as the table says, but those that are still to be flushed.
CoherentInv ==
  InUse => \A c \in Reached, v \in ValidPages \ (unflushed \cup Pending) :
             tlb[c][v] = {Translation(v)}

\* A pointer leads to the table that serves its pages, or they are still to be flushed.
PointerInv ==
  InUse /\ backend # "Rv64Tlb" =>
    \A c \in Reached : \A p \in tables[c] :
      p.pages \cap (unflushed \cup Pending) = {} => p.to \in Linked /\ cover[p.to] = p.pages

\* Global translations are there only for those who ask for them.
GlobalInv ==
  backend \notin GlobalUsers =>
    /\ \A f \in Frames, i \in Slots : mem[f][i].kind = "leaf" => mem[f][i].fl \notin GlobalFlags
    /\ req # NoReq => req.fl \notin GlobalFlags
    /\ \A c \in Cpus, v \in ValidPages : \A t \in tlb[c][v] : ~IsGlobal(t)

\* No table, nothing cached; and a range that was unmapped is not empty.
MmuInv ==
  /\ backend \in Backends
  /\ CoherentInv /\ PointerInv /\ GlobalInv
  /\ ~InUse => tlb = NoTlb /\ tables = NoTables /\ unflushed = {}
  /\ pc \in {"reclaim", "release"} /\ req.op = "unmap" => req.start \in Pages(req)

===============================================================================

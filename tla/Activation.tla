------------------------------- MODULE Activation -------------------------------
(***************************************************************************)
(* Making an address space active on a CPU: install, activate, current and *)
(* the direct register writes of the three activators.                     *)
(*                                                                         *)
(* An activation is a program of register writes, one step each, run with  *)
(* interrupts masked.  Between two writes the hardware translates with     *)
(* whatever the registers then say (external), and keeps what it read,     *)
(* tagged, until an instruction drops it: it is modelled at its worst, as  *)
(* reading through the active root after every step.                       *)
(***************************************************************************)
EXTENDS EntryFormats, Sequences

CONSTANTS
  BootFormats,     \* the formats a CPU is booted with
  Roots,           \* [id, shape, aligned, bits]: table roots, with the bits of their address
  Tags,            \* PCIDs, which are also the low bits of CR3, and ASIDs
  Modes,           \* satp modes, numbered; 0 is Bare
  CurrentTtbr,     \* the halves current() is asked about on AArch64
  SupportedModes   \* those this CPU has; it ignores a write of another

ASSUME ActivationAssumption ==
  /\ 0 \in Tags /\ 0 \in SupportedModes /\ SupportedModes \subseteq Modes
  /\ CurrentTtbr \subseteq {"TTBR0", "TTBR1"}

VARIABLES
  reg,    \* the control registers, or Off before boot
  tlb,    \* [tag, root]: contexts of which the CPU may hold translations
  irq,    \* whether interrupts are enabled
  call,   \* the call in progress: its token, the flag it saved, what it found (history)
  todo,   \* the register writes it still has to make
  obs,    \* a token got from current(), with the registers at the time (history)
  fault,  \* a write the CPU refused with an exception
  walk_mair  \* the MAIR translations may still use: that of the last barrier

cpuvars == <<reg, tlb, irq, call, todo, obs, fault, walk_mair>>
avars == <<evars, cpuvars>>

-------------------------------------------------------------------------------
(* Roots and registers. *)

NoRoot == [id |-> "none", shape |-> 0, aligned |-> TRUE, bits |-> 0]

\* What a register holds when a root does not fit it.
Garbage == [NoRoot EXCEPT !.id = "garbage"]

\* How a root is checked for a register whose field has so many bits.
Checked(root, bits) ==
  IF ~root.aligned THEN "NotAligned" ELSE IF root.bits > bits THEN "AddressOutOfRange" ELSE "ok"

frame_from_root(root) == Checked(root, 52)

encode_ttbr(root) == Checked(root, 48)

ppn_from_root(root) == Checked(root, 56)

install(root) ==
  CASE Arch = "x86_64" -> frame_from_root(root) [] Arch = "aarch64" -> encode_ttbr(root)
    [] Arch = "riscv64" -> ppn_from_root(root)

Encoded(root) == IF install(root) = "ok" THEN root ELSE Garbage

Off == [off |-> TRUE]

Halves == {"TTBR0", "TTBR1"}

PowerOn ==
  CASE Arch = "x86_64" ->
         [PAT |-> PatReset, CR0 |-> FALSE, CR3 |-> [root |-> NoRoot, low |-> 0], CR4 |-> {}]
    [] Arch = "aarch64" ->
         [MAIR |-> MairReset, TCR |-> 0, SCTLR |-> FALSE,
          TTBR0 |-> [root |-> NoRoot, asid |-> 0], TTBR1 |-> [root |-> NoRoot, asid |-> 0]]
    [] Arch = "riscv64" -> [satp |-> [mode |-> 0, asid |-> 0, root |-> NoRoot]]

-------------------------------------------------------------------------------
(* The hardware (external). *)

MmuOn(r) ==
  CASE Arch = "x86_64" -> r.CR0 [] Arch = "aarch64" -> r.SCTLR [] Arch = "riscv64" -> r.satp.mode # 0

\* What translations are read through: [tag, root], and the shape the root is read with.
\* A half of the AArch64 address space without a root is one whose walks TCR disables.
Contexts(r) ==
  CASE Arch = "x86_64" -> {[tag |-> IF "PCIDE" \in r.CR4 THEN r.CR3.low ELSE 0, root |-> r.CR3.root]}
    [] Arch = "aarch64" -> {[tag |-> <<h, r[h].asid>>, root |-> r[h].root] : h \in {k \in Halves : r[k].root # NoRoot}}
    [] Arch = "riscv64" -> {[tag |-> r.satp.asid, root |-> r.satp.root]}

ShapeInForce(r) ==
  CASE Arch = "x86_64" -> IF "LA57" \in r.CR4 THEN 2 ELSE 1
    [] Arch = "aarch64" -> r.TCR
    [] Arch = "riscv64" -> r.satp.mode

Refuses(w) ==
  CASE w.reg = "CR4" -> \/ "PCIDE" \in w.value \ reg.CR4 /\ (~reg.CR0 \/ reg.CR3.low # 0)
                        \/ ("LA57" \in w.value) # ("LA57" \in reg.CR4) /\ reg.CR0
    [] w.reg = "CR3" -> w.value.preserve /\ "PCIDE" \notin reg.CR4
    [] w.reg = "CR0" -> reg.CR0 /\ ~w.value
    [] OTHER         -> FALSE

RegAfter(w) ==
  CASE w.reg = "CR3"   -> [reg EXCEPT !.CR3 = [root |-> Encoded(w.value.root), low |-> w.value.low]]
    [] w.reg = "satp"  -> IF w.value.mode \in SupportedModes
                          THEN [reg EXCEPT !.satp = [w.value EXCEPT !.root = Encoded(@)]] ELSE reg
    [] w.reg = "fence" -> reg
    [] w.reg \in Halves -> [reg EXCEPT ![w.reg] = [w.value EXCEPT !.root = Encoded(@)]]
    [] OTHER           -> [reg EXCEPT ![w.reg] = w.value]

\* A load of CR3 drops its own PCID unless told not to, the end of PCIDs and
\* sfence.vma drop everything, and a write of TTBR or satp drops nothing.
Surviving(w) ==
  CASE w.reg = "CR3" /\ ~w.value.preserve ->
         {t \in tlb : t.tag # (IF "PCIDE" \in reg.CR4 THEN w.value.low ELSE 0)}
    [] w.reg = "CR4" /\ "PCIDE" \in reg.CR4 \ w.value -> {}
    [] w.reg = "fence" -> {}
    [] OTHER -> tlb

\* Writes that end with a barrier before anything is translated differently.  MAIR's
\* has none of its own, and the MMU may be on before the one that follows SCTLR's.
Synchronizes(w) == w.reg \in {"TCR"} \cup Halves

Execute(w) ==
  IF Refuses(w) THEN fault' = TRUE /\ UNCHANGED <<reg, tlb, walk_mair>>
  ELSE /\ reg' = RegAfter(w)
       /\ tlb' = Surviving(w) \cup (IF MmuOn(reg') THEN Contexts(reg') ELSE {})
       /\ walk_mair' = IF Synchronizes(w) THEN reg.MAIR ELSE walk_mair
       /\ UNCHANGED fault

-------------------------------------------------------------------------------
(* Tokens.  An optional control is a set of at most one value. *)

Options(values) == {{}} \cup {{v} : v \in values}

Cr3Modes == {m \in [pcid : BOOLEAN, low : Tags, preserve : BOOLEAN] : m.preserve => m.pcid}

X86Tokens ==
  [root : Roots, cr0 : Options({TRUE}), cr4 : Options(SUBSET {"PCIDE", "LA57"}),
   cr3 : Cr3Modes]

\* The upper half is the kernel's, with ASID 0; paging, once on, stays on.
A64Tokens ==
  {t \in [root : Roots, ttbr : Halves, asid : Tags, mair : Options({A64_MAIR_EL1_VALUE}),
          tcr : Options({1, 2}), sctlr : Options({TRUE})] : t.ttbr = "TTBR1" => t.asid = 0}

Rv64Tokens == [root : Roots, mode : Modes, asid : Tags, fence_after : BOOLEAN]

Tokens ==
  CASE Arch = "x86_64" -> X86Tokens
    [] Arch = "aarch64" -> A64Tokens
    [] Arch = "riscv64" -> Rv64Tokens

Put(register, options) == IF options = {} THEN <<>> ELSE <<[reg |-> register, value |-> CHOOSE v \in options : TRUE]>>

X86Cr3(t) == <<[reg |-> "CR3", value |-> [root |-> t.root, low |-> t.cr3.low, preserve |-> t.cr3.preserve]]>>

\* Mutant: paging is enabled before the root is loaded.
X86ProgramCr0First(t) == Put("CR0", t.cr0) \o Put("CR4", t.cr4) \o X86Cr3(t)

\* Mutant: the mode bits of CR4 follow the load of CR3.
X86ProgramCr4Last(t) == X86Cr3(t) \o Put("CR4", t.cr4) \o Put("CR0", t.cr0)

X86Program(t) == Put("CR4", t.cr4) \o X86Cr3(t) \o Put("CR0", t.cr0)

\* Mutant: MAIR is written after the last barrier before SCTLR.
A64ProgramMairUnsynced(t) ==
  Put("TCR", t.tcr) \o <<[reg |-> t.ttbr, value |-> [root |-> t.root, asid |-> t.asid]]>>
    \o Put("MAIR", t.mair) \o Put("SCTLR", t.sctlr)

A64Program(t) ==
  Put("MAIR", t.mair) \o Put("TCR", t.tcr)
    \o <<[reg |-> t.ttbr, value |-> [root |-> t.root, asid |-> t.asid]]>> \o Put("SCTLR", t.sctlr)

Satp(t) == <<[reg |-> "satp", value |-> [mode |-> t.mode, asid |-> t.asid, root |-> t.root]]>>

\* Mutant: the fence precedes the write of satp.
Rv64ProgramFenceFirst(t) == (IF t.fence_after THEN <<[reg |-> "fence"]>> ELSE <<>>) \o Satp(t)

Rv64Program(t) == Satp(t) \o (IF t.fence_after THEN <<[reg |-> "fence"]>> ELSE <<>>)

Program(t) ==
  CASE Arch = "x86_64" -> X86Program(t) [] Arch = "aarch64" -> A64Program(t)
    [] Arch = "riscv64" -> Rv64Program(t)

X86Current ==
  [root |-> reg.CR3.root, cr0 |-> {reg.CR0}, cr4 |-> {reg.CR4},
   cr3 |-> [pcid |-> "PCIDE" \in reg.CR4, low |-> reg.CR3.low, preserve |-> FALSE]]

\* Mutant: the ASID is not read.
A64CurrentNoAsid(half) ==
  [root |-> reg[half].root, ttbr |-> half, asid |-> 0,
   mair |-> {reg.MAIR}, tcr |-> {reg.TCR}, sctlr |-> {reg.SCTLR}]

\* half is the register the activator was made for.
A64Current(half) ==
  [root |-> reg[half].root, ttbr |-> half, asid |-> reg[half].asid,
   mair |-> {reg.MAIR}, tcr |-> {reg.TCR}, sctlr |-> {reg.SCTLR}]

Rv64Current ==
  [root |-> reg.satp.root, mode |-> reg.satp.mode, asid |-> reg.satp.asid, fence_after |-> TRUE]

\* The token of what is active.
current(half) ==
  CASE Arch = "x86_64" -> X86Current [] Arch = "aarch64" -> A64Current(half)
    [] Arch = "riscv64" -> Rv64Current

-------------------------------------------------------------------------------
(* What the safety comments ask of the caller. *)

Override(options, old) == IF options = {} THEN old ELSE CHOOSE v \in options : TRUE

\* What a token asks of a register that holds old.
Target(t, register, old) ==
  CASE register = "CR0"   -> Override(t.cr0, old)
    [] register = "CR3"   -> [root |-> t.root, low |-> t.cr3.low]
    [] register = "CR4"   -> Override(t.cr4, old)
    [] register = "MAIR"  -> Override(t.mair, old)
    [] register = "TCR"   -> Override(t.tcr, old)
    [] register = "SCTLR" -> Override(t.sctlr, old)
    [] register \in Halves -> IF register = t.ttbr THEN [root |-> t.root, asid |-> t.asid] ELSE old
    [] register = "satp"  -> [mode |-> t.mode, asid |-> t.asid, root |-> t.root]
    [] register = "PAT"   -> old

Result(t) == [register \in DOMAIN reg |-> Target(t, register, reg[register])]

\* Tags are for the caller to keep apart where no instruction of the call drops them.
Owned(tag, root) == \A t \in tlb : t.tag = tag => t.root = root

\* The controls describe the roots they take effect on; PCIDs are enabled under a
\* running legacy CR3 without flags; what reinterprets a root waits until paging is off.
LegalResult(r) ==
  /\ MmuOn(r) => \A c \in Contexts(r) : c.root # NoRoot /\ c.root.shape = ShapeInForce(r)
  /\ Arch = "x86_64" =>
       /\ reg.CR0 => r.CR0
       /\ "PCIDE" \in r.CR4 \ reg.CR4 => reg.CR0 /\ reg.CR3.low = 0
       /\ ("LA57" \in r.CR4) # ("LA57" \in reg.CR4) => ~reg.CR0
  /\ Arch = "aarch64" =>
       /\ r.TCR # reg.TCR => ~reg.SCTLR
       /\ r.SCTLR => r.MAIR = A64_MAIR_EL1_VALUE
  /\ Arch = "riscv64" => r.satp.mode \in SupportedModes

Legal(t) ==
  /\ LegalResult(Result(t))
  /\ CASE Arch = "x86_64"  -> /\ t.cr3.pcid <=> "PCIDE" \in Result(t).CR4
                              /\ t.cr3.preserve => Owned(t.cr3.low, t.root)
       [] Arch = "aarch64" -> /\ reg.SCTLR => t.root.shape = reg.TCR
                              /\ Owned(<<t.ttbr, t.asid>>, t.root)
       [] Arch = "riscv64" -> t.fence_after \/ Owned(t.asid, t.root)

-------------------------------------------------------------------------------
(* The calls. *)

NoCall == [kind |-> "none"]

NoObs == [token |-> "none"]

Idle == reg # Off /\ call = NoCall /\ ~fault

\* Mutant: interrupts are left as they are during the call.
irq_maskedNot == irq

irq_masked == FALSE

\* Mutant: interrupts are enabled on the way out whatever they were.
irq_restoredAlways(saved) == TRUE

irq_restored(saved) == saved

Enter(kind, token, program) ==
  /\ Idle
  /\ call' = [kind |-> kind, token |-> token, saved |-> irq, found |-> irq]
  /\ irq' = irq_masked /\ todo' = program
  /\ UNCHANGED <<reg, tlb, obs, fault, walk_mair>>

\* activate, write_cr3 and write_satp.  A root install refuses goes no further.
activate(t) == install(t.root) = "ok" /\ Legal(t) /\ Enter("activate", t, Program(t))

\* write_cr0, write_cr4, write_mair_el1, write_tcr_el1, write_ttbr0_el1, write_ttbr1_el1
\* and write_sctlr_el1.  MAIR must be there, synchronized, before paging is enabled.
write(w) ==
  /\ LegalResult(RegAfter(w))
  /\ w.reg \in Halves => Owned(<<w.reg, w.value.asid>>, w.value.root)
  /\ w.reg = "SCTLR" => walk_mair = A64_MAIR_EL1_VALUE
  /\ Enter("write", w, <<w>>)

\* The value of TTBR is raw and checked by nobody: its caller encodes a root that fits.
TtbrWrites(half) ==
  [reg : {half},
   value : [root : {r \in Roots : encode_ttbr(r) = "ok"}, asid : IF half = "TTBR1" THEN {0} ELSE Tags]]

DirectWrites ==
  CASE Arch = "x86_64" -> {[reg |-> "CR0", value |-> TRUE]} \cup
                          {[reg |-> "CR4", value |-> v] : v \in SUBSET {"PCIDE", "LA57"}}
    [] Arch = "aarch64" -> {[reg |-> "MAIR", value |-> A64_MAIR_EL1_VALUE]} \cup
                           {[reg |-> "TCR", value |-> v] : v \in {1, 2}} \cup
                           {[reg |-> "SCTLR", value |-> TRUE]} \cup
                           UNION {TtbrWrites(half) : half \in Halves}
    [] Arch = "riscv64" -> {}

WriteRegister ==
  /\ call # NoCall /\ todo # <<>> /\ ~fault
  /\ Execute(Head(todo)) /\ todo' = Tail(todo)
  /\ UNCHANGED <<irq, call, obs>>

\* Mutant: the call returns with writes still to make.
ReturnEarly ==
  /\ call # NoCall
  /\ call' = NoCall /\ irq' = irq_restored(call.saved)
  /\ UNCHANGED <<reg, tlb, todo, obs, fault, walk_mair>>

Return ==
  /\ call # NoCall /\ todo = <<>>
  /\ call' = NoCall /\ irq' = irq_restored(call.saved)
  /\ UNCHANGED <<reg, tlb, todo, obs, fault, walk_mair>>

\* current() on a CPU that translates; one token is kept, to be activated later.
Observe(half) ==
  /\ Idle /\ obs = NoObs /\ MmuOn(reg)
  /\ obs' = [token |-> current(half), regs |-> reg]
  /\ UNCHANGED <<reg, tlb, irq, call, todo, fault, walk_mair>>

Reactivate == obs # NoObs /\ activate(obs.token)

install_x86_pat ==
  /\ Idle /\ Arch = "x86_64" /\ reg' = [reg EXCEPT !.PAT = X86_PAT_MSR_VALUE]
  /\ UNCHANGED <<tlb, irq, call, todo, obs, fault, walk_mair>>

install_a64_mair_el1 ==
  /\ Idle /\ Arch = "aarch64" /\ reg' = [reg EXCEPT !.MAIR = A64_MAIR_EL1_VALUE]
  /\ walk_mair' = A64_MAIR_EL1_VALUE
  /\ UNCHANGED <<tlb, irq, call, todo, obs, fault>>

-------------------------------------------------------------------------------
(* The rest of the system (external). *)

\* The tables are built: the CPU comes up with nothing but reset values.
Boot ==
  /\ reg = Off /\ fmt \in BootFormats /\ lvl = 1 /\ want = Vacant
  /\ reg' = PowerOn
  /\ UNCHANGED <<tlb, irq, call, todo, obs, fault, walk_mair>>

MaskInterrupts == Idle /\ irq' = ~irq /\ UNCHANGED <<reg, tlb, call, todo, obs, fault, walk_mair>>

\* An interrupt whose handler leaves another root active: a scheduler that resumes
\* the interrupted task with the root it last recorded for it.
Interrupt(root) ==
  /\ reg # Off /\ irq /\ ~fault /\ install(root) = "ok"
  /\ LET w == CASE Arch = "x86_64" ->
                     [reg |-> "CR3", value |-> [root |-> root, low |-> reg.CR3.low, preserve |-> FALSE]]
                [] Arch = "aarch64" -> [reg |-> "TTBR0", value |-> [root |-> root, asid |-> reg.TTBR0.asid]]
                [] Arch = "riscv64" -> [reg |-> "satp", value |-> [reg.satp EXCEPT !.root = root]]
     IN /\ LegalResult(RegAfter(w))
        /\ \A c \in Contexts(RegAfter(w)) : Arch = "x86_64" \/ Owned(c.tag, c.root)
        /\ Execute(w)
  /\ UNCHANGED <<irq, call, todo, obs>>

\* The caller takes back a tag.
Invalidate(tag) ==
  /\ Idle /\ tlb' = {t \in tlb : t.tag # tag} \cup (IF MmuOn(reg) THEN Contexts(reg) ELSE {})
  /\ UNCHANGED <<reg, irq, call, todo, obs, fault, walk_mair>>

-------------------------------------------------------------------------------

Init ==
  /\ EntryInit
  /\ reg = Off /\ tlb = {} /\ irq = FALSE /\ call = NoCall /\ todo = <<>> /\ obs = NoObs /\ fault = FALSE
  /\ walk_mair = MairReset

CpuNext ==
  \/ \E t \in Tokens : activate(t)
  \/ \E w \in DirectWrites : write(w)
  \/ WriteRegister \/ Return \/ Reactivate
  \/ install_x86_pat \/ install_a64_mair_el1
  \/ \E half \in CurrentTtbr : Observe(half)
  \/ MaskInterrupts
  \/ \E root \in Roots : Interrupt(root)
  \/ \E t \in tlb : Invalidate(t.tag)

Next ==
  \/ reg = Off /\ EntryNext /\ UNCHANGED cpuvars
  \/ Boot /\ UNCHANGED evars
  \/ reg # Off /\ CpuNext /\ UNCHANGED evars

Spec == Init /\ [][Next]_avars

-------------------------------------------------------------------------------
(* Properties. *)

\* Types of the variables.
TypeOK ==
  /\ EntryTypeOK
  /\ reg # Off => DOMAIN reg = DOMAIN PowerOn
  /\ irq \in BOOLEAN /\ fault \in BOOLEAN
  /\ call.kind \in {"none", "activate", "write"} /\ (call = NoCall => todo = <<>>)

Running == reg # Off /\ MmuOn(reg)

\* When activate is about to return Ok, every register its token speaks of holds
\* what the token says, the root of no interrupt handler among them.
ActiveRootIsToken == call.kind = "activate" /\ todo = <<>> /\ ~fault => Result(call.token) = reg

\* At no point of any transition does the CPU translate through a root it cannot
\* hold or reads with another shape: the writes of an activation come in an order
\* whose every prefix is a state the hardware may run in (the order of activate).
NoGarbageTranslation ==
  Running => \A c \in Contexts(reg) : c.root \in Roots /\ c.root.shape = ShapeInForce(reg)

\* Between calls, what the CPU kept under the tag in use comes from the root in use:
\* each activation drops the rest, or leaves none to drop when its caller said so
\* (preserve_tlb_entries, fence_after, a fresh ASID).
TranslationsFromActiveRoot ==
  Running /\ call = NoCall => \A c \in Contexts(reg) : Owned(c.tag, c.root)

\* No write of a legal activation is one the CPU refuses: the order of CR4, CR3 and
\* CR0 suits every switch of PCIDE and LA57, and of paging itself.
NoFault == ~fault

\* Every call leaves interrupts as it found them (without_interrupts, with_irq_disabled).
InterruptsAsBefore == [][call # NoCall /\ call' = NoCall => irq' = call.found]_avars

Controlled(r) ==
  CASE Arch = "x86_64" -> <<r.CR0, r.CR3, r.CR4>>
    [] Arch = "aarch64" -> <<r.MAIR, r.TCR, r.SCTLR, r[call.token.ttbr]>>
    [] Arch = "riscv64" -> <<r.satp>>

\* Activating a token that current() gave brings back the registers it was read
\* from, tags included, whatever was active in between.
RestoresObserved ==
  call.kind = "activate" /\ obs # NoObs /\ todo = <<>> /\ ~fault =>
    (call.token = obs.token => Controlled(reg) = Controlled(obs.regs))

\* While paging is on, each cache policy gives the memory type it names, before
\* PAT is installed too but for WriteCombine (install_x86_pat), and from the first
\* translation on AArch64, with the MAIR that is written and with the one translations
\* may still use (MAIR is written, and a barrier passed, before SCTLR).
MemoryTypeInForce ==
  Running =>
    \A c \in Policies, mair \in IF Arch = "aarch64" THEN {reg.MAIR, walk_mair} ELSE {<<>>} :
      ~(Arch = "x86_64" /\ c = "WriteCombine" /\ reg.PAT = PatReset) =>
        HwType(new_leaf(0, [Plain EXCEPT !.cache = c], 1),
               IF Arch = "x86_64" THEN reg.PAT ELSE <<>>, mair)
          = Expressible(c)

===============================================================================

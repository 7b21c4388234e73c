------------------------- MODULE ActivationSafetyProofs -------------------------
(* Theorems of Activation: what the CPU translates through while roots change.  *)
EXTENDS ActivationProofs

-------------------------------------------------------------------------------
(* The state between two writes, by architecture. *)

Known(root) == root \in Roots \cup {NoRoot}

\* The root can be read by what is in force; a root that is none is not read at all.
Suits(root, shape) == root = NoRoot \/ root.shape = shape

\* x86-64.
X86Regs(r) ==
  /\ r.CR0 \in BOOLEAN /\ r.PAT \in {PatReset, X86_PAT_MSR_VALUE}
  /\ r.CR3 = [root |-> r.CR3.root, low |-> r.CR3.low] /\ Known(r.CR3.root)

X86Tag(r) == IF "PCIDE" \in r.CR4 THEN r.CR3.low ELSE 0

X86Shape(cr4) == IF "LA57" \in cr4 THEN 2 ELSE 1

\* The CPU does not refuse the write, and can go on with what it leaves.
X86Fine(w) ==
  \/ /\ w.reg = "CR4"
     /\ "PCIDE" \in w.value \ reg.CR4 => reg.CR0 /\ reg.CR3.low = 0
     /\ ("LA57" \in w.value) # ("LA57" \in reg.CR4) => ~reg.CR0
  \/ /\ w.reg = "CR3" /\ Known(w.value.root) /\ install(w.value.root) = "ok"
     /\ w.value.preserve => "PCIDE" \in reg.CR4 /\ Owned(w.value.low, w.value.root)
     /\ reg.CR0 => w.value.root # NoRoot /\ w.value.root.shape = X86Shape(reg.CR4)
  \/ /\ w.reg = "CR0" /\ w.value = TRUE
     /\ reg.CR3.root # NoRoot /\ reg.CR3.root.shape = X86Shape(reg.CR4)

\* What is left of a program: from CR4, from CR3, and CR0 alone.
X86From0(t) == Put("CR0", t.cr0)
X86From3(t) == X86Cr3(t) \o X86From0(t)
X86From4(t) == Put("CR4", t.cr4) \o X86From3(t)

X86Token(t) ==
  /\ Known(t.root) /\ install(t.root) = "ok" /\ t.cr0 \subseteq {TRUE}
  /\ t.cr3.preserve \in BOOLEAN
  /\ t.cr3.preserve => t.cr3.pcid

\* What a token is still due: its writes, and that they are legal from here.
X86Due(t) ==
  LET cr4 == Override(t.cr4, reg.CR4)
      on == Override(t.cr0, reg.CR0)
  IN /\ "PCIDE" \in cr4 \ reg.CR4 => reg.CR0 /\ reg.CR3.low = 0
     /\ ("LA57" \in cr4) # ("LA57" \in reg.CR4) => ~reg.CR0
     /\ t.cr3.pcid <=> "PCIDE" \in cr4
     /\ on => t.root # NoRoot /\ t.root.shape = X86Shape(cr4)
     /\ \/ todo = X86From4(t) /\ (t.cr3.preserve => Owned(t.cr3.low, t.root))
        \/ todo = X86From3(t) /\ reg.CR4 = cr4 /\ (t.cr3.preserve => Owned(t.cr3.low, t.root))
        \/ todo = X86From0(t) /\ reg.CR4 = cr4 /\ reg.CR3 = [root |-> t.root, low |-> t.cr3.low]
        \/ todo = <<>>

\* Whatever is in progress: what the CPU reads through, and what it has kept.
X86Core ==
  /\ reg # Off => X86Regs(reg)
  /\ reg = Off \/ ~reg.CR0 => tlb = {}
  /\ reg # Off /\ reg.CR0 =>
       /\ reg.CR3.root # NoRoot /\ reg.CR3.root.shape = X86Shape(reg.CR4)
       /\ [tag |-> X86Tag(reg), root |-> reg.CR3.root] \in tlb /\ Owned(X86Tag(reg), reg.CR3.root)

X86Inv ==
  /\ X86Core
  /\ call.kind = "activate" => X86Token(call.token) /\ X86Due(call.token)
  /\ call.kind = "write" => todo = <<>> \/ \E w \in DirectWrites : todo = <<w>> /\ X86Fine(w)
  /\ obs # NoObs => X86Regs(obs.regs) /\ obs.regs.CR0 /\ obs.token =
       [root |-> obs.regs.CR3.root, cr0 |-> {obs.regs.CR0}, cr4 |-> {obs.regs.CR4},
        cr3 |-> [pcid |-> "PCIDE" \in obs.regs.CR4, low |-> obs.regs.CR3.low, preserve |-> FALSE]]

\* AArch64.
A64Regs(r) ==
  /\ r.SCTLR \in BOOLEAN
  /\ \A h \in Halves : r[h] = [root |-> r[h].root, asid |-> r[h].asid] /\ Known(r[h].root)

A64Fine(w) ==
  \/ w.reg = "MAIR" /\ w.value = A64_MAIR_EL1_VALUE
  \/ w.reg = "TCR" /\ (w.value # reg.TCR => ~reg.SCTLR)
  \/ /\ w.reg \in Halves /\ w.value = [root |-> w.value.root, asid |-> w.value.asid]
     /\ Known(w.value.root) /\ install(w.value.root) = "ok"
     /\ w.value.root # NoRoot => Owned(<<w.reg, w.value.asid>>, w.value.root)
     /\ reg.SCTLR => Suits(w.value.root, reg.TCR)
  \/ /\ w.reg = "SCTLR" /\ w.value = TRUE
     /\ reg.MAIR = A64_MAIR_EL1_VALUE /\ walk_mair = A64_MAIR_EL1_VALUE
     /\ \A h \in Halves : Suits(reg[h].root, reg.TCR)

A64Ttbr(t) == <<[reg |-> t.ttbr, value |-> [root |-> t.root, asid |-> t.asid]]>>
A64FromSctlr(t) == Put("SCTLR", t.sctlr)
A64FromTtbr(t) == A64Ttbr(t) \o A64FromSctlr(t)
A64FromTcr(t) == Put("TCR", t.tcr) \o A64FromTtbr(t)
A64FromMair(t) == Put("MAIR", t.mair) \o A64FromTcr(t)

A64Token(t) ==
  /\ Known(t.root) /\ install(t.root) = "ok" /\ t.ttbr \in Halves
  /\ t.mair \subseteq {A64_MAIR_EL1_VALUE} /\ t.sctlr \subseteq {TRUE}

A64Due(t) ==
  LET mair == Override(t.mair, reg.MAIR)
      tcr == Override(t.tcr, reg.TCR)
      on == Override(t.sctlr, reg.SCTLR)
      owned == Owned(<<t.ttbr, t.asid>>, t.root)
  IN /\ tcr # reg.TCR => ~reg.SCTLR
     /\ on => /\ mair = A64_MAIR_EL1_VALUE /\ Suits(t.root, tcr)
              /\ \A h \in Halves \ {t.ttbr} : Suits(reg[h].root, tcr)
     /\ \/ todo = A64FromMair(t) /\ owned
        \/ todo = A64FromTcr(t) /\ owned /\ reg.MAIR = mair
        \/ todo = A64FromTtbr(t) /\ owned /\ reg.MAIR = mair /\ reg.TCR = tcr
        \/ /\ todo = A64FromSctlr(t) /\ reg.MAIR = mair /\ walk_mair = mair /\ reg.TCR = tcr
           /\ reg[t.ttbr] = [root |-> t.root, asid |-> t.asid]
        \/ todo = <<>>

A64Core ==
  /\ reg # Off => A64Regs(reg)
  /\ reg = Off \/ ~reg.SCTLR => tlb = {}
  /\ reg # Off /\ reg.SCTLR =>
       /\ reg.MAIR = A64_MAIR_EL1_VALUE /\ walk_mair = A64_MAIR_EL1_VALUE
       /\ \A h \in Halves : reg[h].root # NoRoot =>
            /\ reg[h].root.shape = reg.TCR
            /\ [tag |-> <<h, reg[h].asid>>, root |-> reg[h].root] \in tlb
            /\ Owned(<<h, reg[h].asid>>, reg[h].root)

A64Inv ==
  /\ A64Core
  /\ call.kind = "activate" => A64Token(call.token) /\ A64Due(call.token)
  /\ call.kind = "write" => todo = <<>> \/ \E w \in DirectWrites : todo = <<w>> /\ A64Fine(w)
  /\ obs # NoObs =>
       /\ A64Regs(obs.regs) /\ obs.regs.SCTLR /\ obs.regs.MAIR = A64_MAIR_EL1_VALUE
       /\ \E half \in Halves : obs.token =
            [root |-> obs.regs[half].root, ttbr |-> half, asid |-> obs.regs[half].asid,
             mair |-> {obs.regs.MAIR}, tcr |-> {obs.regs.TCR}, sctlr |-> {obs.regs.SCTLR}]

\* RISC-V.
Rv64Regs(r) ==
  /\ r.satp = [mode |-> r.satp.mode, asid |-> r.satp.asid, root |-> r.satp.root]
  /\ r.satp.mode \in SupportedModes /\ Known(r.satp.root)

Fence == <<[reg |-> "fence"]>>

Rv64FromFence(t) == IF t.fence_after THEN Fence ELSE <<>>

Rv64Token(t) == Known(t.root) /\ install(t.root) = "ok" /\ t.fence_after \in BOOLEAN

Rv64Due(t) ==
  /\ t.mode \in SupportedModes
  /\ t.mode # 0 => t.root # NoRoot /\ t.root.shape = t.mode
  /\ \/ todo = Satp(t) \o Rv64FromFence(t) /\ (t.fence_after \/ Owned(t.asid, t.root))
     \/ todo = Rv64FromFence(t)
     \/ todo = <<>>

\* Until the fence that is due, the CPU may hold the translations of another root.
Rv64Core ==
  /\ reg # Off => Rv64Regs(reg)
  /\ reg # Off /\ reg.satp.mode # 0 =>
       /\ reg.satp.root # NoRoot /\ reg.satp.root.shape = reg.satp.mode
       /\ todo # Fence => Owned(reg.satp.asid, reg.satp.root)

Rv64Inv ==
  /\ Rv64Core
  /\ call.kind = "activate" => Rv64Token(call.token) /\ Rv64Due(call.token)
  /\ obs # NoObs => Rv64Regs(obs.regs) /\ obs.token =
       [root |-> obs.regs.satp.root, mode |-> obs.regs.satp.mode, asid |-> obs.regs.satp.asid,
        fence_after |-> TRUE]

\* What the safety properties need to be inductive, together.
SafeInv ==
  /\ ActInv /\ ~fault /\ (call = NoCall => todo = <<>>)
  /\ Arch = "x86_64" => X86Inv
  /\ Arch = "aarch64" => A64Inv
  /\ Arch = "riscv64" => Rv64Inv

-------------------------------------------------------------------------------
(* Programs, write by write. *)

LEMMA Prefixed ==
  ASSUME NEW S, NEW w \in S, NEW s \in Seq(S)
  PROVE  /\ <<w>> \o s \in Seq(S) /\ <<w>> \o s # <<>>
         /\ Head(<<w>> \o s) = w /\ Tail(<<w>> \o s) = s
<1>. DEFINE u == <<w>> \o s
<1>1. <<w>> \in Seq(S) /\ Len(<<w>>) = 1 /\ <<w>>[1] = w /\ Len(s) \in Nat
  BY LenProperties
<1>2. u \in Seq(S) /\ Len(u) = 1 + Len(s) /\ u[1] = w /\ \A i \in 1..Len(s) : u[i + 1] = s[i]
  <2>1. /\ u \in Seq(S) /\ Len(u) = Len(<<w>>) + Len(s)
        /\ \A i \in 1 .. Len(<<w>>) + Len(s) : u[i] = IF i <= Len(<<w>>) THEN <<w>>[i] ELSE s[i - Len(<<w>>)]
    BY <1>1, ConcatProperties
  <2>. HIDE DEF u
  <2>2. 1 \in 1 .. 1 + Len(s) /\ \A i \in 1..Len(s) : i + 1 \in 1 .. 1 + Len(s) /\ ~(i + 1 <= 1) /\ (i + 1) - 1 = i
    BY <1>1
  <2>. QED  BY <1>1, <2>1, <2>2
<1>. HIDE DEF u
<1>3. u # <<>>
  BY <1>1, <1>2
<1>4. /\ Tail(u) \in Seq(S) /\ Len(Tail(u)) = Len(s) /\ \A i \in 1..Len(s) : Tail(u)[i] = s[i]
  <2>1. /\ Tail(u) \in Seq(S) /\ Len(Tail(u)) = Len(u) - 1
        /\ \A i \in 1 .. Len(Tail(u)) : Tail(u)[i] = u[i + 1]
    BY <1>2, <1>3, HeadTailProperties
  <2>. QED  BY <1>1, <1>2, <2>1
<1>5. Tail(u) = s
  BY <1>4, SeqEqual
<1>6. Head(u) = u[1]
  BY <1>2, <1>3
<1>. QED  BY <1>2, <1>3, <1>5, <1>6 DEF u

\* An optional write, ahead of the rest.
LEMMA PutFirst ==
  ASSUME NEW S, NEW r, NEW options, One(r, options) \subseteq S, NEW s \in Seq(S)
  PROVE  /\ Put(r, options) \o s \in Seq(S)
         /\ options = {} => Put(r, options) \o s = s /\ \A x : Override(options, x) = x
         /\ options # {} => /\ Put(r, options) \o s # <<>> /\ Tail(Put(r, options) \o s) = s
                            /\ Head(Put(r, options) \o s).reg = r
                            /\ Head(Put(r, options) \o s) \in One(r, options)
                            /\ \A x : Head(Put(r, options) \o s).value = Override(options, x)
<1>1. CASE options = {}
  <2>1. Put(r, options) = <<>> /\ \A x : Override(options, x) = x
    BY <1>1, Zenon DEF Put, Override
  <2>. QED  BY <1>1, <2>1, ConcatEmptySeq
<1>2. CASE options # {}
  <2>. DEFINE w == [reg |-> r, value |-> CHOOSE v \in options : TRUE]
  <2>1. w \in S /\ w \in One(r, options) /\ w.reg = r /\ Put(r, options) = <<w>>
    BY <1>2 DEF One, Put
  <2>2. \A x : w.value = Override(options, x)
    BY <2>1, OneWrite
  <2>. HIDE DEF w
  <2>. QED  BY <1>2, <2>1, <2>2, Prefixed
<1>. QED  BY <1>1, <1>2

LEMMA PutSeq ==
  ASSUME NEW S, NEW r, NEW options, One(r, options) \subseteq S
  PROVE  /\ Put(r, options) \in Seq(S)
         /\ options = {} => Put(r, options) = <<>> /\ \A x : Override(options, x) = x
         /\ options # {} => /\ Put(r, options) # <<>> /\ Tail(Put(r, options)) = <<>>
                            /\ Head(Put(r, options)) \in One(r, options)
                            /\ Head(Put(r, options)).reg = r
                            /\ \A x : Head(Put(r, options)).value = Override(options, x)
<1>1. Put(r, options) \in Seq(S)
  BY PutWrites
<1>2. Put(r, options) \o <<>> = Put(r, options) /\ <<>> \in Seq(S)
  BY <1>1, ConcatEmptySeq
<1>. QED  BY <1>1, <1>2, PutFirst

\* What a token asks of an optional control, it asks again.
LEMMA AskedAgain == \A o, x : Override(o, Override(o, x)) = Override(o, x)
BY DEF Override

LEMMA OnlyTrue ==
  ASSUME NEW o, o \subseteq {TRUE}
  PROVE  /\ \A x : Override(o, x) = x \/ Override(o, x) = TRUE
         /\ \A x : o # {} => Override(o, x) = TRUE
<1>1. CASE o = {}
  BY <1>1, Zenon DEF Override
<1>2. CASE o = {TRUE}
  BY <1>2, Zenon DEF Override
<1>. QED  BY <1>1, <1>2

LEMMA SameHardware ==
  ASSUME UNCHANGED fmt
  PROVE  \A root : install(root)' = install(root) /\ Encoded(root)' = Encoded(root)
<1>1. Arch' = Arch
  BY DEF Arch
<1>. QED  BY <1>1 DEF install, Encoded


-------------------------------------------------------------------------------
(* x86-64. *)

LEMMA X86Names ==
  ASSUME fmt \in Formats, Arch = "x86_64"
  PROVE  /\ RegNames = {"PAT", "CR0", "CR3", "CR4"}
         /\ \A r : MmuOn(r) = r.CR0 /\ Contexts(r) = {[tag |-> X86Tag(r), root |-> r.CR3.root]}
         /\ \A r : ShapeInForce(r) = X86Shape(r.CR4)
         /\ \A r : HasRegs(r) => DOMAIN r = {"PAT", "CR0", "CR3", "CR4"} /\ r # Off
<1>1. RegNames = {"PAT", "CR0", "CR3", "CR4"}
  BY DEF RegNames
<1>2. \A r : HasRegs(r) => DOMAIN r = RegNames /\ r # Off
  BY RegsOn DEF HasRegs
<1>. QED  BY <1>1, <1>2 DEF MmuOn, Contexts, ShapeInForce, X86Tag, X86Shape

\* A fine write of CR4 keeps the shape in force and, while paging is on, the tag in use.
LEMMA X86WriteCr4 ==
  ASSUME fmt \in Formats, Arch = "x86_64", HasRegs(reg), X86Core,
         NEW w, w.reg = "CR4", X86Fine(w), Execute(w), UNCHANGED fmt
  PROVE  /\ UNCHANGED fault /\ reg' = [reg EXCEPT !.CR4 = w.value] /\ HasRegs(reg)' /\ X86Core'
         /\ \A tag, root : Owned(tag, root) /\ "PCIDE" \in w.value => Owned(tag, root)'
<1>1. /\ "PCIDE" \in w.value \ reg.CR4 => reg.CR0 /\ reg.CR3.low = 0
      /\ ("LA57" \in w.value) # ("LA57" \in reg.CR4) => ~reg.CR0
  BY DEF X86Fine
<1>2. ~Refuses(w)
  BY <1>1 DEF Refuses
<1>3. RegAfter(w) = [reg EXCEPT !.CR4 = w.value]
  BY DEF RegAfter, Halves
<1>4. /\ reg' = [reg EXCEPT !.CR4 = w.value] /\ UNCHANGED fault
      /\ tlb' = Surviving(w) \cup (IF reg'.CR0 THEN {[tag |-> X86Tag(reg'), root |-> reg'.CR3.root]} ELSE {})
  BY <1>2, <1>3, X86Names DEF Execute
<1>5. HasRegs(reg)' /\ HasRegs(reg')
  <2>1. HasRegs(RegAfter(w))
    BY X86Names, OneRegister
  <2>. QED  BY <1>3, <1>4, <2>1, SameArch DEF HasRegs
<1>6. /\ reg # Off /\ reg' # Off /\ reg'.CR0 = reg.CR0 /\ reg'.CR3 = reg.CR3 /\ reg'.PAT = reg.PAT
      /\ reg'.CR4 = w.value
  BY <1>4, <1>5, X86Names
<1>7. X86Regs(reg) /\ X86Regs(reg')
  BY <1>6 DEF X86Core, X86Regs
<1>8. CASE ~reg.CR0
  <2>1. tlb = {} /\ tlb' = {}
    BY <1>4, <1>6, <1>8 DEF X86Core, Surviving
  <2>. QED  BY <1>4, <1>5, <1>6, <1>7, <1>8, <2>1 DEF X86Core, X86Regs, Known, Owned
<1>9. CASE reg.CR0
  <2>1. X86Shape(reg'.CR4) = X86Shape(reg.CR4)
    BY <1>1, <1>6, <1>9 DEF X86Shape
  <2>2. CASE "PCIDE" \in reg.CR4 \ w.value
    <3>1. tlb' = {[tag |-> X86Tag(reg'), root |-> reg'.CR3.root]}
      BY <1>4, <1>6, <1>9, <2>2 DEF Surviving
    <3>. QED  BY <1>4, <1>5, <1>6, <1>7, <1>9, <2>1, <2>2, <3>1 DEF X86Core, X86Regs, Known, Owned
  <2>3. CASE "PCIDE" \notin reg.CR4 \ w.value
    <3>1. X86Tag(reg') = X86Tag(reg)
      BY <1>1, <1>6, <2>3 DEF X86Tag
    <3>2. tlb' = tlb
      BY <1>4, <1>6, <1>9, <2>3, <3>1 DEF Surviving, X86Core
    <3>. QED  BY <1>4, <1>5, <1>6, <1>7, <1>9, <2>1, <3>1, <3>2 DEF X86Core, X86Regs, Known, Owned
  <2>. QED  BY <2>2, <2>3
<1>. QED  BY <1>7, <1>8, <1>9 DEF X86Regs

\* A fine load of CR3 leaves nothing of another root under the tag it loads.
LEMMA X86WriteCr3 ==
  ASSUME fmt \in Formats, Arch = "x86_64", HasRegs(reg), X86Core,
         NEW w, w.reg = "CR3", X86Fine(w), Execute(w), UNCHANGED fmt
  PROVE  /\ UNCHANGED fault /\ HasRegs(reg)' /\ X86Core'
         /\ reg' = [reg EXCEPT !.CR3 = [root |-> w.value.root, low |-> w.value.low]]
<1>. DEFINE cr3 == [root |-> w.value.root, low |-> w.value.low]
<1>1. /\ Known(w.value.root) /\ install(w.value.root) = "ok"
      /\ w.value.preserve => "PCIDE" \in reg.CR4 /\ Owned(w.value.low, w.value.root)
      /\ reg.CR0 => w.value.root # NoRoot /\ w.value.root.shape = X86Shape(reg.CR4)
  BY DEF X86Fine
<1>2. ~Refuses(w)
  BY <1>1 DEF Refuses
<1>3. RegAfter(w) = [reg EXCEPT !.CR3 = cr3]
  BY <1>1 DEF RegAfter, Halves, Encoded
<1>4. /\ reg' = [reg EXCEPT !.CR3 = cr3] /\ UNCHANGED fault
      /\ tlb' = Surviving(w) \cup (IF reg'.CR0 THEN {[tag |-> X86Tag(reg'), root |-> reg'.CR3.root]} ELSE {})
  BY <1>2, <1>3, X86Names DEF Execute
<1>5. HasRegs(reg)' /\ HasRegs(reg')
  <2>1. HasRegs(RegAfter(w))
    BY X86Names, OneRegister
  <2>. QED  BY <1>3, <1>4, <2>1, SameArch DEF HasRegs
<1>. HIDE DEF cr3
<1>6. /\ reg # Off /\ reg' # Off /\ reg'.CR0 = reg.CR0 /\ reg'.CR3 = cr3 /\ reg'.PAT = reg.PAT
      /\ reg'.CR4 = reg.CR4 /\ cr3.root = w.value.root /\ cr3.low = w.value.low
      /\ cr3 = [root |-> cr3.root, low |-> cr3.low]
  BY <1>4, <1>5, X86Names DEF cr3
<1>7. X86Regs(reg')
  BY <1>1, <1>6 DEF X86Core, X86Regs
<1>8. CASE ~reg.CR0
  <2>1. tlb = {} /\ tlb' = {}
    BY <1>4, <1>6, <1>8 DEF X86Core, Surviving
  <2>. QED  BY <1>4, <1>5, <1>6, <1>7, <1>8, <2>1 DEF X86Core, X86Regs, Known, cr3
<1>9. CASE reg.CR0
  <2>. DEFINE tag == X86Tag(reg')
  <2>1. tlb' = Surviving(w) \cup {[tag |-> tag, root |-> cr3.root]}
    BY <1>4, <1>6, <1>9
  <2>2. tag = IF "PCIDE" \in reg.CR4 THEN w.value.low ELSE 0
    BY <1>6 DEF X86Tag
  <2>. HIDE DEF tag
  <2>3. \A t \in Surviving(w) : t.tag = tag => t.root = cr3.root
    <3>1. CASE ~w.value.preserve
      BY <2>2, <3>1 DEF Surviving
    <3>2. CASE w.value.preserve
      <4>1. Surviving(w) = tlb
        BY <3>2 DEF Surviving
      <4>. QED  BY <1>1, <1>6, <2>2, <3>2, <4>1 DEF Owned
    <3>. QED  BY <3>1, <3>2
  <2>4. \A t \in tlb' : t.tag = tag => t.root = cr3.root
    BY <2>1, <2>3
  <2>5. [tag |-> tag, root |-> cr3.root] \in tlb'
    BY <2>1
  <2>6. cr3.root # NoRoot /\ cr3.root.shape = X86Shape(reg'.CR4)
    BY <1>1, <1>6, <1>9
  <2>7. X86Core'
    BY <1>6, <1>7, <1>9, <2>4, <2>5, <2>6 DEF X86Core, X86Regs, Known, Owned, tag
  <2>. QED  BY <1>4, <1>5, <2>7 DEF cr3
<1>. QED  BY <1>7, <1>8, <1>9 DEF X86Regs

\* A fine write of CR0 turns paging on over a root of the shape in force.
LEMMA X86WriteCr0 ==
  ASSUME fmt \in Formats, Arch = "x86_64", HasRegs(reg), X86Core,
         NEW w, w.reg = "CR0", X86Fine(w), Execute(w), UNCHANGED fmt
  PROVE  /\ UNCHANGED fault /\ reg' = [reg EXCEPT !.CR0 = TRUE] /\ HasRegs(reg)' /\ X86Core'
<1>1. w.value = TRUE /\ reg.CR3.root # NoRoot /\ reg.CR3.root.shape = X86Shape(reg.CR4)
  BY DEF X86Fine
<1>2. ~Refuses(w)
  BY <1>1 DEF Refuses
<1>3. RegAfter(w) = [reg EXCEPT !.CR0 = TRUE]
  BY <1>1 DEF RegAfter, Halves
<1>4. /\ reg' = [reg EXCEPT !.CR0 = TRUE] /\ UNCHANGED fault
      /\ tlb' = Surviving(w) \cup (IF reg'.CR0 THEN {[tag |-> X86Tag(reg'), root |-> reg'.CR3.root]} ELSE {})
  BY <1>2, <1>3, X86Names DEF Execute
<1>5. HasRegs(reg)' /\ HasRegs(reg')
  <2>1. HasRegs(RegAfter(w))
    BY X86Names, OneRegister
  <2>. QED  BY <1>3, <1>4, <2>1, SameArch DEF HasRegs
<1>6. /\ reg # Off /\ reg' # Off /\ reg'.CR0 = TRUE /\ reg'.CR3 = reg.CR3 /\ reg'.PAT = reg.PAT
      /\ reg'.CR4 = reg.CR4 /\ X86Tag(reg') = X86Tag(reg)
  BY <1>4, <1>5, X86Names DEF X86Tag
<1>7. X86Regs(reg')
  BY <1>6 DEF X86Core, X86Regs
<1>8. tlb' = tlb \cup {[tag |-> X86Tag(reg), root |-> reg.CR3.root]}
  BY <1>4, <1>6 DEF Surviving
<1>9. /\ [tag |-> X86Tag(reg), root |-> reg.CR3.root] \in tlb'
      /\ \A t \in tlb' : t.tag = X86Tag(reg) => t.root = reg.CR3.root
  <2>1. CASE ~reg.CR0
    BY <1>6, <1>8, <2>1 DEF X86Core
  <2>2. CASE reg.CR0
    BY <1>6, <1>8, <2>2 DEF X86Core, Owned
  <2>. QED  BY <2>1, <2>2
<1>10. X86Core'
  BY <1>1, <1>6, <1>7, <1>9 DEF X86Core, X86Regs, Known, Owned
<1>. QED  BY <1>4, <1>5, <1>10

LEMMA X86Programs ==
  ASSUME fmt \in Formats, Arch = "x86_64", NEW t
  PROVE  /\ X86From0(t) \in Seq(Writes(t)) /\ X86From3(t) \in Seq(Writes(t)) /\ X86From4(t) \in Seq(Writes(t))
         /\ Program(t) = X86From4(t)
<1>. DEFINE S == Writes(t)
            a == Put("CR4", t.cr4)
            b == X86Cr3(t)
            c == Put("CR0", t.cr0)
<1>1. /\ One("CR4", t.cr4) \subseteq S /\ One("CR0", t.cr0) \subseteq S
      /\ [reg |-> "CR3", value |-> [root |-> t.root, low |-> t.cr3.low, preserve |-> t.cr3.preserve]] \in S
  BY DEF Writes
<1>2. a \in Seq(S) /\ c \in Seq(S)
  BY <1>1, PutSeq
<1>3. b \in Seq(S)
  BY <1>1, Single DEF X86Cr3
<1>4. Program(t) = (a \o b) \o c
  BY DEF Program, X86Program
<1>. HIDE DEF a, b, c, S
<1>5. b \o c \in Seq(S) /\ a \o (b \o c) \in Seq(S) /\ (a \o b) \o c = a \o (b \o c)
  BY <1>2, <1>3, ConcatProperties, ConcatAssociative
<1>. QED  BY <1>2, <1>4, <1>5 DEF X86From0, X86From3, X86From4, a, b, c, S

\* The next write of an activation, and what it may count on.
LEMMA X86NextWrite ==
  ASSUME fmt \in Formats, Arch = "x86_64", X86Regs(reg), NEW t, X86Token(t), X86Due(t), todo # <<>>
  PROVE  LET w == Head(todo)
             cr4 == Override(t.cr4, reg.CR4)
         IN \/ /\ w.reg = "CR4" /\ w.value = cr4 /\ Tail(todo) = X86From3(t)
               /\ t.cr3.preserve => Owned(t.cr3.low, t.root)
            \/ /\ w = [reg |-> "CR3", value |-> [root |-> t.root, low |-> t.cr3.low, preserve |-> t.cr3.preserve]]
               /\ Tail(todo) = X86From0(t) /\ reg.CR4 = cr4
               /\ t.cr3.preserve => Owned(t.cr3.low, t.root)
            \/ /\ w.reg = "CR0" /\ w.value = TRUE /\ Override(t.cr0, reg.CR0) = TRUE /\ Tail(todo) = <<>>
               /\ reg.CR4 = cr4 /\ reg.CR3 = [root |-> t.root, low |-> t.cr3.low]
<1>. DEFINE S == Writes(t)
            cr4 == Override(t.cr4, reg.CR4)
            cr3 == [reg |-> "CR3", value |-> [root |-> t.root, low |-> t.cr3.low, preserve |-> t.cr3.preserve]]
<1>1. One("CR4", t.cr4) \subseteq S /\ One("CR0", t.cr0) \subseteq S /\ cr3 \in S
  BY DEF Writes
<1>2. X86From0(t) \in Seq(S) /\ X86From3(t) \in Seq(S)
  BY X86Programs
<1>3. X86From3(t) = <<cr3>> \o X86From0(t)
  BY DEF X86From3, X86Cr3
<1>. HIDE DEF S, cr3
<1>4. Head(X86From3(t)) = cr3 /\ Tail(X86From3(t)) = X86From0(t)
  BY <1>1, <1>2, <1>3, Prefixed
<1>5. CASE todo = X86From3(t) /\ reg.CR4 = cr4 /\ (t.cr3.preserve => Owned(t.cr3.low, t.root))
  BY <1>4, <1>5 DEF cr3
<1>6. CASE todo = X86From4(t) /\ (t.cr3.preserve => Owned(t.cr3.low, t.root))
  <2>1. CASE t.cr4 = {}
    <3>1. X86From4(t) = X86From3(t) /\ reg.CR4 = cr4
      BY <1>1, <1>2, <2>1, PutFirst DEF X86From4
    <3>. QED  BY <1>5, <1>6, <3>1
  <2>2. CASE t.cr4 # {}
    <3>1. /\ Tail(X86From4(t)) = X86From3(t) /\ Head(X86From4(t)).reg = "CR4"
          /\ \A x : Head(X86From4(t)).value = Override(t.cr4, x)
      BY <1>1, <1>2, <2>2, PutFirst DEF X86From4
    <3>2. Head(todo).reg = "CR4" /\ Head(todo).value = cr4 /\ Tail(todo) = X86From3(t)
      BY <1>6, <3>1
    <3>. QED  BY <1>6, <3>2
  <2>. QED  BY <2>1, <2>2
<1>7. CASE todo = X86From0(t) /\ reg.CR4 = cr4 /\ reg.CR3 = [root |-> t.root, low |-> t.cr3.low]
  <2>0. /\ t.cr0 = {} => Put("CR0", t.cr0) = <<>>
        /\ t.cr0 # {} => /\ Tail(Put("CR0", t.cr0)) = <<>> /\ Head(Put("CR0", t.cr0)).reg = "CR0"
                         /\ \A x : Head(Put("CR0", t.cr0)).value = Override(t.cr0, x)
    BY <1>1, PutSeq
  <2>1. t.cr0 # {} /\ todo = Put("CR0", t.cr0)
    BY <1>7, <2>0 DEF X86From0
  <2>2. /\ Tail(todo) = <<>> /\ Head(todo).reg = "CR0"
        /\ \A x : Head(todo).value = Override(t.cr0, x)
    BY <2>0, <2>1
  <2>3. Override(t.cr0, reg.CR0) = TRUE
    BY <2>1, OnlyTrue DEF X86Token
  <2>4. Head(todo).value = TRUE
    BY <2>2, <2>3
  <2>. QED  BY <1>7, <2>2, <2>3, <2>4
<1>. QED  BY <1>5, <1>6, <1>7 DEF X86Due

LEMMA X86DueStep ==
  ASSUME fmt \in Formats, Arch = "x86_64", HasRegs(reg), X86Core, NEW t, X86Token(t), X86Due(t),
         todo # <<>>, Execute(Head(todo)), todo' = Tail(todo), UNCHANGED fmt
  PROVE  UNCHANGED fault /\ HasRegs(reg)' /\ X86Core' /\ X86Due(t)'
<1>. DEFINE w == Head(todo)
            cr4 == Override(t.cr4, reg.CR4)
            on == Override(t.cr0, reg.CR0)
<1>1. reg # Off /\ X86Regs(reg) /\ DOMAIN reg = {"PAT", "CR0", "CR3", "CR4"}
  BY X86Names DEF X86Core
<1>2. /\ "PCIDE" \in cr4 \ reg.CR4 => reg.CR0 /\ reg.CR3.low = 0
      /\ ("LA57" \in cr4) # ("LA57" \in reg.CR4) => ~reg.CR0
      /\ t.cr3.pcid <=> "PCIDE" \in cr4
      /\ on => t.root # NoRoot /\ t.root.shape = X86Shape(cr4)
  BY DEF X86Due
<1>3. Override(t.cr4, cr4) = cr4 /\ Override(t.cr0, on) = on /\ (reg.CR0 => on)
  <2>1. on = reg.CR0 \/ on = TRUE
    BY OnlyTrue DEF X86Token
  <2>. QED  BY <2>1, AskedAgain
<1>4. CASE w.reg = "CR4" /\ w.value = cr4 /\ Tail(todo) = X86From3(t) /\ (t.cr3.preserve => Owned(t.cr3.low, t.root))
  <2>1. X86Fine(w)
    BY <1>2, <1>4 DEF X86Fine
  <2>2. /\ UNCHANGED fault /\ reg' = [reg EXCEPT !.CR4 = cr4] /\ HasRegs(reg)' /\ X86Core'
        /\ \A tag, root : Owned(tag, root) /\ "PCIDE" \in cr4 => Owned(tag, root)'
    BY <1>4, <2>1, X86WriteCr4
  <2>3. reg'.CR4 = cr4 /\ reg'.CR0 = reg.CR0 /\ reg'.CR3 = reg.CR3
    BY <1>1, <2>2
  <2>4. t.cr3.preserve => Owned(t.cr3.low, t.root)'
    BY <1>2, <1>4, <2>2 DEF X86Token
  <2>. HIDE DEF w
  <2>5. X86Due(t)'
    BY <1>2, <1>3, <1>4, <2>3, <2>4 DEF X86Due, X86From3, X86From0
  <2>. QED  BY <2>2, <2>5
<1>5. CASE /\ w = [reg |-> "CR3", value |-> [root |-> t.root, low |-> t.cr3.low, preserve |-> t.cr3.preserve]]
           /\ Tail(todo) = X86From0(t) /\ reg.CR4 = cr4 /\ (t.cr3.preserve => Owned(t.cr3.low, t.root))
  <2>1. /\ w.reg = "CR3" /\ w.value.root = t.root /\ w.value.low = t.cr3.low
        /\ w.value.preserve = t.cr3.preserve
    BY <1>5
  <2>2. X86Fine(w)
    BY <1>2, <1>3, <1>5, <2>1 DEF X86Fine, X86Token
  <2>3. /\ UNCHANGED fault /\ HasRegs(reg)' /\ X86Core'
        /\ reg' = [reg EXCEPT !.CR3 = [root |-> t.root, low |-> t.cr3.low]]
    BY <2>1, <2>2, X86WriteCr3
  <2>4. reg'.CR4 = reg.CR4 /\ reg'.CR0 = reg.CR0 /\ reg'.CR3 = [root |-> t.root, low |-> t.cr3.low]
    BY <1>1, <2>3
  <2>. HIDE DEF w
  <2>5. X86Due(t)'
    BY <1>2, <1>3, <1>5, <2>4 DEF X86Due, X86From0
  <2>. QED  BY <2>3, <2>5
<1>6. CASE /\ w.reg = "CR0" /\ w.value = TRUE /\ on = TRUE /\ Tail(todo) = <<>>
           /\ reg.CR4 = cr4 /\ reg.CR3 = [root |-> t.root, low |-> t.cr3.low]
  <2>1. X86Fine(w)
    BY <1>2, <1>6 DEF X86Fine
  <2>2. UNCHANGED fault /\ reg' = [reg EXCEPT !.CR0 = TRUE] /\ HasRegs(reg)' /\ X86Core'
    BY <1>6, <2>1, X86WriteCr0
  <2>3. reg'.CR4 = reg.CR4 /\ reg'.CR0 = TRUE /\ reg'.CR3 = reg.CR3
    BY <1>1, <2>2
  <2>. HIDE DEF w
  <2>4. X86Due(t)'
    BY <1>2, <1>3, <1>6, <2>3 DEF X86Due
  <2>. QED  BY <2>2, <2>4
<1>. QED  BY <1>1, <1>4, <1>5, <1>6, X86NextWrite

\* A legal activation starts with everything its token is due.
LEMMA X86Activate ==
  ASSUME fmt \in Formats, Arch = "x86_64", HasRegs(reg), X86Core, NEW t, X86Token(t), activate(t), UNCHANGED fmt
  PROVE  X86Due(t)'
<1>. DEFINE r == Result(t)
            cr4 == Override(t.cr4, reg.CR4)
            on == Override(t.cr0, reg.CR0)
<1>1. /\ LegalResult(r) /\ (t.cr3.pcid <=> "PCIDE" \in r.CR4)
      /\ t.cr3.preserve => Owned(t.cr3.low, t.root)
      /\ UNCHANGED <<reg, tlb>> /\ todo' = X86From4(t)
  BY X86Programs DEF activate, Legal, Enter
<1>2. r.CR4 = cr4 /\ r.CR0 = on /\ r.CR3 = [root |-> t.root, low |-> t.cr3.low]
  <2>1. DOMAIN reg = {"PAT", "CR0", "CR3", "CR4"}
    BY X86Names
  <2>. QED  BY <2>1 DEF Result, Target, Halves
<1>. HIDE DEF r
<1>3. /\ "PCIDE" \in cr4 \ reg.CR4 => reg.CR0 /\ reg.CR3.low = 0
      /\ ("LA57" \in cr4) # ("LA57" \in reg.CR4) => ~reg.CR0
  BY <1>1, <1>2 DEF LegalResult
<1>4. on => t.root # NoRoot /\ t.root.shape = X86Shape(cr4)
  <2>1. MmuOn(r) = on /\ Contexts(r) = {[tag |-> X86Tag(r), root |-> t.root]} /\ ShapeInForce(r) = X86Shape(cr4)
    BY <1>2, X86Names
  <2>. QED  BY <1>1, <2>1 DEF LegalResult
<1>5. t.cr3.pcid <=> "PCIDE" \in cr4
  BY <1>1, <1>2
<1>6. t.cr3.preserve => Owned(t.cr3.low, t.root)'
  BY <1>1 DEF Owned
<1>. QED  BY <1>1, <1>3, <1>4, <1>5, <1>6 DEF X86Due, X86From4, X86From3, X86From0

\* A direct write that its caller may make is fine.
LEMMA X86Direct ==
  ASSUME fmt \in Formats, Arch = "x86_64", HasRegs(reg), NEW w \in DirectWrites, LegalResult(RegAfter(w))
  PROVE  X86Fine(w)
<1>. DEFINE r == RegAfter(w)
<1>1. DOMAIN reg = {"PAT", "CR0", "CR3", "CR4"}
  BY X86Names
<1>2. MmuOn(r) = r.CR0 /\ Contexts(r) = {[tag |-> X86Tag(r), root |-> r.CR3.root]} /\ ShapeInForce(r) = X86Shape(r.CR4)
  BY X86Names
<1>3. CASE w = [reg |-> "CR0", value |-> TRUE]
  <2>1. r = [reg EXCEPT !.CR0 = TRUE]
    BY <1>3 DEF RegAfter, Halves
  <2>2. r.CR0 = TRUE /\ r.CR3 = reg.CR3 /\ r.CR4 = reg.CR4
    BY <1>1, <2>1
  <2>. HIDE DEF r
  <2>. QED  BY <1>2, <1>3, <2>2 DEF LegalResult, X86Fine, r
<1>4. CASE \E v \in SUBSET {"PCIDE", "LA57"} : w = [reg |-> "CR4", value |-> v]
  <2>1. w.reg = "CR4" /\ r = [reg EXCEPT !.CR4 = w.value]
    BY <1>4 DEF RegAfter, Halves
  <2>2. r.CR4 = w.value
    BY <1>1, <2>1
  <2>. HIDE DEF r
  <2>. QED  BY <2>1, <2>2 DEF LegalResult, X86Fine, r
<1>. QED  BY <1>3, <1>4 DEF DirectWrites

LEMMA X86Executes ==
  ASSUME fmt \in Formats, Arch = "x86_64", HasRegs(reg), X86Core, NEW w, X86Fine(w), Execute(w), UNCHANGED fmt
  PROVE  UNCHANGED fault /\ X86Core'
<1>1. w.reg \in {"CR0", "CR3", "CR4"}
  BY DEF X86Fine
<1>. QED  BY <1>1, X86WriteCr0, X86WriteCr3, X86WriteCr4

LEMMA X86Interrupt ==
  ASSUME fmt \in Formats, Arch = "x86_64", HasRegs(reg), X86Core, NEW root \in Roots, Interrupt(root), UNCHANGED fmt
  PROVE  UNCHANGED fault /\ X86Core'
<1>. DEFINE w == [reg |-> "CR3", value |-> [root |-> root, low |-> reg.CR3.low, preserve |-> FALSE]]
            r == RegAfter(w)
<1>1. install(root) = "ok" /\ LegalResult(r) /\ Execute(w)
  BY DEF Interrupt
<1>2. DOMAIN reg = {"PAT", "CR0", "CR3", "CR4"}
  BY X86Names
<1>3. r = [reg EXCEPT !.CR3 = [root |-> root, low |-> reg.CR3.low]]
  BY <1>1 DEF RegAfter, Halves, Encoded
<1>4. r.CR0 = reg.CR0 /\ r.CR3.root = root /\ r.CR4 = reg.CR4
  BY <1>2, <1>3
<1>5. MmuOn(r) = r.CR0 /\ Contexts(r) = {[tag |-> X86Tag(r), root |-> r.CR3.root]} /\ ShapeInForce(r) = X86Shape(r.CR4)
  BY X86Names
<1>6. X86Fine(w)
  <2>1. reg.CR0 => root # NoRoot /\ root.shape = X86Shape(reg.CR4)
    <3>. HIDE DEF r
    <3>. QED  BY <1>1, <1>4, <1>5 DEF LegalResult
  <2>. QED  BY <1>1, <2>1 DEF X86Fine, Known
<1>. HIDE DEF w
<1>. QED  BY <1>1, <1>6, X86Executes

LEMMA X86CoreSame == X86Core /\ UNCHANGED <<reg, tlb>> => X86Core'
BY DEF X86Core, X86Regs, Known, Owned

LEMMA X86Invalidate ==
  ASSUME fmt \in Formats, Arch = "x86_64", X86Core, NEW tag, Invalidate(tag)
  PROVE  X86Core'
<1>1. /\ UNCHANGED reg /\ reg # Off
      /\ tlb' = {t \in tlb : t.tag # tag} \cup (IF reg.CR0 THEN {[tag |-> X86Tag(reg), root |-> reg.CR3.root]} ELSE {})
  BY X86Names DEF Invalidate, Idle
<1>2. CASE ~reg.CR0
  BY <1>1, <1>2 DEF X86Core, X86Regs, Known, Owned
<1>3. CASE reg.CR0
  BY <1>1, <1>3 DEF X86Core, X86Regs, Known, Owned
<1>. QED  BY <1>1, <1>2, <1>3 DEF X86Core, X86Regs

-------------------------------------------------------------------------------
(* The steps, by what they do to the registers, the translations and the call. *)

Kept6 == UNCHANGED <<reg, tlb, call, todo, obs, fault, walk_mair>>

LEMMA StepKinds ==
  ASSUME ActInv, ~fault, call = NoCall => todo = <<>>, [Next]_avars
  PROVE  /\ UNCHANGED fmt
         /\ \/ \E t : activate(t) /\ (t \in Tokens \/ (obs # NoObs /\ t = obs.token))
            \/ \E w \in DirectWrites : write(w)
            \/ WriteRegister
            \/ Return
            \/ \E half \in CurrentTtbr : Observe(half)
            \/ \E root \in Roots : Interrupt(root) /\ call = NoCall
            \/ \E tag : Invalidate(tag)
            \/ install_x86_pat
            \/ install_a64_mair_el1
            \/ Boot /\ call = NoCall
            \/ Kept6
<1>1. UNCHANGED evars => UNCHANGED fmt
  BY DEF evars
<1>2. CASE EntryNext /\ UNCHANGED cpuvars
  <2>1. UNCHANGED fmt
    BY <1>2 DEF EntryNext, map_leaf_direct, remap_no_flush, merge_over, protect_no_flush, AdoptHighPat,
                link_table, split_at, unmap_no_flush, merge_at, Write
  <2>. QED  BY <1>2, <2>1 DEF cpuvars, Kept6
<1>3. CASE Boot /\ UNCHANGED evars
  <2>1. call = NoCall
    BY <1>3 DEF ActInv, Boot
  <2>. QED  BY <1>1, <1>3, <2>1
<1>4. CASE UNCHANGED avars
  BY <1>1, <1>4 DEF avars, cpuvars, Kept6
<1>5. CASE reg # Off /\ CpuNext /\ UNCHANGED evars
  <2>1. CASE \E t \in Tokens : activate(t)
    <3>0. PICK t \in Tokens : activate(t)
      BY <2>1
    <3>1. \E u : activate(u) /\ (u \in Tokens \/ (obs # NoObs /\ u = obs.token))
      BY <3>0, Zenon
    <3>. QED  BY <1>1, <1>5, <3>1
  <2>2. CASE Reactivate
    BY <1>1, <1>5, <2>2 DEF Reactivate
  <2>3. CASE MaskInterrupts
    BY <1>1, <1>5, <2>3 DEF MaskInterrupts, Kept6
  <2>4. CASE \E root \in Roots : Interrupt(root)
    <3>1. call = NoCall
      BY <2>4 DEF ActInv, Interrupt
    <3>. QED  BY <1>1, <1>5, <2>4, <3>1
  <2>5. CASE \E t \in tlb : Invalidate(t.tag)
    BY <1>1, <1>5, <2>5
  <2>6. CASE \/ \E w \in DirectWrites : write(w)
             \/ WriteRegister \/ Return \/ install_x86_pat \/ install_a64_mair_el1
             \/ \E half \in CurrentTtbr : Observe(half)
    BY <1>1, <1>5, <2>6
  <2>. QED  BY <1>5, <2>1, <2>2, <2>3, <2>4, <2>5, <2>6 DEF CpuNext
<1>. QED  BY <1>2, <1>3, <1>4, <1>5 DEF Next

\* Nothing is due between calls.
LEMMA IdleStep ==
  ASSUME ActInv, ~fault, call = NoCall => todo = <<>>, [Next]_avars
  PROVE  (call = NoCall => todo = <<>>)'
<1>1. \A kind, token, program : Enter(kind, token, program) => call' # NoCall
  <2>. SUFFICES ASSUME NEW kind, NEW token, NEW program, Enter(kind, token, program), call' = NoCall PROVE FALSE
    OBVIOUS
  <2>1. "token" \in DOMAIN call' /\ "token" \notin DOMAIN NoCall
    BY DEF Enter, NoCall
  <2>. QED  BY <2>1
<1>2. CASE (\E t : activate(t)) \/ \E w \in DirectWrites : write(w)
  BY <1>1, <1>2 DEF activate, write
<1>3. CASE WriteRegister \/ Return
  BY <1>3 DEF WriteRegister, Return
<1>4. CASE \/ \E half \in CurrentTtbr : Observe(half)
           \/ \E root \in Roots : Interrupt(root)
           \/ \E tag : Invalidate(tag)
           \/ install_x86_pat \/ install_a64_mair_el1 \/ Boot \/ Kept6
  BY <1>4 DEF Observe, Interrupt, Invalidate, install_x86_pat, install_a64_mair_el1, Boot, Kept6
<1>. QED  BY <1>2, <1>3, <1>4, StepKinds

-------------------------------------------------------------------------------

LEMMA X86Step ==
  ASSUME ActInv, ~fault, call = NoCall => todo = <<>>, Arch = "x86_64", X86Inv, [Next]_avars
  PROVE  X86Inv' /\ ~fault'
<1>. DEFINE Obs == obs # NoObs => X86Regs(obs.regs) /\ obs.regs.CR0 /\ obs.token =
               [root |-> obs.regs.CR3.root, cr0 |-> {obs.regs.CR0}, cr4 |-> {obs.regs.CR4},
                cr3 |-> [pcid |-> "PCIDE" \in obs.regs.CR4, low |-> obs.regs.CR3.low, preserve |-> FALSE]]
            Call == /\ call.kind = "activate" => X86Token(call.token) /\ X86Due(call.token)
                    /\ call.kind = "write" => todo = <<>> \/ \E w \in DirectWrites : todo = <<w>> /\ X86Fine(w)
<1>1. fmt \in Formats /\ X86Core /\ Obs /\ Call /\ UNCHANGED fmt /\ (reg # Off => HasRegs(reg))
  BY StepKinds DEF ActInv, X86Inv
<1>2. X86Core' /\ Obs' /\ Call' => X86Inv'
  BY DEF X86Inv
<1>3. UNCHANGED obs => Obs'
  BY <1>1 DEF X86Regs, Known
<1>4. call = NoCall => call.kind = "none" /\ (UNCHANGED call => Call')
  BY DEF NoCall
<1>5. DirectWrites' = DirectWrites /\ \A t : X86Token(t)' = X86Token(t)
  BY <1>1, SameArch, SameHardware DEF X86Token, Known
<1>. HIDE DEF Obs, Call
<1>6. ASSUME NEW t, activate(t), (t \in Tokens \/ (obs # NoObs /\ t = obs.token))
      PROVE  X86Inv' /\ ~fault'
  <2>1. /\ reg # Off /\ UNCHANGED <<reg, tlb, obs, fault>> /\ call'.kind = "activate" /\ call'.token = t
        /\ install(t.root) = "ok"
    BY <1>6 DEF activate, Enter, Idle
  <2>2. X86Token(t)
    <3>1. CASE t \in Tokens
      BY <2>1, <3>1 DEF Tokens, X86Tokens, Cr3Modes, Options, X86Token, Known
    <3>2. CASE obs # NoObs /\ t = obs.token
      <4>1. t.root = obs.regs.CR3.root /\ t.cr0 = {obs.regs.CR0} /\ t.cr3.preserve = FALSE
        BY <1>1, <3>2 DEF Obs
      <4>2. Known(t.root) /\ obs.regs.CR0 = TRUE
        BY <1>1, <3>2, <4>1 DEF Obs, X86Regs
      <4>. QED  BY <2>1, <4>1, <4>2 DEF X86Token
    <3>. QED  BY <1>6, <3>1, <3>2
  <2>3. X86Due(t)' /\ X86Token(t)'
    BY <1>1, <1>5, <1>6, <2>1, <2>2, X86Activate
  <2>4. Call'
    BY <2>1, <2>3 DEF Call
  <2>. QED  BY <1>1, <1>2, <1>3, <2>1, <2>4, X86CoreSame
<1>7. ASSUME NEW w \in DirectWrites, write(w)
      PROVE  X86Inv' /\ ~fault'
  <2>1. /\ reg # Off /\ UNCHANGED <<reg, tlb, obs, fault>> /\ call'.kind = "write" /\ todo' = <<w>>
        /\ LegalResult(RegAfter(w))
    BY <1>7 DEF write, Enter, Idle
  <2>2. X86Fine(w)
    BY <1>1, <2>1, X86Direct
  <2>3. X86Fine(w)'
    BY <1>1, <2>1, <2>2, SameHardware DEF X86Fine, Known, Owned
  <2>4. Call'
    BY <1>1, <1>5, <2>1, <2>3 DEF Call
  <2>. QED  BY <1>1, <1>2, <1>3, <2>1, <2>4, X86CoreSame
<1>8. CASE WriteRegister
  <2>1. /\ call # NoCall /\ reg # Off /\ todo # <<>> /\ Execute(Head(todo)) /\ todo' = Tail(todo)
        /\ UNCHANGED <<call, obs>>
    BY <1>8 DEF WriteRegister, ActInv
  <2>2. CASE call.kind = "activate"
    <3>1. PICK t : t = call.token
      OBVIOUS
    <3>2. X86Token(t) /\ X86Due(t)
      BY <1>1, <2>2, <3>1 DEF Call
    <3>3. UNCHANGED fault /\ X86Core' /\ X86Due(t)' /\ X86Token(t)'
      BY <1>1, <1>5, <2>1, <3>2, X86DueStep
    <3>4. Call'
      BY <2>1, <2>2, <3>1, <3>3 DEF Call
    <3>. QED  BY <1>2, <1>3, <2>1, <3>3, <3>4
  <2>3. CASE call.kind = "write"
    <3>1. PICK w \in DirectWrites : todo = <<w>> /\ X86Fine(w)
      BY <1>1, <2>1, <2>3 DEF Call
    <3>2. Head(todo) = w /\ Tail(todo) = <<>>
      BY <3>1
    <3>3. UNCHANGED fault /\ X86Core'
      BY <1>1, <2>1, <3>1, <3>2, X86Executes
    <3>4. Call'
      BY <2>1, <2>3, <3>2 DEF Call
    <3>. QED  BY <1>2, <1>3, <2>1, <3>3, <3>4
  <2>. QED  BY <2>1, <2>2, <2>3 DEF ActInv
<1>9. CASE Return
  <2>1. UNCHANGED <<reg, tlb, obs, fault>> /\ call' = NoCall
    BY <1>9 DEF Return
  <2>2. Call'
    BY <2>1 DEF Call, NoCall
  <2>. QED  BY <1>1, <1>2, <1>3, <2>1, <2>2, X86CoreSame
<1>10. ASSUME NEW half \in CurrentTtbr, Observe(half)
       PROVE  X86Inv' /\ ~fault'
  <2>1. /\ UNCHANGED <<reg, tlb, call, fault>> /\ call = NoCall /\ reg # Off /\ reg.CR0
        /\ obs' = [token |-> X86Current, regs |-> reg]
    BY <1>1, <1>10, X86Names DEF Observe, Idle, current
  <2>2. X86Regs(reg)
    BY <1>1, <2>1 DEF X86Core
  <2>3. obs'.regs = reg /\ obs'.token = X86Current
    BY <2>1
  <2>4. Obs'
    <3>1. X86Regs(obs'.regs) /\ obs'.regs.CR0
      BY <2>1, <2>2, <2>3
    <3>. QED  BY <2>3, <3>1 DEF Obs, X86Current, X86Regs, Known
  <2>. QED  BY <1>1, <1>2, <1>4, <2>1, <2>4, X86CoreSame
<1>11. ASSUME NEW root \in Roots, Interrupt(root), call = NoCall
       PROVE  X86Inv' /\ ~fault'
  <2>1. UNCHANGED <<call, obs>> /\ reg # Off
    BY <1>11 DEF Interrupt
  <2>2. UNCHANGED fault /\ X86Core'
    BY <1>1, <1>11, <2>1, X86Interrupt
  <2>. QED  BY <1>2, <1>3, <1>4, <1>11, <2>1, <2>2
<1>12. ASSUME NEW tag, Invalidate(tag)
       PROVE  X86Inv' /\ ~fault'
  <2>1. UNCHANGED <<call, obs, fault>> /\ call = NoCall
    BY <1>12 DEF Invalidate, Idle
  <2>. QED  BY <1>1, <1>2, <1>3, <1>4, <1>12, <2>1, X86Invalidate
<1>13. CASE install_x86_pat
  <2>1. /\ UNCHANGED <<tlb, call, obs, fault>> /\ call = NoCall /\ reg # Off
        /\ reg' = [reg EXCEPT !.PAT = X86_PAT_MSR_VALUE]
    BY <1>13 DEF install_x86_pat, Idle
  <2>2. DOMAIN reg = {"PAT", "CR0", "CR3", "CR4"}
    BY <1>1, <2>1, X86Names
  <2>3. reg'.CR0 = reg.CR0 /\ reg'.CR3 = reg.CR3 /\ reg'.CR4 = reg.CR4 /\ reg'.PAT = X86_PAT_MSR_VALUE
    BY <2>1, <2>2
  <2>4. X86Core'
    <3>1. X86Regs(reg')
      BY <1>1, <2>1, <2>3 DEF X86Core, X86Regs
    <3>2. reg' # Off
      <4>1. DOMAIN reg' = DOMAIN reg /\ "off" \notin DOMAIN reg
        BY <2>1, <2>2
      <4>. QED  BY <4>1 DEF Off
    <3>. QED  BY <1>1, <2>1, <2>3, <3>1, <3>2 DEF X86Core, X86Regs, Known, Owned, X86Tag
  <2>. QED  BY <1>2, <1>3, <1>4, <2>1, <2>4
<1>14. CASE Boot /\ call = NoCall
  <2>1. reg = Off /\ UNCHANGED <<tlb, call, obs, fault>>
        /\ reg' = [PAT |-> PatReset, CR0 |-> FALSE, CR3 |-> [root |-> NoRoot, low |-> 0], CR4 |-> {}]
    BY <1>14 DEF Boot, PowerOn
  <2>2. /\ reg'.CR0 = FALSE /\ reg'.PAT = PatReset /\ reg'.CR3 = [root |-> NoRoot, low |-> 0]
        /\ reg'.CR3.root = NoRoot /\ reg'.CR3.low = 0
    BY <2>1
  <2>3. tlb' = {}
    BY <1>1, <2>1 DEF X86Core
  <2>4. X86Core'
    BY <2>2, <2>3 DEF X86Core, X86Regs, Known
  <2>. QED  BY <1>2, <1>3, <1>4, <1>14, <2>1, <2>4
<1>15. CASE Kept6
  <2>1. Call'
    <3>2. \A w : X86Fine(w)' = X86Fine(w)
      BY <1>1, <1>15, SameHardware DEF Kept6, X86Fine, Known, Owned
    <3>3. \A t : X86Due(t)' = X86Due(t)
      BY <1>15 DEF Kept6, X86Due, Owned, X86From0, X86From3, X86From4
    <3>. QED  BY <1>1, <1>5, <1>15, <3>2, <3>3 DEF Call, Kept6
  <2>. QED  BY <1>1, <1>2, <1>3, <1>15, <2>1, X86CoreSame DEF Kept6
<1>16. CASE install_a64_mair_el1
  BY <1>16 DEF install_a64_mair_el1
<1>. QED  BY <1>6, <1>7, <1>8, <1>9, <1>10, <1>11, <1>12, <1>13, <1>14, <1>15, <1>16, StepKinds

-------------------------------------------------------------------------------
(* AArch64. *)

A64Names == {"MAIR", "TCR", "SCTLR", "TTBR0", "TTBR1"}

A64Context(r, h) == [tag |-> <<h, r[h].asid>>, root |-> r[h].root]

LEMMA A64Hardware ==
  ASSUME fmt \in Formats, Arch = "aarch64"
  PROVE  /\ RegNames = A64Names /\ Halves \subseteq A64Names
         /\ \A r : MmuOn(r) = r.SCTLR /\ ShapeInForce(r) = r.TCR
         /\ \A r : Contexts(r) = {A64Context(r, h) : h \in {k \in Halves : r[k].root # NoRoot}}
         /\ \A r : HasRegs(r) => DOMAIN r = A64Names /\ r # Off
<1>1. RegNames = A64Names /\ Halves \subseteq A64Names
  BY DEF RegNames, A64Names, Halves
<1>2. \A r : HasRegs(r) => DOMAIN r = RegNames /\ r # Off
  BY RegsOn DEF HasRegs
<1>3. \A r : MmuOn(r) = r.SCTLR /\ ShapeInForce(r) = r.TCR
  BY DEF MmuOn, ShapeInForce
<1>4. ASSUME NEW r
      PROVE  Contexts(r) = {A64Context(r, h) : h \in {k \in Halves : r[k].root # NoRoot}}
  BY DEF Contexts, A64Context
<1>. QED  BY <1>1, <1>2, <1>3, <1>4

\* A write the CPU executes; none of these registers refuses one.
LEMMA A64Executes ==
  ASSUME fmt \in Formats, Arch = "aarch64", HasRegs(reg), NEW w, A64Fine(w), Execute(w), UNCHANGED fmt
  PROVE  /\ w.reg \in A64Names /\ UNCHANGED fault /\ HasRegs(reg)' /\ reg' # Off /\ reg # Off
         /\ reg'[w.reg] = w.value /\ \A n \in A64Names \ {w.reg} : reg'[n] = reg[n]
         /\ DOMAIN reg = A64Names
         /\ tlb' = tlb \cup {t \in {A64Context(reg', h) : h \in {k \in Halves : reg'[k].root # NoRoot}} : reg'.SCTLR}
         /\ walk_mair' = IF w.reg \in {"TCR"} \cup Halves THEN reg.MAIR ELSE walk_mair
<1>1. w.reg \in A64Names /\ w.reg \notin {"CR0", "CR3", "CR4", "satp", "fence"}
  BY DEF A64Fine, Halves, A64Names
<1>2. ~Refuses(w) /\ Surviving(w) = tlb
  BY <1>1 DEF Refuses, Surviving
<1>3. RegAfter(w) = [reg EXCEPT ![w.reg] = w.value]
  <2>1. CASE w.reg \in Halves
    <3>1. w.value = [root |-> w.value.root, asid |-> w.value.asid] /\ install(w.value.root) = "ok"
      BY <2>1 DEF A64Fine, Halves
    <3>2. [w.value EXCEPT !.root = Encoded(@)] = w.value
      BY <3>1 DEF Encoded
    <3>3. RegAfter(w) = [reg EXCEPT ![w.reg] = [w.value EXCEPT !.root = Encoded(@)]]
      BY <1>1, <2>1 DEF RegAfter
    <3>. QED  BY <3>2, <3>3
  <2>2. CASE w.reg \notin Halves
    BY <1>1, <2>2 DEF RegAfter
  <2>. QED  BY <2>1, <2>2
<1>4. /\ reg' = [reg EXCEPT ![w.reg] = w.value] /\ UNCHANGED fault
      /\ tlb' = tlb \cup (IF MmuOn(reg') THEN Contexts(reg') ELSE {})
      /\ walk_mair' = IF w.reg \in {"TCR"} \cup Halves THEN reg.MAIR ELSE walk_mair
  BY <1>2, <1>3 DEF Execute, Synchronizes
<1>5. tlb' = tlb \cup {t \in {A64Context(reg', h) : h \in {k \in Halves : reg'[k].root # NoRoot}} : reg'.SCTLR}
  <2>1. MmuOn(reg') = reg'.SCTLR /\ Contexts(reg') = {A64Context(reg', h) : h \in {k \in Halves : reg'[k].root # NoRoot}}
    BY A64Hardware
  <2>. QED  BY <1>4, <2>1
<1>6. HasRegs(reg') /\ HasRegs(reg)'
  <2>1. HasRegs(RegAfter(w))
    BY <1>1, A64Hardware, OneRegister
  <2>. QED  BY <1>3, <1>4, <2>1, SameArch DEF HasRegs
<1>7. DOMAIN reg = A64Names /\ reg' # Off /\ reg # Off
  BY <1>6, A64Hardware
<1>8. reg'[w.reg] = w.value /\ \A n \in A64Names \ {w.reg} : reg'[n] = reg[n]
  BY <1>1, <1>4, <1>7
<1>. QED  BY <1>1, <1>4, <1>5, <1>6, <1>7, <1>8

\* MAIR and TCR: what the CPU reads through stays what it was.
LEMMA A64WriteControl ==
  ASSUME fmt \in Formats, Arch = "aarch64", HasRegs(reg), A64Core,
         NEW w, w.reg \in {"MAIR", "TCR"}, A64Fine(w), Execute(w), UNCHANGED fmt
  PROVE  A64Core' /\ tlb' = tlb
<1>1. /\ UNCHANGED fault /\ reg' # Off /\ reg # Off
      /\ reg'[w.reg] = w.value /\ \A n \in A64Names \ {w.reg} : reg'[n] = reg[n]
      /\ tlb' = tlb \cup {t \in {A64Context(reg', h) : h \in {k \in Halves : reg'[k].root # NoRoot}} : reg'.SCTLR}
      /\ walk_mair' = IF w.reg \in {"TCR"} \cup Halves THEN reg.MAIR ELSE walk_mair
  BY A64Executes
<1>2. reg'.SCTLR = reg.SCTLR /\ \A h \in Halves : reg'[h] = reg[h]
  BY <1>1 DEF A64Names, Halves
<1>3. A64Regs(reg')
  BY <1>1, <1>2 DEF A64Core, A64Regs
<1>4. tlb' = tlb
  <2>1. CASE reg.SCTLR
    <3>1. \A h \in Halves : reg'[h].root # NoRoot => A64Context(reg', h) \in tlb
      BY <1>1, <1>2, <2>1 DEF A64Core, A64Context
    <3>. QED  BY <1>1, <3>1
  <2>2. CASE ~reg.SCTLR
    BY <1>1, <1>2, <2>2
  <2>. QED  BY <2>1, <2>2
<1>5. reg.SCTLR => /\ reg'.MAIR = A64_MAIR_EL1_VALUE /\ walk_mair' = A64_MAIR_EL1_VALUE
                   /\ reg'.TCR = reg.TCR
  BY <1>1 DEF A64Core, A64Fine, A64Names, Halves
<1>. QED  BY <1>1, <1>2, <1>3, <1>4, <1>5 DEF A64Core, A64Regs, Known, Owned

\* A root loaded under a tag that is its own.
LEMMA A64WriteTtbr ==
  ASSUME fmt \in Formats, Arch = "aarch64", HasRegs(reg), A64Core,
         NEW w, w.reg \in Halves, A64Fine(w), Execute(w), UNCHANGED fmt
  PROVE  A64Core'
<1>1. /\ UNCHANGED fault /\ reg' # Off /\ reg # Off
      /\ reg'[w.reg] = w.value /\ \A n \in A64Names \ {w.reg} : reg'[n] = reg[n]
      /\ tlb' = tlb \cup {t \in {A64Context(reg', h) : h \in {k \in Halves : reg'[k].root # NoRoot}} : reg'.SCTLR}
      /\ walk_mair' = IF w.reg \in {"TCR"} \cup Halves THEN reg.MAIR ELSE walk_mair
  BY A64Executes
<1>2. /\ reg'.SCTLR = reg.SCTLR /\ reg'.TCR = reg.TCR /\ reg'.MAIR = reg.MAIR
      /\ \A h \in Halves \ {w.reg} : reg'[h] = reg[h]
  BY <1>1 DEF A64Names, Halves
<1>3. /\ w.value = [root |-> w.value.root, asid |-> w.value.asid] /\ Known(w.value.root)
      /\ w.value.root # NoRoot => Owned(<<w.reg, w.value.asid>>, w.value.root)
      /\ reg.SCTLR => Suits(w.value.root, reg.TCR)
  BY DEF A64Fine, Halves
<1>4. A64Regs(reg')
  BY <1>1, <1>2, <1>3 DEF A64Core, A64Regs
<1>5. CASE ~reg.SCTLR
  <2>1. tlb' = {}
    BY <1>1, <1>2, <1>5 DEF A64Core
  <2>. QED  BY <1>1, <1>2, <1>4, <1>5, <2>1 DEF A64Core, A64Regs, Known
<1>6. CASE reg.SCTLR
  <2>1. \A h \in Halves : reg'[h].root # NoRoot => A64Context(reg', h) \in tlb' /\ reg'[h].root.shape = reg'.TCR
    BY <1>1, <1>2, <1>3, <1>6 DEF A64Core, Suits
  <2>2. ASSUME NEW h \in Halves, reg'[h].root # NoRoot, NEW t \in tlb', t.tag = <<h, reg'[h].asid>>
        PROVE  t.root = reg'[h].root
    <3>1. CASE t \in tlb
      <4>1. CASE h = w.reg
        BY <1>1, <1>3, <2>2, <3>1, <4>1 DEF Owned
      <4>2. CASE h # w.reg
        <5>1. reg'[h] = reg[h] /\ reg[h].root # NoRoot
          BY <1>2, <2>2, <4>2
        <5>2. Owned(<<h, reg[h].asid>>, reg[h].root)
          BY <1>1, <1>6, <5>1 DEF A64Core
        <5>. QED  BY <2>2, <3>1, <5>1, <5>2 DEF Owned
      <4>. QED  BY <4>1, <4>2
    <3>2. CASE \E k \in Halves : t = A64Context(reg', k)
      BY <2>2, <3>2 DEF A64Context
    <3>. QED  BY <1>1, <3>1, <3>2
  <2>3. reg'.MAIR = A64_MAIR_EL1_VALUE /\ walk_mair' = A64_MAIR_EL1_VALUE
    BY <1>1, <1>2, <1>6 DEF A64Core
  <2>. QED  BY <1>1, <1>2, <1>4, <1>6, <2>1, <2>2, <2>3 DEF A64Core, A64Regs, Known, Owned, A64Context
<1>. QED  BY <1>4, <1>5, <1>6, <1>1 DEF A64Core, A64Regs

\* Paging turned on.
LEMMA A64WriteSctlr ==
  ASSUME fmt \in Formats, Arch = "aarch64", HasRegs(reg), A64Core,
         NEW w, w.reg = "SCTLR", A64Fine(w), Execute(w), UNCHANGED fmt
  PROVE  A64Core'
<1>1. /\ UNCHANGED fault /\ reg' # Off /\ reg # Off
      /\ reg'[w.reg] = w.value /\ \A n \in A64Names \ {w.reg} : reg'[n] = reg[n]
      /\ tlb' = tlb \cup {t \in {A64Context(reg', h) : h \in {k \in Halves : reg'[k].root # NoRoot}} : reg'.SCTLR}
      /\ walk_mair' = IF w.reg \in {"TCR"} \cup Halves THEN reg.MAIR ELSE walk_mair
  BY A64Executes
<1>2. /\ w.value = TRUE /\ reg.MAIR = A64_MAIR_EL1_VALUE /\ walk_mair = A64_MAIR_EL1_VALUE
      /\ \A h \in Halves : Suits(reg[h].root, reg.TCR)
  BY DEF A64Fine, Halves
<1>3. /\ reg'.SCTLR = TRUE /\ reg'.TCR = reg.TCR /\ reg'.MAIR = reg.MAIR /\ walk_mair' = walk_mair
      /\ \A h \in Halves : reg'[h] = reg[h]
  BY <1>1, <1>2 DEF A64Names, Halves
<1>4. A64Regs(reg')
  BY <1>1, <1>3 DEF A64Core, A64Regs
<1>5. \A h \in Halves : reg'[h].root # NoRoot => A64Context(reg', h) \in tlb' /\ reg'[h].root.shape = reg'.TCR
  BY <1>1, <1>2, <1>3 DEF Suits
<1>6. ASSUME NEW h \in Halves, reg'[h].root # NoRoot, NEW t \in tlb', t.tag = <<h, reg'[h].asid>>
      PROVE  t.root = reg'[h].root
  <2>1. CASE t \in tlb
    <3>1. CASE reg.SCTLR
      <4>1. reg'[h] = reg[h] /\ reg[h].root # NoRoot
        BY <1>3, <1>6
      <4>2. Owned(<<h, reg[h].asid>>, reg[h].root)
        BY <1>1, <3>1, <4>1 DEF A64Core
      <4>. QED  BY <1>6, <2>1, <4>1, <4>2 DEF Owned
    <3>2. CASE ~reg.SCTLR
      BY <1>1, <2>1, <3>2 DEF A64Core
    <3>. QED  BY <3>1, <3>2
  <2>2. CASE \E k \in Halves : t = A64Context(reg', k)
    BY <1>6, <2>2 DEF A64Context
  <2>. QED  BY <1>1, <2>1, <2>2
<1>. QED  BY <1>1, <1>2, <1>3, <1>4, <1>5, <1>6 DEF A64Core, A64Regs, Known, Owned, A64Context

LEMMA A64Writes ==
  ASSUME fmt \in Formats, Arch = "aarch64", HasRegs(reg), A64Core, NEW w, A64Fine(w), Execute(w), UNCHANGED fmt
  PROVE  UNCHANGED fault /\ A64Core'
<1>1. w.reg \in {"MAIR", "TCR"} \/ w.reg \in Halves \/ w.reg = "SCTLR"
  BY DEF A64Fine
<1>. QED  BY <1>1, A64Executes, A64WriteControl, A64WriteTtbr, A64WriteSctlr

LEMMA A64Programs ==
  ASSUME fmt \in Formats, Arch = "aarch64", NEW t
  PROVE  /\ A64FromSctlr(t) \in Seq(Writes(t)) /\ A64FromTtbr(t) \in Seq(Writes(t))
         /\ A64FromTcr(t) \in Seq(Writes(t)) /\ A64FromMair(t) \in Seq(Writes(t))
         /\ Program(t) = A64FromMair(t)
<1>. DEFINE S == Writes(t)
            a == Put("MAIR", t.mair)
            b == Put("TCR", t.tcr)
            c == A64Ttbr(t)
            d == Put("SCTLR", t.sctlr)
<1>1. /\ One("MAIR", t.mair) \subseteq S /\ One("TCR", t.tcr) \subseteq S /\ One("SCTLR", t.sctlr) \subseteq S
      /\ [reg |-> t.ttbr, value |-> [root |-> t.root, asid |-> t.asid]] \in S
  BY DEF Writes
<1>2. a \in Seq(S) /\ b \in Seq(S) /\ d \in Seq(S)
  BY <1>1, PutSeq
<1>3. c \in Seq(S)
  BY <1>1, Single DEF A64Ttbr
<1>4. Program(t) = ((a \o b) \o c) \o d
  BY DEF Program, A64Program, A64Ttbr
<1>. HIDE DEF a, b, c, d, S
<1>5. /\ c \o d \in Seq(S) /\ b \o (c \o d) \in Seq(S) /\ a \o (b \o (c \o d)) \in Seq(S)
      /\ a \o b \in Seq(S)
  BY <1>2, <1>3, ConcatProperties
<1>6. ((a \o b) \o c) \o d = a \o (b \o (c \o d))
  <2>1. ((a \o b) \o c) \o d = (a \o b) \o (c \o d)
    BY <1>2, <1>3, <1>5, ConcatAssociative
  <2>2. (a \o b) \o (c \o d) = a \o (b \o (c \o d))
    BY <1>2, <1>3, <1>5, ConcatAssociative
  <2>. QED  BY <2>1, <2>2
<1>. QED  BY <1>2, <1>4, <1>5, <1>6 DEF A64FromSctlr, A64FromTtbr, A64FromTcr, A64FromMair, a, b, c, d, S

\* An optional control that can ask for one value only.
LEMMA OnlyValue ==
  ASSUME NEW v, NEW o, o \subseteq {v}, o # {}, NEW x
  PROVE  Override(o, x) = v
<1>1. o = {v}
  OBVIOUS
<1>. QED  BY <1>1, Zenon DEF Override

\* An optional write that is the last one.
LEMMA PutAlone ==
  ASSUME NEW r, NEW options, Put(r, options) # <<>>
  PROVE  /\ options # {} /\ Tail(Put(r, options)) = <<>> /\ Head(Put(r, options)).reg = r
         /\ \A x : Head(Put(r, options)).value = Override(options, x)
<1>. DEFINE w == [reg |-> r, value |-> CHOOSE v \in options : TRUE]
<1>1. options # {} /\ Put(r, options) = <<w>>
  BY DEF Put
<1>2. w \in One(r, options) /\ w.reg = r
  BY <1>1 DEF One
<1>3. \A x : w.value = Override(options, x)
  BY <1>2, OneWrite
<1>. HIDE DEF w
<1>4. Head(<<w>>) = w /\ Tail(<<w>>) = <<>>
  OBVIOUS
<1>. QED  BY <1>1, <1>2, <1>3, <1>4

LEMMA A64NextWrite ==
  ASSUME fmt \in Formats, Arch = "aarch64", NEW t, A64Token(t), A64Due(t), todo # <<>>
  PROVE  LET w == Head(todo)
             mair == Override(t.mair, reg.MAIR)
             tcr == Override(t.tcr, reg.TCR)
             owned == Owned(<<t.ttbr, t.asid>>, t.root)
         IN \/ /\ w.reg = "MAIR" /\ w.value = mair /\ mair = A64_MAIR_EL1_VALUE
               /\ Tail(todo) = A64FromTcr(t) /\ owned
            \/ w.reg = "TCR" /\ w.value = tcr /\ Tail(todo) = A64FromTtbr(t) /\ owned /\ reg.MAIR = mair
            \/ /\ w = [reg |-> t.ttbr, value |-> [root |-> t.root, asid |-> t.asid]]
               /\ Tail(todo) = A64FromSctlr(t) /\ owned /\ reg.MAIR = mair /\ reg.TCR = tcr
            \/ /\ w.reg = "SCTLR" /\ w.value = TRUE /\ Override(t.sctlr, reg.SCTLR) = TRUE /\ Tail(todo) = <<>>
               /\ reg.MAIR = mair /\ walk_mair = mair /\ reg.TCR = tcr /\ reg[t.ttbr] = [root |-> t.root, asid |-> t.asid]
<1>. DEFINE S == Writes(t)
            mair == Override(t.mair, reg.MAIR)
            tcr == Override(t.tcr, reg.TCR)
            owned == Owned(<<t.ttbr, t.asid>>, t.root)
            ttbr == [reg |-> t.ttbr, value |-> [root |-> t.root, asid |-> t.asid]]
<1>1. /\ One("MAIR", t.mair) \subseteq S /\ One("TCR", t.tcr) \subseteq S /\ One("SCTLR", t.sctlr) \subseteq S
      /\ ttbr \in S
  BY DEF Writes
<1>2. A64FromSctlr(t) \in Seq(S) /\ A64FromTtbr(t) \in Seq(S) /\ A64FromTcr(t) \in Seq(S)
  BY A64Programs
<1>3. A64FromTtbr(t) = <<ttbr>> \o A64FromSctlr(t)
  BY DEF A64FromTtbr, A64Ttbr
<1>. HIDE DEF S, ttbr, owned
<1>4. CASE todo = A64FromTtbr(t) /\ owned /\ reg.MAIR = mair /\ reg.TCR = tcr
  <2>1. Head(todo) = ttbr /\ Tail(todo) = A64FromSctlr(t)
    BY <1>1, <1>2, <1>3, <1>4, Prefixed
  <2>. QED  BY <1>4, <2>1 DEF ttbr, owned
<1>5. CASE todo = A64FromTcr(t) /\ owned /\ reg.MAIR = mair
  <2>1. CASE t.tcr = {}
    <3>1. A64FromTcr(t) = A64FromTtbr(t) /\ reg.TCR = tcr
      BY <1>1, <1>2, <2>1, PutFirst DEF A64FromTcr
    <3>. QED  BY <1>4, <1>5, <3>1
  <2>2. CASE t.tcr # {}
    <3>1. /\ Tail(A64FromTcr(t)) = A64FromTtbr(t) /\ Head(A64FromTcr(t)).reg = "TCR"
          /\ \A x : Head(A64FromTcr(t)).value = Override(t.tcr, x)
      BY <1>1, <1>2, <2>2, PutFirst DEF A64FromTcr
    <3>2. Head(todo).reg = "TCR" /\ Head(todo).value = tcr /\ Tail(todo) = A64FromTtbr(t)
      BY <1>5, <3>1
    <3>. QED  BY <1>5, <3>2 DEF owned
  <2>. QED  BY <2>1, <2>2
<1>6. CASE todo = A64FromMair(t) /\ owned
  <2>1. CASE t.mair = {}
    <3>1. A64FromMair(t) = A64FromTcr(t) /\ reg.MAIR = mair
      BY <1>1, <1>2, <2>1, PutFirst DEF A64FromMair
    <3>. QED  BY <1>5, <1>6, <3>1
  <2>2. CASE t.mair # {}
    <3>1. /\ Tail(A64FromMair(t)) = A64FromTcr(t) /\ Head(A64FromMair(t)).reg = "MAIR"
          /\ \A x : Head(A64FromMair(t)).value = Override(t.mair, x)
      BY <1>1, <1>2, <2>2, PutFirst DEF A64FromMair
    <3>2. Head(todo).reg = "MAIR" /\ Head(todo).value = mair /\ Tail(todo) = A64FromTcr(t)
      BY <1>6, <3>1
    <3>3. mair = A64_MAIR_EL1_VALUE
      BY <2>2, OnlyValue DEF A64Token
    <3>. QED  BY <1>6, <3>2, <3>3 DEF owned
  <2>. QED  BY <2>1, <2>2
<1>7. CASE /\ todo = A64FromSctlr(t) /\ reg.MAIR = mair /\ walk_mair = mair /\ reg.TCR = tcr
           /\ reg[t.ttbr] = [root |-> t.root, asid |-> t.asid]
  <2>1. todo = Put("SCTLR", t.sctlr) /\ Put("SCTLR", t.sctlr) # <<>>
    BY <1>7 DEF A64FromSctlr
  <2>2. /\ t.sctlr # {} /\ Tail(Put("SCTLR", t.sctlr)) = <<>> /\ Head(Put("SCTLR", t.sctlr)).reg = "SCTLR"
        /\ \A x : Head(Put("SCTLR", t.sctlr)).value = Override(t.sctlr, x)
    BY <2>1, PutAlone
  <2>3. Override(t.sctlr, reg.SCTLR) = TRUE
    BY <2>2, OnlyTrue DEF A64Token
  <2>4. Tail(todo) = <<>> /\ Head(todo).reg = "SCTLR" /\ Head(todo).value = Override(t.sctlr, reg.SCTLR)
    BY <2>1, <2>2
  <2>. QED  BY <1>7, <2>3, <2>4
<1>. QED  BY <1>4, <1>5, <1>6, <1>7 DEF A64Due, owned

LEMMA A64DueStep ==
  ASSUME fmt \in Formats, Arch = "aarch64", HasRegs(reg), A64Core, NEW t, A64Token(t), A64Due(t),
         todo # <<>>, Execute(Head(todo)), todo' = Tail(todo), UNCHANGED fmt
  PROVE  UNCHANGED fault /\ A64Core' /\ A64Due(t)'
<1>. DEFINE w == Head(todo)
            mair == Override(t.mair, reg.MAIR)
            tcr == Override(t.tcr, reg.TCR)
            on == Override(t.sctlr, reg.SCTLR)
            owned == Owned(<<t.ttbr, t.asid>>, t.root)
<1>1. /\ tcr # reg.TCR => ~reg.SCTLR
      /\ on => /\ mair = A64_MAIR_EL1_VALUE /\ Suits(t.root, tcr)
               /\ \A h \in Halves \ {t.ttbr} : Suits(reg[h].root, tcr)
      /\ t.ttbr \in Halves /\ t.ttbr \notin {"MAIR", "TCR", "SCTLR"}
  BY DEF A64Due, A64Token, Halves
<1>2. /\ Override(t.mair, mair) = mair /\ Override(t.tcr, tcr) = tcr /\ Override(t.sctlr, on) = on
      /\ reg.SCTLR => on
  <2>1. on = reg.SCTLR \/ on = TRUE
    BY OnlyTrue DEF A64Token
  <2>. QED  BY <2>1, AskedAgain
<1>3. ASSUME A64Fine(w)
      PROVE  /\ UNCHANGED fault /\ A64Core' /\ reg'[w.reg] = w.value
             /\ \A n \in A64Names \ {w.reg} : reg'[n] = reg[n]
             /\ w.reg \in {"MAIR", "TCR"} => tlb' = tlb
             /\ walk_mair' = IF w.reg \in {"TCR"} \cup Halves THEN reg.MAIR ELSE walk_mair
  BY <1>3, A64Executes, A64Writes, A64WriteControl
<1>4. CASE /\ w.reg = "MAIR" /\ w.value = mair /\ mair = A64_MAIR_EL1_VALUE
           /\ Tail(todo) = A64FromTcr(t) /\ owned
  <2>1. A64Fine(w)
    BY <1>4 DEF A64Fine
  <2>2. /\ reg'.MAIR = mair /\ reg'.TCR = reg.TCR /\ reg'.SCTLR = reg.SCTLR
        /\ \A h \in Halves : reg'[h] = reg[h]
    BY <1>3, <1>4, <2>1 DEF A64Names, Halves
  <2>3. Owned(<<t.ttbr, t.asid>>, t.root)'
    BY <1>3, <1>4, <2>1 DEF Owned
  <2>4. todo' = A64FromTcr(t)
    BY <1>4
  <2>. HIDE DEF w
  <2>5. A64Due(t)'
    BY <1>1, <1>2, <2>2, <2>3, <2>4 DEF A64Due, A64FromTcr, A64FromTtbr, A64FromSctlr, A64Ttbr
  <2>. QED  BY <1>3, <2>1, <2>5
<1>5. CASE w.reg = "TCR" /\ w.value = tcr /\ Tail(todo) = A64FromTtbr(t) /\ owned /\ reg.MAIR = mair
  <2>1. A64Fine(w)
    BY <1>1, <1>5 DEF A64Fine
  <2>2. /\ reg'.MAIR = reg.MAIR /\ reg'.TCR = tcr /\ reg'.SCTLR = reg.SCTLR
        /\ \A h \in Halves : reg'[h] = reg[h]
    BY <1>3, <1>5, <2>1 DEF A64Names, Halves
  <2>3. Owned(<<t.ttbr, t.asid>>, t.root)'
    BY <1>3, <1>5, <2>1 DEF Owned
  <2>4. todo' = A64FromTtbr(t)
    BY <1>5
  <2>. HIDE DEF w
  <2>5. A64Due(t)'
    BY <1>1, <1>2, <1>5, <2>2, <2>3, <2>4 DEF A64Due, A64FromTtbr, A64FromSctlr, A64Ttbr
  <2>. QED  BY <1>3, <2>1, <2>5
<1>6. CASE /\ w = [reg |-> t.ttbr, value |-> [root |-> t.root, asid |-> t.asid]]
           /\ Tail(todo) = A64FromSctlr(t) /\ owned /\ reg.MAIR = mair /\ reg.TCR = tcr
  <2>1. w.reg = t.ttbr /\ w.value = [root |-> t.root, asid |-> t.asid] /\ w.value.root = t.root /\ w.value.asid = t.asid
    BY <1>6
  <2>. HIDE DEF w
  <2>2. A64Fine(w)
    BY <1>1, <1>2, <1>6, <2>1 DEF A64Fine, A64Token
  <2>3. /\ reg'.MAIR = reg.MAIR /\ reg'.TCR = reg.TCR /\ reg'.SCTLR = reg.SCTLR
        /\ reg'[t.ttbr] = [root |-> t.root, asid |-> t.asid]
        /\ \A h \in Halves \ {t.ttbr} : reg'[h] = reg[h]
        /\ walk_mair' = reg.MAIR
    BY <1>1, <1>3, <2>1, <2>2 DEF A64Names, Halves
  <2>4. todo' = A64FromSctlr(t)
    BY <1>6
  <2>5. A64Due(t)'
    BY <1>1, <1>2, <1>6, <2>3, <2>4 DEF A64Due, A64FromSctlr
  <2>. QED  BY <1>3, <2>2, <2>5
<1>7. CASE /\ w.reg = "SCTLR" /\ w.value = TRUE /\ on = TRUE /\ Tail(todo) = <<>>
           /\ reg.MAIR = mair /\ walk_mair = mair /\ reg.TCR = tcr /\ reg[t.ttbr] = [root |-> t.root, asid |-> t.asid]
  <2>1. A64Fine(w)
    <3>1. \A h \in Halves : Suits(reg[h].root, reg.TCR)
      BY <1>1, <1>7
    <3>. QED  BY <1>1, <1>7, <3>1 DEF A64Fine
  <2>2. /\ reg'.MAIR = reg.MAIR /\ reg'.TCR = reg.TCR /\ reg'.SCTLR = TRUE
        /\ \A h \in Halves : reg'[h] = reg[h]
    BY <1>3, <1>7, <2>1 DEF A64Names, Halves
  <2>3. todo' = <<>>
    BY <1>7
  <2>. HIDE DEF w
  <2>4. A64Due(t)'
    BY <1>1, <1>2, <1>7, <2>2, <2>3 DEF A64Due
  <2>. QED  BY <1>3, <2>1, <2>4
<1>. QED  BY <1>4, <1>5, <1>6, <1>7, A64NextWrite

LEMMA A64Covered ==
  ASSUME fmt \in Formats, Arch = "aarch64", NEW r, NEW shape, \A c \in Contexts(r) : c.root.shape = shape
  PROVE  \A h \in Halves : Suits(r[h].root, shape)
<1>. SUFFICES ASSUME NEW h \in Halves, r[h].root # NoRoot PROVE r[h].root.shape = shape
  BY DEF Suits
<1>1. A64Context(r, h) \in Contexts(r)
  BY A64Hardware
<1>2. A64Context(r, h).root = r[h].root
  BY DEF A64Context
<1>. QED  BY <1>1, <1>2

LEMMA A64Activate ==
  ASSUME fmt \in Formats, Arch = "aarch64", HasRegs(reg), NEW t, A64Token(t), activate(t), UNCHANGED fmt
  PROVE  A64Due(t)'
<1>. DEFINE r == Result(t)
            mair == Override(t.mair, reg.MAIR)
            tcr == Override(t.tcr, reg.TCR)
            on == Override(t.sctlr, reg.SCTLR)
<1>1. /\ LegalResult(r) /\ Owned(<<t.ttbr, t.asid>>, t.root)
      /\ UNCHANGED <<reg, tlb>> /\ todo' = A64FromMair(t) /\ t.ttbr \in Halves
  BY A64Programs DEF activate, Legal, Enter, A64Token
<1>2. /\ r.MAIR = mair /\ r.TCR = tcr /\ r.SCTLR = on
      /\ \A h \in Halves : r[h] = IF h = t.ttbr THEN [root |-> t.root, asid |-> t.asid] ELSE reg[h]
  <2>1. DOMAIN reg = A64Names
    BY A64Hardware
  <2>2. \A n \in A64Names : r[n] = Target(t, n, reg[n])
    BY <2>1 DEF Result
  <2>3. \A h \in Halves : Target(t, h, reg[h]) = IF h = t.ttbr THEN [root |-> t.root, asid |-> t.asid] ELSE reg[h]
    BY DEF Target, Halves
  <2>. QED  BY <2>2, <2>3 DEF Target, A64Names, Halves
<1>. HIDE DEF r
<1>3. tcr # reg.TCR => ~reg.SCTLR
  BY <1>1, <1>2 DEF LegalResult
<1>4. ASSUME on
      PROVE  /\ mair = A64_MAIR_EL1_VALUE /\ Suits(t.root, tcr)
             /\ \A h \in Halves \ {t.ttbr} : Suits(reg[h].root, tcr)
  <2>1. /\ MmuOn(r) /\ ShapeInForce(r) = tcr
        /\ Contexts(r) = {A64Context(r, h) : h \in {k \in Halves : r[k].root # NoRoot}}
    BY <1>2, <1>4, A64Hardware
  <2>2. \A c \in Contexts(r) : c.root.shape = tcr
    <3>1. MmuOn(r) => \A c \in Contexts(r) : c.root.shape = ShapeInForce(r)
      BY <1>1 DEF LegalResult
    <3>. QED  BY <2>1, <3>1
  <2>3. \A h \in Halves : Suits(r[h].root, tcr)
    BY <2>2, A64Covered
  <2>4. mair = A64_MAIR_EL1_VALUE
    BY <1>1, <1>2, <1>4 DEF LegalResult
  <2>. QED  BY <1>1, <1>2, <2>3, <2>4
<1>5. Owned(<<t.ttbr, t.asid>>, t.root)'
  BY <1>1 DEF Owned
<1>. QED  BY <1>1, <1>3, <1>4, <1>5 DEF A64Due, A64FromMair, A64FromTcr, A64FromTtbr, A64FromSctlr, A64Ttbr

LEMMA A64Direct ==
  ASSUME fmt \in Formats, Arch = "aarch64", HasRegs(reg), NEW w \in DirectWrites, write(w)
  PROVE  A64Fine(w)
<1>. DEFINE r == RegAfter(w)
<1>1. DOMAIN reg = A64Names /\ LegalResult(r)
  BY A64Hardware DEF write
<1>2. /\ MmuOn(r) = r.SCTLR /\ ShapeInForce(r) = r.TCR
      /\ Contexts(r) = {A64Context(r, h) : h \in {k \in Halves : r[k].root # NoRoot}}
  BY A64Hardware
<1>3. CASE w = [reg |-> "MAIR", value |-> A64_MAIR_EL1_VALUE]
  BY <1>3 DEF A64Fine
<1>4. CASE \E v \in {1, 2} : w = [reg |-> "TCR", value |-> v]
  <2>1. w.reg = "TCR" /\ r = [reg EXCEPT !.TCR = w.value]
    BY <1>4 DEF RegAfter, Halves
  <2>2. r.TCR = w.value
    BY <1>1, <2>1 DEF A64Names
  <2>. HIDE DEF r
  <2>. QED  BY <1>1, <2>1, <2>2 DEF LegalResult, A64Fine
<1>5. CASE w = [reg |-> "SCTLR", value |-> TRUE]
  <2>1. w.reg = "SCTLR" /\ w.value = TRUE /\ r = [reg EXCEPT !.SCTLR = TRUE]
    BY <1>5 DEF RegAfter, Halves
  <2>2. r.SCTLR = TRUE /\ r.TCR = reg.TCR /\ r.MAIR = reg.MAIR /\ \A h \in Halves : r[h] = reg[h]
    BY <1>1, <2>1 DEF A64Names, Halves
  <2>. HIDE DEF r
  <2>3. \A c \in Contexts(r) : c.root.shape = reg.TCR
    <3>1. MmuOn(r) => \A c \in Contexts(r) : c.root.shape = ShapeInForce(r)
      BY <1>1 DEF LegalResult
    <3>2. MmuOn(r) /\ ShapeInForce(r) = reg.TCR
      BY <1>2, <2>2
    <3>. QED  BY <3>1, <3>2
  <2>4. \A h \in Halves : Suits(reg[h].root, reg.TCR)
    BY <2>2, <2>3, A64Covered
  <2>5. reg.MAIR = A64_MAIR_EL1_VALUE /\ walk_mair = A64_MAIR_EL1_VALUE
    BY <1>1, <2>1, <2>2 DEF LegalResult, write
  <2>. QED  BY <2>1, <2>4, <2>5 DEF A64Fine
<1>6. ASSUME NEW h \in Halves, w \in TtbrWrites(h)
      PROVE  A64Fine(w)
  <2>. DEFINE root == w.value.root
              asid == w.value.asid
  <2>2. /\ w.reg = h /\ w.value = [root |-> root, asid |-> asid]
        /\ root \in Roots /\ encode_ttbr(root) = "ok"
    BY <1>6 DEF TtbrWrites
  <2>. HIDE DEF root, asid
  <2>3. install(root) = "ok" /\ Encoded(root) = root
    BY <2>2 DEF install, Encoded
  <2>4. r = [reg EXCEPT ![h] = [root |-> root, asid |-> asid]]
    <3>1. [w.value EXCEPT !.root = Encoded(@)] = [root |-> root, asid |-> asid]
      BY <2>2, <2>3
    <3>2. w.reg \in Halves /\ w.reg \notin {"CR3", "satp", "fence"}
      BY <2>2 DEF Halves
    <3>. QED  BY <2>2, <3>1, <3>2 DEF RegAfter
  <2>5. r.SCTLR = reg.SCTLR /\ r.TCR = reg.TCR /\ r[h] = [root |-> root, asid |-> asid]
    BY <1>1, <2>4 DEF A64Names, Halves
  <2>. HIDE DEF r
  <2>6. reg.SCTLR => Suits(root, reg.TCR)
    <3>1. reg.SCTLR => \A c \in Contexts(r) : c.root.shape = reg.TCR
      BY <1>1, <1>2, <2>5 DEF LegalResult
    <3>2. reg.SCTLR => Suits(r[h].root, reg.TCR)
      BY <3>1, A64Covered
    <3>. QED  BY <2>5, <3>2
  <2>7. Owned(<<h, asid>>, root)
    BY <2>2 DEF write, root, asid
  <2>. QED  BY <2>2, <2>3, <2>6, <2>7 DEF A64Fine, Known, root, asid
<1>. QED  BY <1>3, <1>4, <1>5, <1>6 DEF DirectWrites

LEMMA A64Interrupt ==
  ASSUME fmt \in Formats, Arch = "aarch64", HasRegs(reg), A64Core, NEW root \in Roots, Interrupt(root), UNCHANGED fmt
  PROVE  UNCHANGED fault /\ A64Core'
<1>. DEFINE w == [reg |-> "TTBR0", value |-> [root |-> root, asid |-> reg.TTBR0.asid]]
            r == RegAfter(w)
<1>1. install(root) = "ok" /\ LegalResult(r) /\ (\A c \in Contexts(r) : Owned(c.tag, c.root)) /\ Execute(w)
  BY DEF Interrupt
<1>2. DOMAIN reg = A64Names
  BY A64Hardware
<1>3. r = [reg EXCEPT !.TTBR0 = [root |-> root, asid |-> reg.TTBR0.asid]]
  <2>1. [w.value EXCEPT !.root = Encoded(@)] = [root |-> root, asid |-> reg.TTBR0.asid]
    BY <1>1 DEF Encoded
  <2>. QED  BY <2>1 DEF RegAfter, Halves
<1>4. r.SCTLR = reg.SCTLR /\ r.TCR = reg.TCR /\ r.TTBR0 = [root |-> root, asid |-> reg.TTBR0.asid]
  BY <1>2, <1>3 DEF A64Names
<1>5. /\ MmuOn(r) = r.SCTLR /\ ShapeInForce(r) = r.TCR
      /\ Contexts(r) = {A64Context(r, h) : h \in {k \in Halves : r[k].root # NoRoot}}
  BY A64Hardware
<1>6. root # NoRoot => [tag |-> <<"TTBR0", reg.TTBR0.asid>>, root |-> root] \in Contexts(r)
  <2>. HIDE DEF r, w
  <2>1. root # NoRoot => A64Context(r, "TTBR0") \in Contexts(r)
    BY <1>4, <1>5 DEF Halves
  <2>. QED  BY <1>4, <2>1 DEF A64Context
<1>7. A64Fine(w)
  <2>1. root # NoRoot => Owned(<<"TTBR0", reg.TTBR0.asid>>, root) /\ (reg.SCTLR => root.shape = reg.TCR)
    <3>. HIDE DEF r, w
    <3>. QED  BY <1>1, <1>4, <1>5, <1>6 DEF LegalResult
  <2>. QED  BY <1>1, <2>1 DEF A64Fine, Known, Suits, Halves
<1>. HIDE DEF w
<1>. QED  BY <1>1, <1>7, A64Writes

LEMMA A64CoreSame == A64Core /\ UNCHANGED <<reg, tlb, walk_mair>> => A64Core'
BY DEF A64Core, A64Regs, Known, Owned

LEMMA A64Invalidate ==
  ASSUME fmt \in Formats, Arch = "aarch64", HasRegs(reg), A64Core, NEW tag, Invalidate(tag)
  PROVE  A64Core'
<1>1. /\ UNCHANGED <<reg, walk_mair>> /\ reg # Off
      /\ tlb' = {t \in tlb : t.tag # tag} \cup (IF MmuOn(reg) THEN Contexts(reg) ELSE {})
      /\ MmuOn(reg) = reg.SCTLR
      /\ Contexts(reg) = {A64Context(reg, h) : h \in {k \in Halves : reg[k].root # NoRoot}}
  BY A64Hardware DEF Invalidate, Idle
<1>2. CASE ~reg.SCTLR
  BY <1>1, <1>2 DEF A64Core, A64Regs, Known, Owned
<1>3. CASE reg.SCTLR
  <2>1. \A h \in Halves : reg[h].root # NoRoot => A64Context(reg, h) \in tlb'
    BY <1>1, <1>3
  <2>2. Contexts(reg) \subseteq tlb
    BY <1>1, <1>3 DEF A64Core, A64Context
  <2>3. tlb' \subseteq tlb
    BY <1>1, <2>2
  <2>. QED  BY <1>1, <1>3, <2>1, <2>3 DEF A64Core, A64Regs, Known, Owned, A64Context
<1>. QED  BY <1>1, <1>2, <1>3 DEF A64Core, A64Regs

LEMMA A64Step ==
  ASSUME ActInv, ~fault, call = NoCall => todo = <<>>, Arch = "aarch64", A64Inv, [Next]_avars
  PROVE  A64Inv' /\ ~fault'
<1>. DEFINE Obs == obs # NoObs =>
               /\ A64Regs(obs.regs) /\ obs.regs.SCTLR /\ obs.regs.MAIR = A64_MAIR_EL1_VALUE
               /\ \E half \in Halves : obs.token =
                    [root |-> obs.regs[half].root, ttbr |-> half, asid |-> obs.regs[half].asid,
                     mair |-> {obs.regs.MAIR}, tcr |-> {obs.regs.TCR}, sctlr |-> {obs.regs.SCTLR}]
            Call == /\ call.kind = "activate" => A64Token(call.token) /\ A64Due(call.token)
                    /\ call.kind = "write" => todo = <<>> \/ \E w \in DirectWrites : todo = <<w>> /\ A64Fine(w)
<1>1. fmt \in Formats /\ A64Core /\ Obs /\ Call /\ UNCHANGED fmt /\ (reg # Off => HasRegs(reg))
  BY StepKinds DEF ActInv, A64Inv
<1>2. A64Core' /\ Obs' /\ Call' => A64Inv'
  BY DEF A64Inv
<1>3. UNCHANGED obs => Obs'
  BY <1>1 DEF A64Regs, Known
<1>4. call = NoCall => call.kind = "none" /\ (UNCHANGED call => Call')
  BY DEF NoCall
<1>5. DirectWrites' = DirectWrites /\ \A t : A64Token(t)' = A64Token(t)
  BY <1>1, SameArch, SameHardware DEF A64Token, Known
<1>. HIDE DEF Obs, Call
<1>6. ASSUME NEW t, activate(t), t \in Tokens \/ (obs # NoObs /\ t = obs.token)
      PROVE  A64Inv' /\ ~fault'
  <2>1. /\ reg # Off /\ UNCHANGED <<reg, tlb, obs, fault, walk_mair>> /\ call'.kind = "activate" /\ call'.token = t
        /\ install(t.root) = "ok"
    BY <1>6 DEF activate, Enter, Idle
  <2>2. A64Token(t)
    <3>1. CASE t \in Tokens
      BY <2>1, <3>1 DEF Tokens, A64Tokens, Options, A64Token, Known
    <3>2. CASE obs # NoObs /\ t = obs.token
      <4>1. PICK half \in Halves : t =
              [root |-> obs.regs[half].root, ttbr |-> half, asid |-> obs.regs[half].asid,
               mair |-> {obs.regs.MAIR}, tcr |-> {obs.regs.TCR}, sctlr |-> {obs.regs.SCTLR}]
        BY <1>1, <3>2 DEF Obs
      <4>2. /\ t.root = obs.regs[half].root /\ t.ttbr = half /\ t.mair = {obs.regs.MAIR}
            /\ t.sctlr = {obs.regs.SCTLR}
        BY <4>1
      <4>3. Known(t.root) /\ obs.regs.SCTLR = TRUE /\ obs.regs.MAIR = A64_MAIR_EL1_VALUE
        BY <1>1, <3>2, <4>2 DEF Obs, A64Regs
      <4>. QED  BY <2>1, <4>2, <4>3 DEF A64Token
    <3>. QED  BY <1>6, <3>1, <3>2
  <2>3. A64Due(t)' /\ A64Token(t)'
    BY <1>1, <1>5, <1>6, <2>1, <2>2, A64Activate
  <2>4. Call'
    BY <2>1, <2>3 DEF Call
  <2>. QED  BY <1>1, <1>2, <1>3, <2>1, <2>4, A64CoreSame
<1>7. ASSUME NEW w \in DirectWrites, write(w)
      PROVE  A64Inv' /\ ~fault'
  <2>1. /\ reg # Off /\ UNCHANGED <<reg, tlb, obs, fault, walk_mair>> /\ call'.kind = "write" /\ todo' = <<w>>
    BY <1>7 DEF write, Enter, Idle
  <2>2. A64Fine(w)
    BY <1>1, <1>7, <2>1, A64Direct
  <2>3. A64Fine(w)'
    BY <1>1, <2>1, <2>2, SameHardware DEF A64Fine, Known, Owned
  <2>4. Call'
    BY <1>1, <1>5, <2>1, <2>3 DEF Call
  <2>. QED  BY <1>1, <1>2, <1>3, <2>1, <2>4, A64CoreSame
<1>8. CASE WriteRegister
  <2>1. /\ call # NoCall /\ reg # Off /\ todo # <<>> /\ Execute(Head(todo)) /\ todo' = Tail(todo)
        /\ UNCHANGED <<call, obs>>
    BY <1>8 DEF WriteRegister, ActInv
  <2>2. CASE call.kind = "activate"
    <3>1. PICK t : t = call.token
      OBVIOUS
    <3>2. A64Token(t) /\ A64Due(t)
      BY <1>1, <2>2, <3>1 DEF Call
    <3>3. UNCHANGED fault /\ A64Core' /\ A64Due(t)' /\ A64Token(t)'
      BY <1>1, <1>5, <2>1, <3>2, A64DueStep
    <3>4. Call'
      BY <2>1, <2>2, <3>1, <3>3 DEF Call
    <3>. QED  BY <1>2, <1>3, <2>1, <3>3, <3>4
  <2>3. CASE call.kind = "write"
    <3>1. PICK w \in DirectWrites : todo = <<w>> /\ A64Fine(w)
      BY <1>1, <2>1, <2>3 DEF Call
    <3>2. Head(todo) = w /\ Tail(todo) = <<>>
      BY <3>1
    <3>3. UNCHANGED fault /\ A64Core'
      BY <1>1, <2>1, <3>1, <3>2, A64Writes
    <3>4. Call'
      BY <2>1, <2>3, <3>2 DEF Call
    <3>. QED  BY <1>2, <1>3, <2>1, <3>3, <3>4
  <2>. QED  BY <2>1, <2>2, <2>3 DEF ActInv
<1>9. CASE Return
  <2>1. UNCHANGED <<reg, tlb, obs, fault, walk_mair>> /\ call' = NoCall
    BY <1>9 DEF Return
  <2>2. Call'
    BY <2>1 DEF Call, NoCall
  <2>. QED  BY <1>1, <1>2, <1>3, <2>1, <2>2, A64CoreSame
<1>10. ASSUME NEW half \in CurrentTtbr, Observe(half)
       PROVE  A64Inv' /\ ~fault'
  <2>1. /\ UNCHANGED <<reg, tlb, call, fault, walk_mair>> /\ call = NoCall /\ reg # Off /\ reg.SCTLR
        /\ obs' = [token |-> A64Current(half), regs |-> reg] /\ half \in Halves
    BY <1>1, <1>10, A64Hardware, ActivationAssumption DEF Observe, Idle, current, Halves
  <2>2. A64Regs(reg) /\ reg.MAIR = A64_MAIR_EL1_VALUE
    BY <1>1, <2>1 DEF A64Core
  <2>3. obs'.regs = reg /\ obs'.token = A64Current(half)
    BY <2>1
  <2>4. Obs'
    <3>1. A64Regs(obs'.regs) /\ obs'.regs.SCTLR /\ obs'.regs.MAIR = A64_MAIR_EL1_VALUE
      BY <2>1, <2>2, <2>3
    <3>. QED  BY <2>1, <2>3, <3>1 DEF Obs, A64Current, A64Regs, Known
  <2>. QED  BY <1>1, <1>2, <1>4, <2>1, <2>4, A64CoreSame
<1>11. ASSUME NEW root \in Roots, Interrupt(root), call = NoCall
       PROVE  A64Inv' /\ ~fault'
  <2>1. UNCHANGED <<call, obs>> /\ reg # Off
    BY <1>11 DEF Interrupt
  <2>2. UNCHANGED fault /\ A64Core'
    BY <1>1, <1>11, <2>1, A64Interrupt
  <2>. QED  BY <1>2, <1>3, <1>4, <1>11, <2>1, <2>2
<1>12. ASSUME NEW tag, Invalidate(tag)
       PROVE  A64Inv' /\ ~fault'
  <2>1. UNCHANGED <<call, obs, fault>> /\ call = NoCall /\ reg # Off
    BY <1>12 DEF Invalidate, Idle
  <2>. QED  BY <1>1, <1>2, <1>3, <1>4, <1>12, <2>1, A64Invalidate
<1>13. CASE install_a64_mair_el1
  <2>1. /\ UNCHANGED <<tlb, call, obs, fault>> /\ call = NoCall /\ reg # Off
        /\ reg' = [reg EXCEPT !.MAIR = A64_MAIR_EL1_VALUE] /\ walk_mair' = A64_MAIR_EL1_VALUE
    BY <1>13 DEF install_a64_mair_el1, Idle
  <2>2. DOMAIN reg = A64Names
    BY <1>1, <2>1, A64Hardware
  <2>3. /\ reg'.SCTLR = reg.SCTLR /\ reg'.TCR = reg.TCR /\ reg'.MAIR = A64_MAIR_EL1_VALUE
        /\ \A h \in Halves : reg'[h] = reg[h]
    BY <2>1, <2>2 DEF A64Names, Halves
  <2>4. A64Core'
    <3>1. A64Regs(reg')
      BY <1>1, <2>1, <2>3 DEF A64Core, A64Regs
    <3>2. reg' # Off
      <4>1. DOMAIN reg' = DOMAIN reg /\ "off" \notin DOMAIN reg
        BY <2>1, <2>2 DEF A64Names
      <4>. QED  BY <4>1 DEF Off
    <3>. QED  BY <1>1, <2>1, <2>3, <3>1, <3>2 DEF A64Core, A64Regs, Known, Owned
  <2>. QED  BY <1>2, <1>3, <1>4, <2>1, <2>4
<1>14. CASE Boot /\ call = NoCall
  <2>1. reg = Off /\ UNCHANGED <<tlb, call, obs, fault>>
        /\ reg' = [MAIR |-> MairReset, TCR |-> 0, SCTLR |-> FALSE,
                   TTBR0 |-> [root |-> NoRoot, asid |-> 0], TTBR1 |-> [root |-> NoRoot, asid |-> 0]]
    BY <1>14 DEF Boot, PowerOn
  <2>2. reg'.SCTLR = FALSE /\ \A h \in Halves : reg'[h] = [root |-> NoRoot, asid |-> 0]
    BY <2>1 DEF Halves
  <2>3. tlb' = {}
    BY <1>1, <2>1 DEF A64Core
  <2>4. A64Regs(reg')
    <3>1. \A h \in Halves : reg'[h].root = NoRoot /\ reg'[h] = [root |-> reg'[h].root, asid |-> reg'[h].asid]
      BY <2>2
    <3>. QED  BY <2>2, <3>1 DEF A64Regs, Known
  <2>5. A64Core'
    BY <2>2, <2>3, <2>4 DEF A64Core, A64Regs, Known
  <2>. QED  BY <1>2, <1>3, <1>4, <1>14, <2>1, <2>5
<1>15. CASE Kept6
  <2>1. \A w : A64Fine(w)' = A64Fine(w)
    BY <1>1, <1>15, SameHardware DEF Kept6, A64Fine, Known, Owned
  <2>2. \A t : A64Due(t)' = A64Due(t)
    BY <1>15 DEF Kept6, A64Due, Owned, A64FromMair, A64FromTcr, A64FromTtbr, A64FromSctlr, A64Ttbr
  <2>3. Call'
    BY <1>1, <1>5, <1>15, <2>1, <2>2 DEF Call, Kept6
  <2>. QED  BY <1>1, <1>2, <1>3, <1>15, <2>3, A64CoreSame DEF Kept6
<1>16. CASE install_x86_pat
  BY <1>16 DEF install_x86_pat
<1>. QED  BY <1>6, <1>7, <1>8, <1>9, <1>10, <1>11, <1>12, <1>13, <1>14, <1>15, <1>16, StepKinds

-------------------------------------------------------------------------------
(* RISC-V. *)

LEMMA Rv64Hardware ==
  ASSUME fmt \in Formats, Arch = "riscv64"
  PROVE  /\ RegNames = {"satp"} /\ DirectWrites = {}
         /\ \A r : MmuOn(r) = (r.satp.mode # 0) /\ ShapeInForce(r) = r.satp.mode
         /\ \A r : Contexts(r) = {[tag |-> r.satp.asid, root |-> r.satp.root]}
         /\ \A r : HasRegs(r) => DOMAIN r = {"satp"} /\ r # Off
<1>1. RegNames = {"satp"} /\ DirectWrites = {}
  BY DEF RegNames, DirectWrites
<1>2. \A r : HasRegs(r) => DOMAIN r = RegNames /\ r # Off
  BY RegsOn DEF HasRegs
<1>. QED  BY <1>1, <1>2 DEF MmuOn, Contexts, ShapeInForce

\* A write of satp that is legal, followed by the fence unless the tag is the root's own.
LEMMA Rv64WriteSatp ==
  ASSUME fmt \in Formats, Arch = "riscv64", HasRegs(reg), Rv64Core, UNCHANGED fmt,
         NEW mode \in SupportedModes, NEW asid, NEW root, Known(root), install(root) = "ok",
         mode # 0 => root # NoRoot /\ root.shape = mode,
         todo' # Fence => Owned(asid, root),
         Execute([reg |-> "satp", value |-> [mode |-> mode, asid |-> asid, root |-> root]])
  PROVE  UNCHANGED fault /\ Rv64Core'
<1>. DEFINE v == [mode |-> mode, asid |-> asid, root |-> root]
            w == [reg |-> "satp", value |-> v]
<1>1. ~Refuses(w) /\ Surviving(w) = tlb
  BY DEF Refuses, Surviving
<1>2. RegAfter(w) = [reg EXCEPT !.satp = v]
  <2>1. [w.value EXCEPT !.root = Encoded(@)] = v /\ w.value.mode = mode
    BY DEF Encoded
  <2>2. RegAfter(w) = [reg EXCEPT !.satp = [w.value EXCEPT !.root = Encoded(@)]]
    BY <2>1 DEF RegAfter, Halves
  <2>. QED  BY <2>1, <2>2
<1>3. DOMAIN reg = {"satp"} /\ reg # Off
  BY Rv64Hardware
<1>4. /\ reg' = [reg EXCEPT !.satp = v] /\ UNCHANGED fault
      /\ tlb' = tlb \cup (IF MmuOn(reg') THEN Contexts(reg') ELSE {})
  BY <1>1, <1>2 DEF Execute, v, w
<1>5. v.mode = mode /\ v.asid = asid /\ v.root = root
  OBVIOUS
<1>. HIDE DEF v, w
<1>6. reg'.satp = v
  BY <1>3, <1>4
<1>7. tlb' \subseteq tlb \cup {[tag |-> asid, root |-> root]}
  BY <1>4, <1>5, <1>6, Rv64Hardware
<1>8. Rv64Regs(reg')
  BY <1>5, <1>6 DEF Rv64Regs, v
<1>9. todo' # Fence => Owned(asid, root)'
  BY <1>7 DEF Owned
<1>10. Rv64Core'
  BY <1>5, <1>6, <1>8, <1>9 DEF Rv64Core, Rv64Regs, Known, Fence
<1>. QED  BY <1>4, <1>10

LEMMA Rv64WriteFence ==
  ASSUME fmt \in Formats, Arch = "riscv64", HasRegs(reg), Rv64Core, Execute([reg |-> "fence"])
  PROVE  UNCHANGED fault /\ Rv64Core'
<1>. DEFINE w == [reg |-> "fence"]
<1>1. ~Refuses(w) /\ Surviving(w) = {} /\ RegAfter(w) = reg
  BY DEF Refuses, Surviving, RegAfter, Halves
<1>2. UNCHANGED <<reg, fault>> /\ tlb' = (IF MmuOn(reg') THEN Contexts(reg') ELSE {})
  BY <1>1 DEF Execute
<1>3. tlb' \subseteq {[tag |-> reg.satp.asid, root |-> reg.satp.root]}
  BY <1>2, Rv64Hardware
<1>4. Rv64Core'
  BY <1>2, <1>3 DEF Rv64Core, Rv64Regs, Known, Owned, Fence
<1>. QED  BY <1>2, <1>4

LEMMA Rv64DueStep ==
  ASSUME fmt \in Formats, Arch = "riscv64", HasRegs(reg), Rv64Core, NEW t, Rv64Token(t), Rv64Due(t),
         todo # <<>>, Execute(Head(todo)), todo' = Tail(todo), UNCHANGED fmt
  PROVE  UNCHANGED fault /\ Rv64Core' /\ Rv64Due(t)'
<1>. DEFINE S == Writes(t)
            w == [reg |-> "satp", value |-> [mode |-> t.mode, asid |-> t.asid, root |-> t.root]]
            f == [reg |-> "fence"]
            F == Rv64FromFence(t)
<1>1. w \in S /\ F \in Seq(S) /\ Satp(t) = <<w>>
  <2>1. S = {w, f} /\ Satp(t) = <<w>> /\ F = (IF t.fence_after THEN <<f>> ELSE <<>>)
    BY DEF Writes, Rv64FromFence, Fence, Satp
  <2>. HIDE DEF S, w, f, F
  <2>2. <<f>> \in Seq(S) /\ <<>> \in Seq(S)
    BY <2>1
  <2>. QED  BY <2>1, <2>2
<1>2. Head(<<w>> \o F) = w /\ Tail(<<w>> \o F) = F
  <2>. HIDE DEF S, w, F
  <2>. QED  BY <1>1, Prefixed
<1>3. CASE todo = Satp(t) \o F /\ (t.fence_after \/ Owned(t.asid, t.root))
  <2>1. Execute(w) /\ todo' = F
    BY <1>1, <1>2, <1>3
  <2>2. todo' # Fence => Owned(t.asid, t.root)
    BY <1>3, <2>1 DEF Rv64FromFence
  <2>3. UNCHANGED fault /\ Rv64Core'
    <3>1. /\ t.mode \in SupportedModes /\ Known(t.root) /\ install(t.root) = "ok"
          /\ t.mode # 0 => t.root # NoRoot /\ t.root.shape = t.mode
      BY DEF Rv64Due, Rv64Token
    <3>. QED  BY <2>1, <2>2, <3>1, Rv64WriteSatp
  <2>4. Rv64Due(t)'
    BY <2>1 DEF Rv64Due, Rv64FromFence, Fence
  <2>. QED  BY <2>3, <2>4
<1>4. CASE todo = F
  <2>1. todo = <<f>>
    BY <1>4 DEF Rv64FromFence, Fence
  <2>2. Head(todo) = f /\ todo' = <<>>
    BY <2>1
  <2>3. UNCHANGED fault /\ Rv64Core'
    BY <2>2, Rv64WriteFence
  <2>4. Rv64Due(t)'
    BY <2>2 DEF Rv64Due
  <2>. QED  BY <2>3, <2>4
<1>. QED  BY <1>3, <1>4 DEF Rv64Due

LEMMA Rv64Legal ==
  ASSUME fmt \in Formats, Arch = "riscv64", NEW r, LegalResult(r), NEW mode, NEW asid, NEW root,
         r.satp = [mode |-> mode, asid |-> asid, root |-> root]
  PROVE  /\ mode \in SupportedModes /\ (mode # 0 => root # NoRoot /\ root.shape = mode)
         /\ Contexts(r) = {[tag |-> asid, root |-> root]}
<1>1. r.satp.mode = mode /\ r.satp.asid = asid /\ r.satp.root = root
  OBVIOUS
<1>2. /\ MmuOn(r) = (mode # 0) /\ ShapeInForce(r) = mode
      /\ Contexts(r) = {[tag |-> asid, root |-> root]}
  BY <1>1, Rv64Hardware
<1>. DEFINE c == [tag |-> asid, root |-> root]
<1>3. c \in Contexts(r) /\ c.root = root
  BY <1>2
<1>. HIDE DEF c
<1>4. mode # 0 => c.root # NoRoot /\ c.root.shape = ShapeInForce(r)
  BY <1>2, <1>3, Zenon DEF LegalResult
<1>5. r.satp.mode \in SupportedModes
  BY Zenon DEF LegalResult
<1>. QED  BY <1>1, <1>2, <1>3, <1>4, <1>5

LEMMA Rv64Activate ==
  ASSUME fmt \in Formats, Arch = "riscv64", HasRegs(reg), NEW t, activate(t), UNCHANGED fmt
  PROVE  Rv64Due(t)'
<1>. DEFINE r == Result(t)
<1>1. /\ LegalResult(r) /\ (t.fence_after \/ Owned(t.asid, t.root))
      /\ UNCHANGED <<reg, tlb>> /\ todo' = Satp(t) \o Rv64FromFence(t)
  BY DEF activate, Legal, Enter, Program, Rv64Program, Rv64FromFence, Fence
<1>2. r.satp = [mode |-> t.mode, asid |-> t.asid, root |-> t.root]
  <2>1. DOMAIN reg = {"satp"}
    BY Rv64Hardware
  <2>. QED  BY <2>1 DEF Result, Target, Halves
<1>. HIDE DEF r
<1>4. t.mode \in SupportedModes /\ (t.mode # 0 => t.root # NoRoot /\ t.root.shape = t.mode)
  BY <1>1, <1>2, Rv64Legal
<1>5. Owned(t.asid, t.root) => Owned(t.asid, t.root)'
  BY <1>1 DEF Owned
<1>. QED  BY <1>1, <1>4, <1>5 DEF Rv64Due, Satp, Rv64FromFence, Fence

LEMMA Rv64Interrupt ==
  ASSUME fmt \in Formats, Arch = "riscv64", HasRegs(reg), Rv64Core, NEW root \in Roots, Interrupt(root), UNCHANGED fmt
  PROVE  UNCHANGED fault /\ Rv64Core'
<1>. DEFINE mode == reg.satp.mode
            asid == reg.satp.asid
            v == [mode |-> mode, asid |-> asid, root |-> root]
            w == [reg |-> "satp", value |-> v]
            r == RegAfter(w)
<1>1. DOMAIN reg = {"satp"} /\ reg # Off
  BY Rv64Hardware
<1>2. reg.satp = [mode |-> mode, asid |-> asid, root |-> reg.satp.root] /\ mode \in SupportedModes
  BY <1>1 DEF Rv64Core, Rv64Regs
<1>3. [reg.satp EXCEPT !.root = root] = v
  <2>. DEFINE s == reg.satp
              old == s.root
  <2>1. s = [mode |-> mode, asid |-> asid, root |-> old]
    BY <1>2
  <2>. HIDE DEF mode, asid, s, old
  <2>2. [s EXCEPT !.root = root] = [mode |-> mode, asid |-> asid, root |-> root]
    BY <2>1
  <2>. QED  BY <2>2 DEF s
<1>4. /\ install(root) = "ok" /\ LegalResult(r) /\ (\A c \in Contexts(r) : Owned(c.tag, c.root)) /\ Execute(w)
      /\ UNCHANGED todo
  BY <1>3 DEF Interrupt
<1>5. r = [reg EXCEPT !.satp = v]
  <2>1. [w.value EXCEPT !.root = Encoded(@)] = v /\ w.value.mode = mode
    BY <1>4 DEF Encoded
  <2>2. RegAfter(w) = [reg EXCEPT !.satp = [w.value EXCEPT !.root = Encoded(@)]]
    BY <1>2, <2>1 DEF RegAfter, Halves
  <2>. QED  BY <2>1, <2>2
<1>6. r.satp = v
  BY <1>1, <1>5
<1>. HIDE DEF r
<1>7. (mode # 0 => root # NoRoot /\ root.shape = mode) /\ Contexts(r) = {[tag |-> asid, root |-> root]}
  BY <1>4, <1>6, Rv64Legal
<1>8. Owned(asid, root)
  <2>. DEFINE c == [tag |-> asid, root |-> root]
  <2>1. c \in Contexts(r) /\ c.tag = asid /\ c.root = root
    BY <1>7
  <2>. HIDE DEF c
  <2>. QED  BY <1>4, <2>1
<1>. HIDE DEF mode, asid
<1>. QED  BY <1>2, <1>4, <1>7, <1>8, Rv64WriteSatp DEF Known

LEMMA Rv64CoreSame == Rv64Core /\ UNCHANGED <<reg, tlb>> /\ (todo # Fence \/ UNCHANGED todo) => Rv64Core'
BY DEF Rv64Core, Rv64Regs, Known, Owned, Fence

LEMMA Rv64Invalidate ==
  ASSUME fmt \in Formats, Arch = "riscv64", Rv64Core, NEW tag, Invalidate(tag)
  PROVE  Rv64Core'
<1>1. /\ UNCHANGED <<reg, todo>> /\ reg # Off
      /\ tlb' = {t \in tlb : t.tag # tag} \cup (IF MmuOn(reg) THEN Contexts(reg) ELSE {})
  BY DEF Invalidate, Idle
<1>2. tlb' \subseteq tlb \cup {[tag |-> reg.satp.asid, root |-> reg.satp.root]}
  BY <1>1, Rv64Hardware
<1>3. Owned(reg.satp.asid, reg.satp.root) => Owned(reg.satp.asid, reg.satp.root)'
  BY <1>1, <1>2 DEF Owned
<1>. QED  BY <1>1, <1>3 DEF Rv64Core, Rv64Regs, Known

LEMMA Rv64Step ==
  ASSUME ActInv, ~fault, call = NoCall => todo = <<>>, Arch = "riscv64", Rv64Inv, [Next]_avars
  PROVE  Rv64Inv' /\ ~fault'
<1>. DEFINE Obs == obs # NoObs => Rv64Regs(obs.regs) /\ obs.token =
               [root |-> obs.regs.satp.root, mode |-> obs.regs.satp.mode, asid |-> obs.regs.satp.asid,
                fence_after |-> TRUE]
            Call == call.kind = "activate" => Rv64Token(call.token) /\ Rv64Due(call.token)
<1>1. fmt \in Formats /\ Rv64Core /\ Obs /\ Call /\ UNCHANGED fmt /\ (reg # Off => HasRegs(reg))
  BY StepKinds DEF ActInv, Rv64Inv
<1>2. Rv64Core' /\ Obs' /\ Call' => Rv64Inv'
  BY DEF Rv64Inv
<1>3. UNCHANGED obs => Obs'
  BY <1>1 DEF Rv64Regs, Known
<1>4. call = NoCall => call.kind = "none" /\ (UNCHANGED call => Call') /\ todo # Fence
  BY DEF NoCall, Fence
<1>5. \A t : Rv64Token(t)' = Rv64Token(t)
  BY <1>1, SameHardware DEF Rv64Token, Known
<1>. HIDE DEF Obs, Call
<1>6. ASSUME NEW t, activate(t), t \in Tokens \/ (obs # NoObs /\ t = obs.token)
      PROVE  Rv64Inv' /\ ~fault'
  <2>1. /\ reg # Off /\ UNCHANGED <<reg, tlb, obs, fault>> /\ call'.kind = "activate" /\ call'.token = t
        /\ install(t.root) = "ok" /\ call = NoCall
    BY <1>6 DEF activate, Enter, Idle
  <2>2. Rv64Token(t)
    <3>1. CASE t \in Tokens
      BY <2>1, <3>1 DEF Tokens, Rv64Tokens, Rv64Token, Known
    <3>2. CASE obs # NoObs /\ t = obs.token
      <4>1. t.root = obs.regs.satp.root /\ t.fence_after = TRUE /\ Rv64Regs(obs.regs)
        BY <1>1, <3>2 DEF Obs
      <4>. QED  BY <2>1, <4>1 DEF Rv64Token, Rv64Regs
    <3>. QED  BY <1>6, <3>1, <3>2
  <2>3. Rv64Due(t)' /\ Rv64Token(t)'
    BY <1>1, <1>5, <1>6, <2>1, <2>2, Rv64Activate
  <2>4. Call'
    BY <2>1, <2>3 DEF Call
  <2>. QED  BY <1>1, <1>2, <1>3, <1>4, <2>1, <2>4, Rv64CoreSame
<1>7. ASSUME NEW w \in DirectWrites
      PROVE  FALSE
  BY <1>1, <1>7, Rv64Hardware
<1>8. CASE WriteRegister
  <2>1. /\ call # NoCall /\ reg # Off /\ todo # <<>> /\ Execute(Head(todo)) /\ todo' = Tail(todo)
        /\ UNCHANGED <<call, obs>>
    BY <1>8 DEF WriteRegister, ActInv
  <2>2. CASE call.kind = "activate"
    <3>1. PICK t : t = call.token
      OBVIOUS
    <3>2. Rv64Token(t) /\ Rv64Due(t)
      BY <1>1, <2>2, <3>1 DEF Call
    <3>3. UNCHANGED fault /\ Rv64Core' /\ Rv64Due(t)' /\ Rv64Token(t)'
      BY <1>1, <1>5, <2>1, <3>2, Rv64DueStep
    <3>4. Call'
      BY <2>1, <2>2, <3>1, <3>3 DEF Call
    <3>. QED  BY <1>2, <1>3, <2>1, <3>3, <3>4
  <2>3. CASE call.kind = "write"
    <3>1. Head(todo) \in DirectWrites
      BY <2>1, <2>3, HeadTailProperties DEF ActInv
    <3>. QED  BY <1>7, <3>1
  <2>. QED  BY <2>1, <2>2, <2>3 DEF ActInv
<1>9. CASE Return
  <2>1. UNCHANGED <<reg, tlb, todo, obs, fault>> /\ call' = NoCall
    BY <1>9 DEF Return
  <2>2. Call'
    BY <2>1 DEF Call, NoCall
  <2>. QED  BY <1>1, <1>2, <1>3, <2>1, <2>2, Rv64CoreSame
<1>10. ASSUME NEW half \in CurrentTtbr, Observe(half)
       PROVE  Rv64Inv' /\ ~fault'
  <2>1. /\ UNCHANGED <<reg, tlb, call, todo, fault>> /\ call = NoCall /\ reg # Off
        /\ obs' = [token |-> Rv64Current, regs |-> reg]
    BY <1>10 DEF Observe, Idle, current
  <2>2. Rv64Regs(reg)
    BY <1>1, <2>1 DEF Rv64Core
  <2>3. obs'.regs = reg /\ obs'.token = Rv64Current
    BY <2>1
  <2>4. Obs'
    <3>1. Rv64Regs(obs'.regs)
      BY <2>2, <2>3
    <3>. QED  BY <2>3, <3>1 DEF Obs, Rv64Current, Rv64Regs, Known
  <2>. QED  BY <1>1, <1>2, <1>4, <2>1, <2>4, Rv64CoreSame
<1>11. ASSUME NEW root \in Roots, Interrupt(root), call = NoCall
       PROVE  Rv64Inv' /\ ~fault'
  <2>1. UNCHANGED <<call, obs>> /\ reg # Off
    BY <1>11 DEF Interrupt
  <2>2. UNCHANGED fault /\ Rv64Core'
    BY <1>1, <1>11, <2>1, Rv64Interrupt
  <2>. QED  BY <1>2, <1>3, <1>4, <1>11, <2>1, <2>2
<1>12. ASSUME NEW tag, Invalidate(tag)
       PROVE  Rv64Inv' /\ ~fault'
  <2>1. UNCHANGED <<call, obs, fault>> /\ call = NoCall
    BY <1>12 DEF Invalidate, Idle
  <2>. QED  BY <1>1, <1>2, <1>3, <1>4, <1>12, <2>1, Rv64Invalidate
<1>14. CASE Boot /\ call = NoCall
  <2>1. reg = Off /\ UNCHANGED <<tlb, call, obs, fault>>
        /\ reg' = [satp |-> [mode |-> 0, asid |-> 0, root |-> NoRoot]]
    BY <1>14 DEF Boot, PowerOn
  <2>2. /\ reg'.satp = [mode |-> 0, asid |-> 0, root |-> NoRoot] /\ reg'.satp.mode = 0
        /\ reg'.satp.asid = 0 /\ reg'.satp.root = NoRoot
    BY <2>1
  <2>3. Rv64Core'
    BY <2>2, ActivationAssumption DEF Rv64Core, Rv64Regs, Known
  <2>. QED  BY <1>2, <1>3, <1>4, <1>14, <2>1, <2>3
<1>15. CASE Kept6
  <2>1. \A t : Rv64Due(t)' = Rv64Due(t)
    BY <1>15 DEF Kept6, Rv64Due, Owned, Satp, Rv64FromFence, Fence
  <2>2. Call'
    BY <1>1, <1>5, <1>15, <2>1 DEF Call, Kept6
  <2>. QED  BY <1>1, <1>2, <1>3, <1>15, <2>2, Rv64CoreSame DEF Kept6
<1>16. CASE install_x86_pat \/ install_a64_mair_el1
  BY <1>16 DEF install_x86_pat, install_a64_mair_el1
<1>. QED  BY <1>6, <1>7, <1>8, <1>9, <1>10, <1>11, <1>12, <1>14, <1>15, <1>16, StepKinds

-------------------------------------------------------------------------------

LEMMA SafeInit == Init => SafeInv
<1>. SUFFICES ASSUME Init PROVE SafeInv
  OBVIOUS
<1>1. ActInv /\ reg = Off /\ tlb = {} /\ call = NoCall /\ todo = <<>> /\ obs = NoObs /\ ~fault
  BY ActInit DEF Init
<1>2. call.kind = "none"
  BY <1>1 DEF NoCall
<1>. QED  BY <1>1, <1>2 DEF SafeInv, X86Inv, X86Core, A64Inv, A64Core, Rv64Inv, Rv64Core

LEMMA SafeStep == SafeInv /\ [Next]_avars => SafeInv'
<1>. SUFFICES ASSUME SafeInv, [Next]_avars PROVE SafeInv'
  OBVIOUS
<1>1. ActInv /\ ~fault /\ (call = NoCall => todo = <<>>)
  BY DEF SafeInv
<1>2. ActInv' /\ (call = NoCall => todo = <<>>)' /\ UNCHANGED fmt
  BY <1>1, ActStep, IdleStep, StepKinds
<1>3. Arch' = Arch /\ Arch \in {"x86_64", "aarch64", "riscv64"}
  BY <1>1, <1>2, SameArch, Archs DEF ActInv
<1>4. CASE Arch = "x86_64"
  <2>1. X86Inv' /\ ~fault'
    BY <1>1, <1>4, X86Step DEF SafeInv
  <2>. QED  BY <1>2, <1>3, <1>4, <2>1 DEF SafeInv
<1>5. CASE Arch = "aarch64"
  <2>1. A64Inv' /\ ~fault'
    BY <1>1, <1>5, A64Step DEF SafeInv
  <2>. QED  BY <1>2, <1>3, <1>5, <2>1 DEF SafeInv
<1>6. CASE Arch = "riscv64"
  <2>1. Rv64Inv' /\ ~fault'
    BY <1>1, <1>6, Rv64Step DEF SafeInv
  <2>. QED  BY <1>2, <1>3, <1>6, <2>1 DEF SafeInv
<1>. QED  BY <1>3, <1>4, <1>5, <1>6

LEMMA SafeInvHolds == Spec => []SafeInv
BY SafeInit, SafeStep, PTL DEF Spec
-------------------------------------------------------------------------------
(* What it is all for. *)

LEMMA SafeRunning ==
  ASSUME SafeInv, Running
  PROVE  /\ fmt \in Formats /\ HasRegs(reg)
         /\ Arch = "x86_64" => X86Core /\ reg.CR0
         /\ Arch = "aarch64" => A64Core /\ reg.SCTLR
         /\ Arch = "riscv64" => Rv64Core /\ reg.satp.mode # 0
BY X86Names, A64Hardware, Rv64Hardware DEF SafeInv, ActInv, Running, X86Inv, A64Inv, Rv64Inv

LEMMA SafeRoots == SafeInv => NoGarbageTranslation
<1>. SUFFICES ASSUME SafeInv, Running, NEW c \in Contexts(reg)
              PROVE  c.root \in Roots /\ c.root.shape = ShapeInForce(reg)
  BY DEF NoGarbageTranslation
<1>1. fmt \in Formats /\ reg # Off
  BY SafeRunning DEF Running
<1>2. CASE Arch = "x86_64"
  <2>1. c = [tag |-> X86Tag(reg), root |-> reg.CR3.root]
    BY <1>1, <1>2, X86Names
  <2>2. reg.CR3.root \in Roots /\ reg.CR3.root.shape = X86Shape(reg.CR4)
    BY <1>1, <1>2, SafeRunning DEF X86Core, X86Regs, Known
  <2>. QED  BY <1>1, <1>2, <2>1, <2>2, X86Names
<1>3. CASE Arch = "aarch64"
  <2>1. PICK h \in Halves : reg[h].root # NoRoot /\ c = A64Context(reg, h)
    BY <1>1, <1>3, A64Hardware
  <2>2. reg[h].root \in Roots /\ reg[h].root.shape = reg.TCR
    BY <1>1, <1>3, <2>1, SafeRunning DEF A64Core, A64Regs, Known
  <2>. QED  BY <1>1, <1>3, <2>1, <2>2, A64Hardware DEF A64Context
<1>4. CASE Arch = "riscv64"
  <2>1. c = [tag |-> reg.satp.asid, root |-> reg.satp.root]
    BY <1>1, <1>4, Rv64Hardware
  <2>2. reg.satp.root \in Roots /\ reg.satp.root.shape = reg.satp.mode
    BY <1>1, <1>4, SafeRunning DEF Rv64Core, Rv64Regs, Known
  <2>. QED  BY <1>1, <1>4, <2>1, <2>2, Rv64Hardware
<1>. QED  BY <1>1, <1>2, <1>3, <1>4, Archs

LEMMA SafeTranslations == SafeInv => TranslationsFromActiveRoot
<1>. SUFFICES ASSUME SafeInv, Running, call = NoCall, NEW c \in Contexts(reg)
              PROVE  Owned(c.tag, c.root)
  BY DEF TranslationsFromActiveRoot
<1>1. fmt \in Formats /\ reg # Off
  BY SafeRunning DEF Running
<1>2. CASE Arch = "x86_64"
  <2>1. c = [tag |-> X86Tag(reg), root |-> reg.CR3.root]
    BY <1>1, <1>2, X86Names
  <2>. QED  BY <1>1, <1>2, <2>1, SafeRunning DEF X86Core
<1>3. CASE Arch = "aarch64"
  <2>1. PICK h \in Halves : reg[h].root # NoRoot /\ c = A64Context(reg, h)
    BY <1>1, <1>3, A64Hardware
  <2>. QED  BY <1>1, <1>3, <2>1, SafeRunning DEF A64Core, A64Context
<1>4. CASE Arch = "riscv64"
  <2>1. c = [tag |-> reg.satp.asid, root |-> reg.satp.root]
    BY <1>1, <1>4, Rv64Hardware
  <2>2. todo # Fence
    BY DEF SafeInv, Fence
  <2>. QED  BY <1>1, <1>4, <2>1, <2>2, SafeRunning DEF Rv64Core
<1>. QED  BY <1>1, <1>2, <1>3, <1>4, Archs

\* A register holds the value that was read from it, once a token asks for it.
LEMMA AskedValue == \A v, x : Override({v}, x) = v
BY DEF Override

LEMMA Targets ==
  ASSUME NEW t, NEW x
  PROVE  /\ Target(t, "CR0", x) = Override(t.cr0, x) /\ Target(t, "CR4", x) = Override(t.cr4, x)
         /\ Target(t, "CR3", x) = [root |-> t.root, low |-> t.cr3.low]
         /\ Target(t, "MAIR", x) = Override(t.mair, x) /\ Target(t, "TCR", x) = Override(t.tcr, x)
         /\ Target(t, "SCTLR", x) = Override(t.sctlr, x)
<1>1. Target(t, "CR0", x) = Override(t.cr0, x)
  BY DEF Target, Halves
<1>2. Target(t, "CR4", x) = Override(t.cr4, x)
  BY DEF Target, Halves
<1>3. Target(t, "CR3", x) = [root |-> t.root, low |-> t.cr3.low]
  BY DEF Target, Halves
<1>4. Target(t, "MAIR", x) = Override(t.mair, x)
  BY DEF Target, Halves
<1>5. Target(t, "TCR", x) = Override(t.tcr, x)
  BY DEF Target, Halves
<1>6. Target(t, "SCTLR", x) = Override(t.sctlr, x)
  BY DEF Target, Halves
<1>. QED  BY <1>1, <1>2, <1>3, <1>4, <1>5, <1>6

LEMMA SafeRestores == SafeInv => RestoresObserved
<1>. SUFFICES ASSUME SafeInv, call.kind = "activate", obs # NoObs, todo = <<>>, ~fault, call.token = obs.token
              PROVE  Controlled(reg) = Controlled(obs.regs)
  BY DEF RestoresObserved
<1>. DEFINE t == call.token
            o == obs.regs
<1>1. /\ fmt \in Formats /\ HasRegs(reg) /\ reg = [n \in DOMAIN reg |-> Target(t, n, reg[n])]
      /\ Arch = "x86_64" => X86Inv
      /\ Arch = "aarch64" => A64Inv
      /\ Arch = "riscv64" => Rv64Inv
  BY NothingLeft DEF SafeInv, ActInv, ActiveRootIsToken, Result, NoCall
<1>2. t = obs.token
  OBVIOUS
<1>. HIDE DEF t, o
<1>3. CASE Arch = "x86_64"
  <2>1. X86Regs(o) /\ t = [root |-> o.CR3.root, cr0 |-> {o.CR0}, cr4 |-> {o.CR4},
          cr3 |-> [pcid |-> "PCIDE" \in o.CR4, low |-> o.CR3.low, preserve |-> FALSE]]
    BY <1>1, <1>2, <1>3 DEF X86Inv, o
  <2>2. t.root = o.CR3.root /\ t.cr0 = {o.CR0} /\ t.cr4 = {o.CR4} /\ t.cr3.low = o.CR3.low
    BY <2>1
  <2>3. DOMAIN reg = {"PAT", "CR0", "CR3", "CR4"}
    BY <1>1, <1>3, X86Names
  <2>4. /\ reg.CR0 = Target(t, "CR0", reg.CR0) /\ reg.CR4 = Target(t, "CR4", reg.CR4)
        /\ reg.CR3 = Target(t, "CR3", reg.CR3)
    BY <1>1, <2>3
  <2>5. reg.CR0 = o.CR0 /\ reg.CR4 = o.CR4
    <3>1. reg.CR0 = Override(t.cr0, reg.CR0) /\ reg.CR4 = Override(t.cr4, reg.CR4)
      BY <2>4, Targets
    <3>. QED  BY <2>2, <3>1, AskedValue
  <2>6. reg.CR3 = o.CR3
    <3>1. reg.CR3 = [root |-> t.root, low |-> t.cr3.low]
      BY <2>4, Targets
    <3>2. o.CR3 = [root |-> o.CR3.root, low |-> o.CR3.low]
      BY <2>1 DEF X86Regs
    <3>. QED  BY <2>2, <3>1, <3>2
  <2>. QED  BY <1>3, <2>5, <2>6 DEF Controlled, o
<1>4. CASE Arch = "aarch64"
  <2>1. PICK half \in Halves : t = [root |-> o[half].root, ttbr |-> half, asid |-> o[half].asid,
                                    mair |-> {o.MAIR}, tcr |-> {o.TCR}, sctlr |-> {o.SCTLR}]
    BY <1>1, <1>2, <1>4 DEF A64Inv, o
  <2>2. /\ t.root = o[half].root /\ t.ttbr = half /\ t.asid = o[half].asid /\ t.mair = {o.MAIR}
        /\ t.tcr = {o.TCR} /\ t.sctlr = {o.SCTLR}
    BY <2>1
  <2>3. DOMAIN reg = A64Names
    BY <1>1, <1>4, A64Hardware
  <2>4. /\ reg.MAIR = Target(t, "MAIR", reg.MAIR) /\ reg.TCR = Target(t, "TCR", reg.TCR)
        /\ reg.SCTLR = Target(t, "SCTLR", reg.SCTLR) /\ reg[half] = Target(t, half, reg[half])
    BY <1>1, <2>3 DEF A64Names, Halves
  <2>5. reg.MAIR = o.MAIR /\ reg.TCR = o.TCR /\ reg.SCTLR = o.SCTLR
    <3>1. /\ reg.MAIR = Override(t.mair, reg.MAIR) /\ reg.TCR = Override(t.tcr, reg.TCR)
          /\ reg.SCTLR = Override(t.sctlr, reg.SCTLR)
      BY <2>4, Targets
    <3>. QED  BY <2>2, <3>1, AskedValue
  <2>6. reg[half] = [root |-> t.root, asid |-> t.asid]
    BY <2>2, <2>4 DEF Target, Halves
  <2>7. o[half] = [root |-> o[half].root, asid |-> o[half].asid]
    BY <1>1, <1>4 DEF A64Inv, A64Regs, o
  <2>8. reg[t.ttbr] = o[t.ttbr]
    BY <2>2, <2>6, <2>7
  <2>. QED  BY <1>4, <2>5, <2>8 DEF Controlled, o, t
<1>5. CASE Arch = "riscv64"
  <2>1. Rv64Regs(o) /\ t = [root |-> o.satp.root, mode |-> o.satp.mode, asid |-> o.satp.asid, fence_after |-> TRUE]
    BY <1>1, <1>2, <1>5 DEF Rv64Inv, o
  <2>2. t.root = o.satp.root /\ t.mode = o.satp.mode /\ t.asid = o.satp.asid
    BY <2>1
  <2>3. DOMAIN reg = {"satp"}
    BY <1>1, <1>5, Rv64Hardware
  <2>4. reg.satp = Target(t, "satp", reg.satp)
    BY <1>1, <2>3
  <2>5. reg.satp = o.satp
    BY <2>1, <2>2, <2>4 DEF Target, Halves, Rv64Regs
  <2>. QED  BY <1>5, <2>5 DEF Controlled, o
<1>. QED  BY <1>1, <1>3, <1>4, <1>5, Archs

LEMMA SafeTypes == SafeInv => MemoryTypeInForce
<1>. SUFFICES ASSUME SafeInv, Running, NEW c \in Policies,
                     NEW mair, Arch = "aarch64" => mair \in {reg.MAIR, walk_mair},
                     ~(Arch = "x86_64" /\ c = "WriteCombine" /\ reg.PAT = PatReset)
              PROVE  HwType(new_leaf(0, [Plain EXCEPT !.cache = c], 1),
                            IF Arch = "x86_64" THEN reg.PAT ELSE <<>>, mair)
                       = Expressible(c)
  BY DEF MemoryTypeInForce
<1>. DEFINE fl == [access |-> {"READ"}, cache |-> c, share |-> "Inner"]
            size == leaf_size_at_level(fmt.meta, 1)
<1>1. [Plain EXCEPT !.cache = c] = fl /\ fl \in FlagTypes /\ fl.cache = c
  BY DEF Plain, FlagTypes, AllAccess
<1>2. fmt \in Formats /\ reg # Off
  BY SafeRunning DEF Running
<1>. HIDE DEF fl, size
<1>3. CASE Arch = "x86_64"
  <2>. DEFINE e == X86Leaf(0, fl, size)
  <2>1. e.index = X86PatIndex(c)
    BY <1>1, <1>2, <1>3, X86Reads
  <2>. HIDE DEF e
  <2>2. reg.PAT \in {PatReset, X86_PAT_MSR_VALUE}
    BY <1>2, <1>3, SafeRunning DEF X86Core, X86Regs
  <2>3. reg.PAT[e.index + 1] = c
    BY <1>3, <2>1, <2>2 DEF X86PatIndex, PatReset, X86_PAT_MSR_VALUE, Policies
  <2>. QED  BY <1>1, <1>3, <2>3 DEF HwType, new_leaf, Expressible, e, size
<1>4. CASE Arch = "aarch64"
  <2>1. A64_MAIR_EL1_VALUE[A64Leaf(0, fl, size).index + 1] = Expressible(c)
    BY <1>1, <1>2, <1>4, A64Reads
  <2>2. mair = A64_MAIR_EL1_VALUE
    BY <1>2, <1>4, SafeRunning DEF A64Core
  <2>. QED  BY <1>1, <1>4, <2>1, <2>2 DEF HwType, new_leaf, size
<1>5. CASE Arch = "riscv64"
  <2>1. Pbmt[Rv64Leaf(0, fl, fmt.svpbmt).index + 1] = Expressible(c)
    BY <1>1, <1>2, <1>5, Rv64Reads
  <2>. QED  BY <1>1, <1>5, <2>1 DEF HwType, new_leaf
<1>. QED  BY <1>2, <1>3, <1>4, <1>5, Archs

\* No write of a legal activation, and no legal direct write, is one the CPU refuses.
THEOREM NoWriteRefused == Spec => []NoFault
<1>1. SafeInv => NoFault
  BY DEF SafeInv, NoFault
<1>. QED  BY <1>1, SafeInvHolds, PTL

\* Between any two writes the CPU translates only through roots it can hold, read
\* with their own shape: every prefix of every program is a state to run in.
THEOREM RootsAreSound == Spec => []NoGarbageTranslation
BY SafeInvHolds, SafeRoots, PTL

\* Between calls nothing the CPU kept under the tags in use is of another root.
THEOREM TranslationsAreOfTheRoot == Spec => []TranslationsFromActiveRoot
BY SafeInvHolds, SafeTranslations, PTL

\* A token of current() brings back, when activated, the registers it was read from.
THEOREM ObservedComesBack == Spec => []RestoresObserved
BY SafeInvHolds, SafeRestores, PTL

\* While paging is on, each cache policy gives the memory type it names, but for
\* WriteCombine on x86-64 until PAT is installed; on AArch64 with the MAIR that is
\* written and with the one of the last barrier.
THEOREM MemoryTypesHold == Spec => []MemoryTypeInForce
BY SafeInvHolds, SafeTypes, PTL
===============================================================================

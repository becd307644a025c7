------------------------------ MODULE Emitter -------------------------------
(***************************************************************************)
(* emit_program, emit_node and finalize of the two emitters                *)
(* (crates/jit-aarch64, crates/jit-riscv), as compile() and                *)
(* compile_sized() run them on the lowered program: one step emits a label *)
(* or a node, and one step of finalize resolves a relocation.              *)
(*                                                                         *)
(* Offsets count instruction words, of four bytes on both targets.  A word *)
(* is a record [kind, imm, to, bb]: imm is the immediate field of a branch *)
(* ("cond" or "jump"), which a relocation patches; "jal" is the JAL that   *)
(* RISC-V takes for a conditional Ja.  The block the branch goes to (to)   *)
(* and the block the word belongs to (bb) are history.  How                *)
(* many words a node takes depends on operators and immediates that the    *)
(* model abstracts, so emitting chooses among the counts the code has.     *)
(***************************************************************************)
EXTENDS Lowering

(* The words a branch reaches backwards; forwards it is one less.  In the  *)
(* code 2^18 and 2^25 on AArch64, 2^10 and 2^18 on RISC-V.                 *)
CONSTANTS CondReach, JumpReach

ASSUME ReachAssumption ==
  CondReach \in [Targets -> Nat \ {0}] /\ JumpReach \in [Targets -> Nat \ {0}]

VARIABLES
  emission,    \* "waiting", "emitting", "done", or "refused"
  machine,     \* the Target compiled for
  eb, en,      \* the block emit_program is at, and the node; 0 is the label
  buf,         \* the words emitted
  bbOffsets,   \* bb_offsets: the offset of each block whose label is emitted
  relocations, \* the branches to patch, each [offset, target, kind]
  reloc        \* the relocation finalize resolves next

cvars == <<emission, machine, eb, en, buf, bbOffsets, relocations, reloc>>

----------------------------------------------------------------------------
(* How many words a node takes.                                            *)

(* Loading a sign-extended 32-bit immediate.                               *)
LoadImm32Words == [aarch64 |-> {1, 2, 4}, riscv64 |-> {1, 2}]

(* Arithmetic, by whether the second operand is a register.                *)
AluWords ==
  [aarch64 |-> [mov |-> [reg |-> {1},    imm |-> {1, 2, 4}],
                alu |-> [reg |-> {1, 2}, imm |-> 1 .. 6]],
   riscv64 |-> [mov |-> [reg |-> {1, 3}, imm |-> {1, 2, 4, 5}],
                alu |-> [reg |-> {1, 3}, imm |-> 1 .. 5]]]

(* The address goes to the scratch register, the operation stands between  *)
(* two barriers; a compare-exchange on RISC-V is a loop of four words.     *)
AtomicWords(i) ==
  IF machine = "riscv64" THEN (IF i.kind = "cmpxchg" THEN 7 ELSE 4)
  ELSE IF i.off = 0 THEN 4 ELSE IF i.off > 0 THEN 5 ELSE 8

OtherWords ==
  [aarch64 |-> [load |-> {1}, store |-> {1}, storeimm |-> {2, 3, 5}, ldimm |-> 1 .. 4,
                call |-> {1}, ret |-> {2}, endian |-> 0 .. 2,
                prologue |-> {5}, epilogue |-> {4}],
   riscv64 |-> [load |-> {1}, store |-> {1}, storeimm |-> {2, 3}, ldimm |-> 1 .. 6,
                call |-> {1}, ret |-> {1}, endian |-> {1},
                prologue |-> {9}, epilogue |-> {8}]]

WordCounts(x) ==
  IF x.op \in {"mov", "alu"}
  THEN AluWords[machine][x.op][IF x.src = NoReg THEN "imm" ELSE "reg"]
  ELSE IF x.op = "atomic" THEN {AtomicWords(At(prog, x.pc))}
  ELSE OtherWords[machine][x.op]

(* The dry run: a word for each label, and for each node the most words    *)
(* one expands to.                                                         *)
MAX_EXPANSION_RATIO == [aarch64 |-> 8, riscv64 |-> 10]
NodeIds == UNION {{<<k, n>> : n \in DOMAIN blocks[k].nodes} : k \in DOMAIN blocks}

\* Faulty: the expansion of a block counts once, not for each node.
BlocksTimesRatio == Len(blocks) * (1 + MAX_EXPANSION_RATIO[machine])
CalculateSize == Len(blocks) + Cardinality(NodeIds) * MAX_EXPANSION_RATIO[machine]

----------------------------------------------------------------------------
(* Emission.                                                               *)

Emitting == emission = "emitting" /\ eb <= Len(blocks)
AtNode(ops) == Emitting /\ en > 0 /\ blocks[eb].nodes[en].op \in ops
TheNode  == blocks[eb].nodes[en]

AdvanceEmission ==
  IF en < Len(blocks[eb].nodes) THEN eb' = eb /\ en' = en + 1 ELSE eb' = eb + 1 /\ en' = 0

Plain == [kind |-> "plain", imm |-> 0, to |-> 0]
Branch(k, t) == [kind |-> k, imm |-> 0, to |-> t]

(* n more words, the last of them w, in the block being emitted.           *)
Word(w) == [kind |-> w.kind, imm |-> w.imm, to |-> w.to, bb |-> blocks[eb].id]
Emit(n, w) ==
  buf' = [v \in 1 .. Len(buf) + n |->
            IF v <= Len(buf) THEN buf[v] ELSE Word(IF v = Len(buf) + n THEN w ELSE Plain)]

Relocation(o, t, k) == [offset |-> o, target |-> t, kind |-> k]

StartEmission ==
  /\ stage = "lowered" /\ emission = "waiting"
  /\ emission' = "emitting"
  /\ machine' \in Targets
  /\ UNCHANGED <<vvars, lvars, eb, en, buf, bbOffsets, relocations, reloc>>

EmitLabel ==
  /\ Emitting /\ en = 0
  /\ bbOffsets' = [b \in DOMAIN bbOffsets \cup {blocks[eb].id} |->
                     IF b = blocks[eb].id THEN Len(buf) ELSE bbOffsets[b]]
  /\ AdvanceEmission
  /\ UNCHANGED <<vvars, lvars, emission, machine, buf, relocations, reloc>>

EmitStraight ==
  /\ AtNode(IrOps \ {"branch", "jump"})
  /\ \E n \in WordCounts(TheNode) : Emit(n, Plain)
  /\ AdvanceEmission
  /\ UNCHANGED <<vvars, lvars, emission, machine, bbOffsets, relocations, reloc>>

(* The words before the branch word: the constant it compares with, and    *)
(* the comparison, which on RISC-V only Jset needs.                        *)
ConstantWords == IF TheNode.src = NoReg THEN LoadImm32Words[machine] ELSE {0}
TestWords     == IF machine = "aarch64" THEN {1} ELSE {0, 1}

\* Faulty: Jset's extra word is forgotten.
BranchOffsetBeforeTest(m, test) == Len(buf) + m
\* Faulty: the offset is taken after the branch is emitted.
BranchOffsetAfter(m, test) == Len(buf) + m + test + 1
BranchOffset(m, test) == Len(buf) + m + test

(* Which branch: RISC-V emits JAL for JmpOp::Ja, which a 32-bit branch can *)
(* have as its operation, and records it to be patched as a branch.        *)
BranchWords(test) == IF machine = "riscv64" /\ test = 0 THEN {"cond", "jal"} ELSE {"cond"}
RelocKind(kind)   == IF kind = "jal" THEN "cond" ELSE kind

EmitBranch ==
  /\ AtNode({"branch"})
  /\ \E m \in ConstantWords, test \in TestWords : \E k \in BranchWords(test) :
       /\ Emit(m + test + 1, Branch(k, TheNode.target))
       /\ relocations' = Append(relocations,
                           Relocation(BranchOffset(m, test), TheNode.target, RelocKind(k)))
  /\ AdvanceEmission
  /\ UNCHANGED <<vvars, lvars, emission, machine, bbOffsets, reloc>>

EmitJump ==
  /\ AtNode({"jump"})
  /\ Emit(1, Branch("jump", TheNode.target))
  /\ relocations' = Append(relocations, Relocation(Len(buf), TheNode.target, "jump"))
  /\ AdvanceEmission
  /\ UNCHANGED <<vvars, lvars, emission, machine, bbOffsets, reloc>>

----------------------------------------------------------------------------
(* finalize.                                                               *)

Reach(kind) == IF kind = "jump" THEN JumpReach[machine] ELSE CondReach[machine]

Finalizing  == emission = "emitting" /\ eb > Len(blocks)
Distance(r) == bbOffsets[r.target] - r.offset

\* Faulty: the last word backwards is refused.
EncodableStrictly(r) ==
  r.target \in DOMAIN bbOffsets /\ Distance(r) \in 1 - Reach(r.kind) .. Reach(r.kind) - 1
Encodable(r) ==
  r.target \in DOMAIN bbOffsets /\ Distance(r) \in - Reach(r.kind) .. Reach(r.kind) - 1

(* The immediate field keeps the low bits of the distance.                 *)
Field(d, kind) == d % (2 * Reach(kind))

Resolve ==
  /\ Finalizing /\ reloc <= Len(relocations)
  /\ Encodable(relocations[reloc])
  /\ buf' = [buf EXCEPT ![relocations[reloc].offset + 1].imm =
               Field(Distance(relocations[reloc]), relocations[reloc].kind)]
  /\ reloc' = reloc + 1
  /\ UNCHANGED <<vvars, lvars, emission, machine, eb, en, bbOffsets, relocations>>

RelocationOutOfRange ==
  /\ Finalizing /\ reloc <= Len(relocations)
  /\ ~ Encodable(relocations[reloc])
  /\ emission' = "refused"
  /\ UNCHANGED <<vvars, lvars, machine, eb, en, buf, bbOffsets, relocations, reloc>>

ReturnCode ==
  /\ Finalizing /\ reloc > Len(relocations)
  /\ emission' = "done"
  /\ UNCHANGED <<vvars, lvars, machine, eb, en, buf, bbOffsets, relocations, reloc>>

EmitInit ==
  /\ LowerInit
  /\ emission = "waiting" /\ machine = "aarch64" /\ eb = 1 /\ en = 0
  /\ buf = <<>> /\ bbOffsets = <<>> /\ relocations = <<>> /\ reloc = 1
EmitNext ==
  \/ LowerNext /\ UNCHANGED cvars
  \/ StartEmission \/ EmitLabel \/ EmitStraight \/ EmitBranch \/ EmitJump
  \/ Resolve \/ RelocationOutOfRange \/ ReturnCode

EmitSpec == EmitInit /\ [][EmitNext]_<<vvars, lvars, cvars>>

----------------------------------------------------------------------------
(* Properties.                                                             *)

WordKinds == {"plain", "cond", "jal", "jump"}
Words == [kind : WordKinds, imm : Nat, to : Nat, bb : Nat]

(* The offsets recorded while emitting are offsets of the buffer: a label  *)
(* at most its end, a relocation a word in it.                             *)
EmitTypeOK ==
  /\ emission \in {"waiting", "emitting", "done", "refused"} /\ machine \in Targets
  /\ eb \in 1 .. Len(blocks) + 1 /\ en \in Nat
  /\ buf \in Seq(Words)
  /\ DOMAIN bbOffsets \subseteq Nat /\ \A t \in DOMAIN bbOffsets : bbOffsets[t] \in 0 .. Len(buf)
  /\ relocations \in
       Seq([offset : 0 .. Len(buf) - 1, target : Nat, kind : {"cond", "jump"}])
  /\ reloc \in 1 .. Len(relocations) + 1

(* Where the machine goes from a taken branch word: its own offset plus    *)
(* the sign-extended field.                                                *)
SignExtended(f, kind) == IF f < Reach(kind) THEN f ELSE f - 2 * Reach(kind)
Landing(w) == w - 1 + SignExtended(buf[w].imm, buf[w].kind)

(* An offset is where a block begins if exactly the words of earlier       *)
(* blocks lie before it.                                                   *)
Begins(o, t) == o \in 0 .. Len(buf) /\ \A v \in DOMAIN buf : v <= o <=> buf[v].bb < t

(* Every branch of the code that finalize returns lands on the beginning   *)
(* of the block it was emitted for: labels, relocation offsets, patched    *)
(* fields and their sign agree, whatever was emitted in between.  Not a    *)
(* conditional Ja on RISC-V: its JAL keeps the field of a branch in bits   *)
(* that mean something else, and where it lands the model does not say.    *)
BranchesLandOnTheirBlock ==
  emission = "done" =>
    \A w \in DOMAIN buf : buf[w].kind \in {"cond", "jump"} => Begins(Landing(w), buf[w].to)

(* A program is refused only if one of its branches really is too far from *)
(* the block it goes to, by the range of the kind it is patched as.        *)
Before(t) == Cardinality({v \in DOMAIN buf : buf[v].bb < t})
RefusedOnlyOutOfReach ==
  emission = "refused" =>
    \E w \in DOMAIN buf :
      /\ buf[w].kind # "plain"
      /\ \/ Before(buf[w].to) - (w - 1) < - Reach(buf[w].kind)
         \/ Before(buf[w].to) - (w - 1) >= Reach(buf[w].kind)

(* The size compile_sized() allocates bounds the code at every moment, so  *)
(* the buffer is never reallocated.                                        *)
DryRunBoundsCode == emission # "waiting" => Len(buf) <= CalculateSize

============================================================================

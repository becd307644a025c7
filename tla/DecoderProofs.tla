--------------------------- MODULE DecoderProofs ----------------------------
(***************************************************************************)
(* Proofs about the decoder in front of the verifier, for every set of raw *)
(* programs: what it hands over, where branches lead in it, and how the    *)
(* verifier judges it, whether it comes from a client or the generator.    *)
(***************************************************************************)
EXTENDS FuzzGenerator, VerifierProofs, FiniteSetTheorems, SequenceTheorems

----------------------------------------------------------------------------
(* One slot.                                                               *)

(* Fields of an opcode.                                                    *)
LEMMA OpcodeFacts ==
  ASSUME NEW r \in RawInsn
  PROVE  insn_class(r) \in 0 .. 7 /\ Width(r) \in Widths
<1>1. r.opcode \in Nat
  BY DEF RawInsn
<1>2. insn_class(r) \in 0 .. 7
  BY <1>1 DEF insn_class
<1> DEFINE k == ((r.opcode \div 8) % 4) + 1
<1>3. r.opcode \div 8 \in Nat
  BY <1>1
<1>4. k \in 1 .. 4
  BY <1>3
<1>5. <<4, 2, 1, 8>>[k] \in {1, 2, 4, 8}
  <2> HIDE DEF k
  <2> QED BY <1>4
<1> QED
  BY <1>2, <1>5 DEF Width, Widths

(* The checks of a slot are pairs of a truth value and an error.           *)
LEMMA ChecksType ==
  ASSUME NEW s \in Nat, raw \in Seq(RawInsn), s < Len(raw)
  PROVE  Checks(s) \in Seq(BOOLEAN \X DecodeErrors)
<1> DEFINE r == raw[s + 1]
           Check == BOOLEAN \X DecodeErrors
<1>1. r \in RawInsn
  OBVIOUS
<1>2. BadDst(r) \in Check /\ BadSrc(r) \in Check /\ BadSource(r) \in Check
  BY DEF BadDst, BadSrc, BadSource, DecodeErrors
<1>3. \A ops : NotOneOf(r, ops) \in Check
  BY DEF NotOneOf, DecodeErrors
<1>4. \A b \in BOOLEAN : \A e \in DecodeErrors : <<b, e>> \in Check
  OBVIOUS
<1>5. <<r.imm \notin {16, 32, 64}, "InvalidEndianWidth">> \in Check
  BY <1>4 DEF DecodeErrors
<1>6. <<Mode(r) = BPF_ATOMIC /\ r.imm \notin AtomicOps, "InvalidAtomicOp">> \in Check
  BY <1>4 DEF DecodeErrors
<1>7. /\ <<r.opcode # LDDW, "UnknownOpcode">> \in Check
      /\ <<s + 1 >= Len(raw), "TruncatedWideInsn">> \in Check
  <2>1. (r.opcode # LDDW) \in BOOLEAN /\ (s + 1 >= Len(raw)) \in BOOLEAN
    OBVIOUS
  <2>2. "UnknownOpcode" \in DecodeErrors /\ "TruncatedWideInsn" \in DecodeErrors
    BY DEF DecodeErrors
  <2> QED BY <1>4, <2>1, <2>2, Zenon
<1> HIDE DEF Check, r
<1>8. AluChecks(r) \in Seq(Check)
  BY <1>2, <1>3, <1>5 DEF AluChecks
<1>9. BranchChecks(r) \in Seq(Check)
  BY <1>2, <1>3 DEF BranchChecks
<1>10. JmpChecks(r) \in Seq(Check)
  BY <1>9 DEF JmpChecks
<1>11. StxChecks(r) \in Seq(Check)
  BY <1>2, <1>6 DEF StxChecks
<1>12. LdChecks(r, s) \in Seq(Check)
  BY <1>2, <1>7 DEF LdChecks
<1>13. <<BadDst(r), BadSrc(r)>> \in Seq(Check) /\ <<BadDst(r)>> \in Seq(Check)
  BY <1>2
<1> DEFINE c == insn_class(r)
<1>14. c \in 0 .. 7
  BY <1>1, OpcodeFacts
<1>15. Checks(s) = CASE c \in {BPF_ALU, BPF_ALU64} -> AluChecks(r)
                     [] c = BPF_JMP   -> JmpChecks(r)
                     [] c = BPF_JMP32 -> BranchChecks(r)
                     [] c = BPF_LDX   -> <<BadDst(r), BadSrc(r)>>
                     [] c = BPF_STX   -> StxChecks(r)
                     [] c = BPF_ST    -> <<BadDst(r)>>
                     [] OTHER         -> LdChecks(r, s)
  BY DEF Checks, r
<1> HIDE DEF c
<1> QED
  BY <1>8, <1>9, <1>10, <1>11, <1>12, <1>13, <1>15
     DEF BPF_ALU, BPF_ALU64, BPF_JMP, BPF_JMP32, BPF_LDX, BPF_STX, BPF_ST, Check

(* A faulty slot has an error.                                             *)
LEMMA ErrorFacts ==
  ASSUME NEW s \in Nat, raw \in Seq(RawInsn), s < Len(raw), Faulty(s)
  PROVE  ErrorAt(s) \in DecodeErrors
<1>1. Checks(s) \in Seq(BOOLEAN \X DecodeErrors)
  BY ChecksType
<1>2. Failing(s) \subseteq 1 .. Len(Checks(s)) /\ Failing(s) # {}
  BY <1>1 DEF Failing, Faulty
<1>3. \E k \in Failing(s) : \A j \in Failing(s) : k <= j
  <2>1. Failing(s) \subseteq Nat
    BY <1>2
  <2> QED BY <1>2, <2>1, LeastNatural
<1> DEFINE k == CHOOSE i \in Failing(s) : \A j \in Failing(s) : i <= j
<1>4. k \in Failing(s)
  BY <1>3
<1>5. ErrorAt(s) = Checks(s)[k][2]
  BY DEF ErrorAt
<1> HIDE DEF k
<1>6. k \in 1 .. Len(Checks(s))
  BY <1>2, <1>4
<1>7. Checks(s)[k] \in BOOLEAN \X DecodeErrors
  BY <1>1, <1>6
<1> QED
  BY <1>5, <1>7

(* What a slot without faults becomes: an instruction with registers R0 to *)
(* R10 that is not a tail call and keeps the offset if it is a branch.  It *)
(* is a wide load exactly in class BPF_LD, and then its second slot exists.*)
LEMMA DecodedFacts ==
  ASSUME NEW s \in Nat, raw \in Seq(RawInsn), s < Len(raw), ~ Faulty(s)
  PROVE  LET r == raw[s + 1] IN
         /\ Decoded(r) \in Insn
         /\ Decoded(r).kind # "tailcall"
         /\ IsBranch(Decoded(r)) => Decoded(r).off = r.off
         /\ Decoded(r).kind = "ldimm" <=> insn_class(r) = BPF_LD
         /\ insn_class(r) = BPF_LD => s + 1 < Len(raw)
<1> DEFINE r == raw[s + 1]
           c == insn_class(r)
           Good(i) == /\ i \in Insn
                      /\ i.kind # "tailcall" /\ i.kind # "ldimm"
                      /\ IsBranch(i) => i.off = r.off
<1>1. r \in RawInsn
  OBVIOUS
<1>2. c \in 0 .. 7 /\ Width(r) \in Widths /\ r.off \in Int
  BY <1>1, OpcodeFacts DEF RawInsn
<1>3. \A k \in DOMAIN Checks(s) : ~ Checks(s)[k][1]
  BY DEF Faulty, Failing
<1>4. Regs \subseteq Regs \cup {Imm} /\ Imm \in Regs \cup {Imm} /\ R0 \in Regs
  BY DEF Regs, Imm, R0, NUM_REGS
<1>5. /\ \A d \in Regs : LoadImm64(d) \in Insn /\ LoadImm64(d).kind = "ldimm"
      /\ \A d \in Regs, x \in Regs \cup {Imm} :
           Good(Mov(d, x)) /\ Good(Alu(d, x)) /\ Good(JmpCond(d, x, r.off))
      /\ \A d \in Regs : Good(Endian(d))
      /\ Good(Ja(r.off)) /\ Good(Call) /\ Good(Exit)
  BY <1>2, <1>4 DEF LoadImm64, Mov, Alu, JmpCond, Endian, Ja, Call, Exit, Op, Insn, Kinds,
                    Widths, IsBranch
<1>6. \A d, x \in Regs, w \in Widths :
        /\ Good(Load(d, x, r.off, w)) /\ Good(StoreReg(d, x, r.off, w))
        /\ Good(StoreImm(d, r.off, w)) /\ Good(Atomic(d, x, r.off, w))
        /\ Good(CmpXchg(d, x, r.off, w))
  BY <1>2, <1>4 DEF Load, StoreReg, StoreImm, Atomic, CmpXchg, Op, Insn, Kinds, IsBranch
<1> HIDE DEF Good
<1>7. Checks(s) = CASE c \in {BPF_ALU, BPF_ALU64} -> AluChecks(r)
                    [] c = BPF_JMP   -> JmpChecks(r)
                    [] c = BPF_JMP32 -> BranchChecks(r)
                    [] c = BPF_LDX   -> <<BadDst(r), BadSrc(r)>>
                    [] c = BPF_STX   -> StxChecks(r)
                    [] c = BPF_ST    -> <<BadDst(r)>>
                    [] OTHER         -> LdChecks(r, s)
  BY DEF Checks
<1>8. Decoded(r) = CASE c \in {BPF_ALU, BPF_ALU64} -> decode_alu(r)
                     [] c = BPF_JMP   -> decode_jmp(r)
                     [] c = BPF_JMP32 -> decode_jmp32(r)
                     [] c = BPF_LDX   -> Load(r.dst, r.src, r.off, Width(r))
                     [] c = BPF_STX   -> decode_stx(r)
                     [] c = BPF_ST    -> StoreImm(r.dst, r.off, Width(r))
                     [] OTHER         -> LoadImm64(r.dst)
  BY DEF Decoded
<1> HIDE DEF r, c
<1> USE DEF BPF_LD, BPF_LDX, BPF_ST, BPF_STX, BPF_ALU, BPF_JMP, BPF_JMP32, BPF_ALU64
<1>9. BadDst(r)[1] = (r.dst \notin Regs) /\ BadSrc(r)[1] = (r.src \notin Regs)
  BY DEF BadDst, BadSrc
<1>10. (~ BadSource(r)[1]) => source(r) \in Regs \cup {Imm}
  BY <1>4 DEF BadSource, source
<1>11. (\A k \in DOMAIN BranchChecks(r) : ~ BranchChecks(r)[k][1]) => Good(decode_jmp32(r))
  <2>1. /\ BranchChecks(r)[2] = BadDst(r) /\ 2 \in DOMAIN BranchChecks(r)
        /\ BranchChecks(r)[3] = BadSource(r) /\ 3 \in DOMAIN BranchChecks(r)
    BY DEF BranchChecks
  <2> QED BY <1>5, <1>10, <1>9, <2>1 DEF decode_jmp32
<1>12. CASE c \in {BPF_ALU, BPF_ALU64}
  <2>1. Checks(s) = AluChecks(r) /\ Decoded(r) = decode_alu(r)
    BY <1>7, <1>8, <1>12
  <2>2. ASSUME op_bits(r) = BPF_END PROVE Good(Decoded(r))
    <3>1. AluChecks(r)[1] = BadDst(r) /\ 1 \in DOMAIN AluChecks(r)
      BY <2>2 DEF AluChecks
    <3>2. r.dst \in Regs
      BY <1>3, <1>9, <2>1, <3>1
    <3> QED BY <1>5, <2>1, <2>2, <3>2 DEF decode_alu
  <2>3. ASSUME op_bits(r) # BPF_END PROVE Good(Decoded(r))
    <3>1. /\ AluChecks(r)[1] = BadDst(r) /\ 1 \in DOMAIN AluChecks(r)
          /\ AluChecks(r)[3] = BadSource(r) /\ 3 \in DOMAIN AluChecks(r)
      BY <2>3 DEF AluChecks
    <3>2. r.dst \in Regs /\ ~ BadSource(r)[1]
      BY <1>3, <1>9, <2>1, <3>1
    <3> QED BY <1>5, <1>10, <2>1, <2>3, <3>2 DEF decode_alu
  <2>4. Good(Decoded(r))
    BY <2>2, <2>3
  <2> QED BY <1>12, <2>4 DEF Good, r, c
<1>13. CASE c = BPF_JMP
  <2>1. Checks(s) = JmpChecks(r) /\ Decoded(r) = decode_jmp(r)
    BY <1>7, <1>8, <1>13
  <2>2. ASSUME op_bits(r) \in {BPF_JA, BPF_CALL, BPF_EXIT} PROVE Good(Decoded(r))
    BY <1>5, <2>1, <2>2 DEF decode_jmp
  <2>3. ASSUME op_bits(r) \notin {BPF_JA, BPF_CALL, BPF_EXIT} PROVE Good(Decoded(r))
    BY <1>3, <1>11, <2>1, <2>3 DEF decode_jmp, JmpChecks
  <2>4. Good(Decoded(r))
    BY <2>2, <2>3
  <2> QED BY <1>13, <2>4 DEF Good, r, c
<1>14. CASE c = BPF_JMP32
  <2>1. Checks(s) = BranchChecks(r) /\ Decoded(r) = decode_jmp32(r)
    BY <1>7, <1>8, <1>14
  <2>2. Good(Decoded(r))
    BY <1>3, <1>11, <2>1
  <2> QED BY <1>14, <2>2 DEF Good, r, c
<1>15. CASE c = BPF_LDX
  <2>1. /\ Checks(s) = <<BadDst(r), BadSrc(r)>>
        /\ Decoded(r) = Load(r.dst, r.src, r.off, Width(r))
    BY <1>7, <1>8, <1>15
  <2>2. /\ Checks(s)[1] = BadDst(r) /\ 1 \in DOMAIN Checks(s)
        /\ Checks(s)[2] = BadSrc(r) /\ 2 \in DOMAIN Checks(s)
    BY <2>1
  <2>3. r.dst \in Regs /\ r.src \in Regs
    BY <1>3, <1>9, <2>2
  <2>4. Good(Decoded(r))
    BY <1>2, <1>6, <2>1, <2>3 DEF r
  <2> QED BY <1>15, <2>4 DEF Good, r, c
<1>16. CASE c = BPF_STX
  <2>1. Checks(s) = StxChecks(r) /\ Decoded(r) = decode_stx(r)
    BY <1>7, <1>8, <1>16
  <2>2. /\ StxChecks(r)[1] = BadDst(r) /\ 1 \in DOMAIN StxChecks(r)
        /\ StxChecks(r)[2] = BadSrc(r) /\ 2 \in DOMAIN StxChecks(r)
    BY DEF StxChecks
  <2>3. r.dst \in Regs /\ r.src \in Regs
    BY <1>3, <1>9, <2>1, <2>2
  <2>4. Good(Decoded(r))
    BY <1>2, <1>6, <2>1, <2>3 DEF r, decode_stx
  <2> QED BY <1>16, <2>4 DEF Good, r, c
<1>17. CASE c = BPF_ST
  <2>1. Checks(s) = <<BadDst(r)>> /\ Decoded(r) = StoreImm(r.dst, r.off, Width(r))
    BY <1>7, <1>8, <1>17
  <2>2. Checks(s)[1] = BadDst(r) /\ 1 \in DOMAIN Checks(s)
    BY <2>1
  <2>3. r.dst \in Regs
    BY <1>3, <1>9, <2>2
  <2>4. Good(Decoded(r))
    BY <1>2, <1>6, <2>1, <2>3 DEF r
  <2> QED BY <1>17, <2>4 DEF Good, r, c
<1>18. CASE c = BPF_LD
  <2>1. Checks(s) = LdChecks(r, s) /\ Decoded(r) = LoadImm64(r.dst)
    BY <1>7, <1>8, <1>18
  <2>2. /\ LdChecks(r, s)[2][1] = (s + 1 >= Len(raw)) /\ 2 \in DOMAIN LdChecks(r, s)
        /\ LdChecks(r, s)[3] = BadDst(r) /\ 3 \in DOMAIN LdChecks(r, s)
    BY DEF LdChecks
  <2>3. r.dst \in Regs /\ ~ (s + 1 >= Len(raw))
    BY <1>3, <1>9, <2>1, <2>2
  <2>4. s + 1 < Len(raw)
    BY <2>3
  <2>5. ~ IsBranch(LoadImm64(r.dst)) /\ LoadImm64(r.dst).kind # "tailcall"
    BY DEF LoadImm64, Op, IsBranch
  <2> QED BY <1>5, <1>18, <2>1, <2>3, <2>4, <2>5 DEF r, c
<1>19. c = BPF_LD \/ c \in {BPF_ALU, BPF_ALU64} \/ c = BPF_JMP \/ c = BPF_JMP32
         \/ c = BPF_LDX \/ c = BPF_STX \/ c = BPF_ST
  BY <1>2
<1> QED
  BY <1>12, <1>13, <1>14, <1>15, <1>16, <1>17, <1>18, <1>19

----------------------------------------------------------------------------
(* The invariant.                                                          *)

(* The slot at which the k-th instruction begins, or will begin; the wide  *)
(* loads among instructions a to b - 1.                                    *)
SlotAt(k)  == IF k < Len(insns) THEN insns[k + 1].slot ELSE dpc
WideSet(a, b) == {q \in a .. b - 1 : insns[q + 1].insn.kind = "ldimm"}

(* Instructions follow each other at a distance of one slot, and one more  *)
(* for each wide load between them.                                        *)
Spaced ==
  \A b \in 0 .. Len(insns) : \A a \in 0 .. b :
    SlotAt(b) = SlotAt(a) + (b - a) + Cardinality(WideSet(a, b))

(* Every instruction is the decoded slot it stands for, one without faults.*)
Translated ==
  \A k \in 1 .. Len(insns) :
    /\ insns[k].slot + 1 \in 1 .. Len(raw)
    /\ ~ Faulty(insns[k].slot)
    /\ insns[k].insn = Decoded(raw[insns[k].slot + 1])

HandedOver == dstage = "decoded" => prog = Output /\ Len(insns) > 0

DecodeInv ==
  /\ DecodeTypeOK /\ (dpc > 0 => Len(insns) > 0)
  /\ Spaced /\ Translated /\ HandedOver

(* The verifier's steps leave the program alone.                           *)
LEMMA VerifierKeepsProgram == Next => UNCHANGED prog
BY DEF Next, EmptyProgram, BranchOutOfBounds, BuildCfg, StartSweep, BackEdgeBudgetExceeded,
       SkipUnreachable, EnterBlock, RejectWriteToR10, RejectUninitRead, RejectStackOffset,
       CheckInsn, Propagate, EndSweep, Converged, RejectBlock, NoExitInstruction, Accept, cfgVars

(* Steps that add no instruction and leave the cursor alone.               *)
LEMMA FrameKeepsDecoded ==
  ASSUME DecodeInv, UNCHANGED <<raw, dpc, insns>>
  PROVE  /\ Spaced' /\ Translated' /\ (dpc > 0 => Len(insns) > 0)'
         /\ raw' \in Seq(RawInsn) /\ dpc' \in 0 .. Len(raw')
         /\ insns' \in Seq([insn : Insn, slot : 0 .. dpc' - 1])
<1>1. /\ Spaced' <=> Spaced
      /\ Translated' <=> Translated
  BY DEF Spaced, Translated, SlotAt, WideSet, Faulty, Failing, Checks, LdChecks
<1> QED
  BY <1>1 DEF DecodeInv, DecodeTypeOK

(* A program, finished or still being generated, before its first slot is  *)
(* read.                                                                   *)
Undecoded ==
  /\ raw \in Seq(RawInsn) /\ dstage \in {"generating", "decoding"}
  /\ dpc = 0 /\ insns = <<>> /\ decodeError = [error |-> "none", pc |-> 0]

(* The invariant holds before the first slot is read,                      *)
LEMMA UndecodedInv == Undecoded => DecodeInv
<1> SUFFICES ASSUME Undecoded PROVE DecodeInv
  OBVIOUS
<1>1. DecodeTypeOK /\ dpc = 0 /\ insns = <<>> /\ dstage # "decoded"
  BY EmptySeq DEF Undecoded, DecodeTypeOK
<1>2. WideSet(0, 0) = {} /\ Cardinality({}) = 0
  BY FS_EmptySet DEF WideSet
<1>3. Spaced
  <2>1. Len(insns) = 0 /\ 0 .. 0 = {0}
    BY <1>1
  <2>2. SlotAt(0) = 0
    BY <1>1, <2>1 DEF SlotAt
  <2>3. SlotAt(0) = SlotAt(0) + (0 - 0) + Cardinality(WideSet(0, 0))
    BY <1>2, <2>2
  <2>4. \A b \in 0 .. Len(insns) : \A a \in 0 .. b : a = 0 /\ b = 0
    BY <2>1
  <2> QED BY <2>3, <2>4 DEF Spaced
<1> QED
  BY <1>1, <1>3 DEF DecodeInv, Translated, HandedOver

(* One instruction more: the distance to the new cursor is the distance to *)
(* the old one, plus one, and one more if the instruction is a wide load.  *)
LEMMA InsnKeepsSpacing ==
  ASSUME DecodeInv, DecodeInsn
  PROVE  Spaced'
<1> DEFINE r == raw[dpc + 1]
           new == [insn |-> Decoded(r), slot |-> dpc]
<1> PICK m \in Nat : m = Len(insns)
  BY DEF DecodeInv, DecodeTypeOK
<1>1. /\ dpc \in Nat /\ dpc < Len(raw) /\ raw \in Seq(RawInsn) /\ ~ Faulty(dpc)
      /\ \A k \in 1 .. m : insns[k].slot \in Nat
  <2> DEFINE S == [insn : Insn, slot : 0 .. dpc - 1]
  <2>1. insns \in Seq(S)
    BY DEF DecodeInv, DecodeTypeOK
  <2>2. \A k \in 1 .. m : insns[k] \in S
    <3> HIDE DEF S
    <3> QED BY <2>1
  <2>3. \A k \in 1 .. m : insns[k].slot \in Nat
    BY <2>2
  <2> QED BY <2>3 DEF DecodeInv, DecodeTypeOK, DecodeInsn, InLoop
<1>2. Len(insns') = m + 1 /\ insns'[m + 1] = new /\ \A k \in 1 .. m : insns'[k] = insns[k]
  BY DEF DecodeInv, DecodeTypeOK, DecodeInsn
<1>3. Decoded(r).kind = "ldimm" <=> insn_class(r) = BPF_LD
  BY <1>1, DecodedFacts
<1>4. dpc' = dpc + 1 + (IF Decoded(r).kind = "ldimm" THEN 1 ELSE 0)
  BY <1>1, <1>3 DEF DecodeInsn, Size
<1>5. new.slot = dpc /\ new.insn.kind = Decoded(r).kind
  OBVIOUS
<1> HIDE DEF r, new
<1>6. \A k \in 0 .. m : SlotAt(k)' = SlotAt(k)
  BY <1>1, <1>2, <1>5 DEF SlotAt
<1>7. SlotAt(m) = dpc /\ SlotAt(m + 1)' = dpc'
  BY <1>1, <1>2 DEF SlotAt
<1>8. \A k \in 0 .. m : SlotAt(k) \in Nat
  BY <1>1 DEF SlotAt
<1>9. \A b \in 0 .. m : \A a \in 0 .. b : WideSet(a, b)' = WideSet(a, b)
  <2> SUFFICES ASSUME NEW b \in 0 .. m, NEW a \in 0 .. b
               PROVE  WideSet(a, b)' = WideSet(a, b)
    OBVIOUS
  <2>1. \A q \in a .. b - 1 : q + 1 \in 1 .. m
    BY <1>1
  <2>2. \A q \in a .. b - 1 : insns'[q + 1] = insns[q + 1]
    BY <1>2, <2>1
  <2> QED BY <2>2 DEF WideSet
<1>10. \A a \in 0 .. m :
         /\ IsFiniteSet(WideSet(a, m)) /\ Cardinality(WideSet(a, m)) \in Nat
         /\ m \notin WideSet(a, m)
  <2> SUFFICES ASSUME NEW a \in 0 .. m
               PROVE  IsFiniteSet(WideSet(a, m)) /\ Cardinality(WideSet(a, m)) \in Nat
                        /\ m \notin WideSet(a, m)
    OBVIOUS
  <2>1. WideSet(a, m) \subseteq a .. m - 1
    BY DEF WideSet
  <2>2. IsFiniteSet(a .. m - 1)
    BY <1>1, FS_Interval
  <2>3. IsFiniteSet(WideSet(a, m))
    BY <2>1, <2>2, FS_Subset
  <2>4. m \notin a .. m - 1
    BY <1>1
  <2> QED BY <2>1, <2>3, <2>4, FS_CardinalityType
<1>11. \A a \in 0 .. m :
         WideSet(a, m + 1)' = IF Decoded(r).kind = "ldimm" THEN WideSet(a, m) \cup {m}
                              ELSE WideSet(a, m)
  <2> SUFFICES ASSUME NEW a \in 0 .. m
               PROVE  WideSet(a, m + 1)' = IF Decoded(r).kind = "ldimm" THEN WideSet(a, m) \cup {m}
                                           ELSE WideSet(a, m)
    OBVIOUS
  <2>1. a .. (m + 1) - 1 = (a .. m - 1) \cup {m}
    BY <1>1
  <2>2. \A q \in a .. m - 1 : insns'[q + 1] = insns[q + 1]
    BY <1>1, <1>2
  <2>3. insns'[m + 1].insn.kind = Decoded(r).kind
    BY <1>2, <1>5
  <2>4. WideSet(a, m + 1)' = {q \in (a .. m - 1) \cup {m} : insns'[q + 1].insn.kind = "ldimm"}
    BY <2>1 DEF WideSet
  <2> QED BY <2>2, <2>3, <2>4 DEF WideSet
<1>12. \A a \in 0 .. m :
         Cardinality(WideSet(a, m + 1)') =
           Cardinality(WideSet(a, m)) + (IF Decoded(r).kind = "ldimm" THEN 1 ELSE 0)
  <2> SUFFICES ASSUME NEW a \in 0 .. m
               PROVE  Cardinality(WideSet(a, m + 1)') =
                        Cardinality(WideSet(a, m)) + (IF Decoded(r).kind = "ldimm" THEN 1 ELSE 0)
    OBVIOUS
  <2> DEFINE A == WideSet(a, m)
             B == WideSet(a, m + 1)'
  <2>1. IsFiniteSet(A) /\ Cardinality(A) \in Nat /\ m \notin A
    BY <1>10
  <2>2. B = IF Decoded(r).kind = "ldimm" THEN A \cup {m} ELSE A
    BY <1>11
  <2> HIDE DEF A, B
  <2>3. Cardinality(A \cup {m}) = Cardinality(A) + 1
    BY <2>1, FS_AddElement
  <2>4. Cardinality(B) = Cardinality(A) + (IF Decoded(r).kind = "ldimm" THEN 1 ELSE 0)
    BY <2>1, <2>2, <2>3
  <2> QED BY <2>4 DEF A, B
<1>13. \A a \in 0 .. m + 1 : WideSet(a, a)' = {}
  BY <1>1 DEF WideSet
<1>14. \A b \in 0 .. m : \A a \in 0 .. b :
         SlotAt(b) = SlotAt(a) + (b - a) + Cardinality(WideSet(a, b))
  BY DEF DecodeInv, Spaced
<1> SUFFICES ASSUME NEW b \in 0 .. m + 1, NEW a \in 0 .. b
             PROVE  SlotAt(b)' = SlotAt(a)' + (b - a) + Cardinality(WideSet(a, b))'
  BY <1>2 DEF Spaced
<1>15. CASE b \in 0 .. m
  <2>1. a \in 0 .. m
    BY <1>15
  <2>2. SlotAt(b)' = SlotAt(b) /\ SlotAt(a)' = SlotAt(a) /\ WideSet(a, b)' = WideSet(a, b)
    BY <1>6, <1>9, <1>15, <2>1
  <2>3. SlotAt(b) = SlotAt(a) + (b - a) + Cardinality(WideSet(a, b))
    BY <1>14, <1>15
  <2> QED BY <2>2, <2>3
<1>16. CASE b = m + 1 /\ a = m + 1
  <2>1. Cardinality({}) = 0
    BY FS_EmptySet
  <2>2. SlotAt(b)' \in Nat
    BY <1>1, <1>4, <1>7, <1>16
  <2>3. WideSet(a, b)' = {}
    BY <1>13, <1>16
  <2>4. Cardinality(WideSet(a, b))' = 0
    BY <2>1, <2>3
  <2>5. a = b /\ b - a = 0
    BY <1>16
  <2> QED BY <2>2, <2>4, <2>5
<1>17. CASE b = m + 1 /\ a \in 0 .. m
  <2>1. dpc = SlotAt(a) + (m - a) + Cardinality(WideSet(a, m))
    BY <1>1, <1>7, <1>14, <1>17
  <2>2. SlotAt(b)' = dpc + 1 + (IF Decoded(r).kind = "ldimm" THEN 1 ELSE 0)
    BY <1>4, <1>7, <1>17
  <2>3. SlotAt(a)' = SlotAt(a) /\ SlotAt(a) \in Nat /\ Cardinality(WideSet(a, m)) \in Nat
    BY <1>6, <1>8, <1>10, <1>17
  <2> QED BY <1>1, <1>12, <1>17, <2>1, <2>2, <2>3
<1> QED
  BY <1>1, <1>15, <1>16, <1>17

(* One instruction more is the decoded slot at the cursor.                 *)
LEMMA InsnKeepsTranslation ==
  ASSUME DecodeInv, DecodeInsn
  PROVE  /\ Translated' /\ DecodeTypeOK' /\ Len(insns') > 0
<1> DEFINE r == raw[dpc + 1]
           new == [insn |-> Decoded(r), slot |-> dpc]
           Old == [insn : Insn, slot : 0 .. dpc - 1]
           Now == [insn : Insn, slot : 0 .. dpc' - 1]
<1>1. /\ dpc \in Nat /\ dpc < Len(raw) /\ raw \in Seq(RawInsn) /\ ~ Faulty(dpc)
      /\ UNCHANGED <<raw, dstage, decodeError>> /\ dpc' = dpc + Size
  BY DEF DecodeInv, DecodeTypeOK, DecodeInsn, InLoop
<1>2. Decoded(r) \in Insn /\ (insn_class(r) = BPF_LD => dpc + 1 < Len(raw))
  BY <1>1, DecodedFacts
<1>3. dpc' \in 0 .. Len(raw) /\ dpc < dpc'
  BY <1>1, <1>2 DEF Size
<1>4. insns \in Seq(Old)
  BY DEF DecodeInv, DecodeTypeOK
<1>5. Old \subseteq Now /\ new \in Now
  BY <1>1, <1>2, <1>3
<1>6. insns' = Append(insns, new)
  BY DEF DecodeInsn
<1>7. insns' \in Seq(Now) /\ Len(insns') = Len(insns) + 1
  <2> HIDE DEF Old, Now, new
  <2> QED BY <1>4, <1>5, <1>6
<1>8. insns'[Len(insns) + 1] = new /\ \A k \in 1 .. Len(insns) : insns'[k] = insns[k]
  <2> HIDE DEF Old, Now, new
  <2> QED BY <1>4, <1>6
<1>9. ASSUME NEW s, NEW k, ~ Faulty(s), insns'[k].slot = s
      PROVE  (~ Faulty(insns[k].slot))'
  BY <1>1, <1>9 DEF Faulty, Failing, Checks, LdChecks
<1>10. new.slot = dpc /\ new.insn = Decoded(r)
  OBVIOUS
<1>11. Len(insns) \in Nat
  <2> HIDE DEF Old
  <2> QED BY <1>4
<1>12. DecodeTypeOK'
  BY <1>1, <1>3, <1>7 DEF DecodeInv, DecodeTypeOK
<1>13. Translated'
  <2> SUFFICES ASSUME NEW k \in 1 .. Len(insns')
               PROVE  (/\ insns[k].slot + 1 \in 1 .. Len(raw)
                       /\ ~ Faulty(insns[k].slot)
                       /\ insns[k].insn = Decoded(raw[insns[k].slot + 1]))'
    BY DEF Translated
  <2> HIDE DEF new, r
  <2>1. CASE k = Len(insns) + 1
    <3>1. insns'[k].slot = dpc /\ insns'[k].insn = Decoded(r)
      BY <1>8, <1>10, <2>1
    <3>2. (~ Faulty(insns[k].slot))'
      BY <1>1, <1>9, <3>1
    <3> QED BY <1>1, <3>1, <3>2 DEF r
  <2>2. CASE k \in 1 .. Len(insns)
    <3>1. insns'[k] = insns[k]
      BY <1>8, <2>2
    <3>2. /\ insns[k].slot + 1 \in 1 .. Len(raw) /\ ~ Faulty(insns[k].slot)
          /\ insns[k].insn = Decoded(raw[insns[k].slot + 1])
      BY <2>2 DEF DecodeInv, Translated
    <3>3. (~ Faulty(insns[k].slot))'
      BY <1>9, <3>1, <3>2
    <3> QED BY <1>1, <3>1, <3>2, <3>3
  <2> QED BY <1>7, <1>11, <2>1, <2>2
<1> QED
  BY <1>7, <1>11, <1>12, <1>13

(* Every step of the decoder, and of the verifier after it, keeps the      *)
(* invariant,                                                              *)
LEMMA DecodeStep == DecodeInv /\ [DecodeNext \/ VerifyDecoded]_<<vvars, dvars>> => DecodeInv'
<1> SUFFICES ASSUME DecodeInv, [DecodeNext \/ VerifyDecoded]_<<vvars, dvars>>
             PROVE  DecodeInv'
  OBVIOUS
<1>1. ASSUME NEW e \in DecodeErrors, NEW s \in Nat, RefuseProgram(e, s)
      PROVE  DecodeInv'
  <2>1. UNCHANGED <<raw, dpc, insns>> /\ dstage' = "rejected"
        /\ decodeError' = [error |-> e, pc |-> s]
    BY <1>1 DEF RefuseProgram
  <2> QED BY <2>1, FrameKeepsDecoded DEF DecodeInv, DecodeTypeOK, HandedOver
<1>2. CASE RejectEmpty \/ RejectTooLarge
  BY <1>1, <1>2 DEF RejectEmpty, RejectTooLarge, DecodeErrors
<1>3. CASE DecodeError
  <2>1. dpc \in Nat /\ raw \in Seq(RawInsn) /\ dpc < Len(raw) /\ Faulty(dpc)
    BY <1>3 DEF DecodeError, InLoop, DecodeInv, DecodeTypeOK
  <2> QED BY <1>1, <1>3, <2>1, ErrorFacts DEF DecodeError
<1>4. CASE DecodeInsn
  <2>1. dstage' = "decoding"
    BY <1>4 DEF DecodeInsn, InLoop
  <2> QED BY <1>4, <2>1, InsnKeepsSpacing, InsnKeepsTranslation DEF DecodeInv, HandedOver
<1>5. CASE ReturnInsns
  <2>1. UNCHANGED <<raw, dpc, insns, decodeError>> /\ dstage' = "decoded"
    BY <1>5 DEF ReturnInsns
  <2>2. prog' = Output' /\ dpc > 0
    BY <1>5, <2>1 DEF ReturnInsns, Output, DecodeInv, DecodeTypeOK
  <2> QED BY <2>1, <2>2, FrameKeepsDecoded DEF DecodeInv, DecodeTypeOK, HandedOver
<1>6. CASE VerifyDecoded \/ UNCHANGED <<vvars, dvars>>
  <2>1. UNCHANGED <<prog, dvars>>
    BY <1>6, VerifierKeepsProgram DEF VerifyDecoded, vvars
  <2>2. Output' = Output
    BY <2>1 DEF Output, dvars
  <2> QED BY <2>1, <2>2, FrameKeepsDecoded DEF DecodeInv, DecodeTypeOK, HandedOver, dvars
<1> QED
  BY <1>2, <1>3, <1>4, <1>5, <1>6 DEF DecodeNext

----------------------------------------------------------------------------
(* The output.                                                             *)

(* What is handed over, in terms of the output.                            *)
LEMMA HandedOverFacts ==
  ASSUME DecodeInv, dstage = "decoded"
  PROVE  /\ prog \in Seq(Insn) /\ Len(prog) = Len(insns) /\ Len(insns) \in Nat \ {0}
         /\ \A p \in Pcs(prog) : /\ At(prog, p) = insns[p + 1].insn
                                 /\ p + 1 \in 1 .. Len(insns)
                                 /\ insns[p + 1].slot \in Nat
<1> DEFINE S == [insn : Insn, slot : 0 .. dpc - 1]
<1>1. insns \in Seq(S) /\ prog = [k \in 1 .. Len(insns) |-> insns[k].insn] /\ Len(insns) > 0
  BY DEF DecodeInv, DecodeTypeOK, HandedOver, Output
<1>2. Len(insns) \in Nat /\ \A k \in 1 .. Len(insns) : insns[k] \in S
  <2> HIDE DEF S
  <2> QED BY <1>1
<1>3. \A k \in 1 .. Len(insns) : insns[k].insn \in Insn /\ insns[k].slot \in Nat
  BY <1>2
<1>4. prog \in Seq(Insn) /\ Len(prog) = Len(insns)
  BY <1>1, <1>2, <1>3
<1>5. \A p \in Pcs(prog) : p + 1 \in 1 .. Len(insns)
  BY <1>2, <1>4 DEF Pcs
<1> QED
  BY <1>1, <1>2, <1>3, <1>4, <1>5 DEF At

(* The program the verifier gets is a non-empty sequence of instructions   *)
(* with registers R0 to R10, none of them a tail call (decode.rs:76).      *)
LEMMA OutputIsProgram == DecodeInv => DecodesToInsns
<1> SUFFICES ASSUME DecodeInv, dstage = "decoded"
             PROVE  /\ prog \in Seq(Insn) /\ prog # <<>>
                    /\ \A p \in Pcs(prog) : At(prog, p).kind # "tailcall"
  BY DEF DecodesToInsns, TailCallFree
<1>1. prog \in Seq(Insn) /\ prog # <<>>
  BY HandedOverFacts
<1>2. ASSUME NEW p \in Pcs(prog) PROVE At(prog, p).kind # "tailcall"
  <2>1. p + 1 \in 1 .. Len(insns) /\ At(prog, p) = insns[p + 1].insn /\ insns[p + 1].slot \in Nat
    BY HandedOverFacts
  <2> DEFINE s == insns[p + 1].slot
  <2>2. s + 1 \in 1 .. Len(raw) /\ ~ Faulty(s) /\ At(prog, p) = Decoded(raw[s + 1])
    BY <2>1 DEF DecodeInv, Translated
  <2>3. s \in Nat /\ s < Len(raw) /\ raw \in Seq(RawInsn)
    BY <2>1, <2>2 DEF DecodeInv, DecodeTypeOK
  <2> HIDE DEF s
  <2> QED BY <2>2, <2>3, DecodedFacts
<1> QED BY <1>1, <1>2

(* A branch reaches the slot its raw offset names, moved away by one for   *)
(* every wide load it jumps over (decode.rs:63): offsets are not adjusted. *)
LEMMA BranchesShift == DecodeInv => BranchesShiftByWideLoads
<1> SUFFICES ASSUME DecodeInv, dstage = "decoded", NEW p \in Pcs(prog),
                    IsBranch(At(prog, p)), Target(prog, p) \in Pcs(prog)
             PROVE  LET t == Target(prog, p) IN
                    SlotOf(t) = RawTarget(SlotOf(p))
                                  + (IF t > p THEN WideIn(p, t) ELSE - WideIn(t, p))
  BY DEF BranchesShiftByWideLoads
<1> DEFINE t == Target(prog, p)
           s == insns[p + 1].slot
<1>1. /\ Len(prog) = Len(insns) /\ Len(insns) \in Nat
      /\ p \in 0 .. Len(insns) - 1 /\ t \in 0 .. Len(insns) - 1
  BY HandedOverFacts DEF Pcs
<1>2. p + 1 \in 1 .. Len(insns) /\ At(prog, p) = insns[p + 1].insn /\ s \in Nat
  BY HandedOverFacts
<1>3. s + 1 \in 1 .. Len(raw) /\ ~ Faulty(s) /\ At(prog, p) = Decoded(raw[s + 1])
  BY <1>2 DEF DecodeInv, Translated
<1>4. s < Len(raw) /\ raw \in Seq(RawInsn)
  BY <1>2, <1>3 DEF DecodeInv, DecodeTypeOK
<1>5. At(prog, p).off = raw[s + 1].off /\ raw[s + 1].off \in Int
  <2>1. IsBranch(Decoded(raw[s + 1]))
    BY <1>3
  <2>2. Decoded(raw[s + 1]).off = raw[s + 1].off
    <3> HIDE DEF s
    <3> QED BY <1>2, <1>3, <1>4, <2>1, DecodedFacts
  <2>3. raw[s + 1] \in RawInsn
    BY <1>3, <1>4
  <2> QED BY <1>3, <2>2, <2>3 DEF RawInsn
<1>6. t = p + 1 + raw[s + 1].off
  BY <1>5 DEF Target
<1>7. RawTarget(SlotOf(p)) = s + 1 + raw[s + 1].off
  BY DEF RawTarget, SlotOf
<1>8. \A a, b \in 0 .. Len(insns) - 1 : a <= b =>
        /\ SlotOf(b) = SlotOf(a) + (b - a) + WideIn(a, b)
        /\ SlotOf(a) \in Nat /\ WideIn(a, b) \in Nat
  <2> SUFFICES ASSUME NEW a \in 0 .. Len(insns) - 1, NEW b \in 0 .. Len(insns) - 1, a <= b
               PROVE  /\ SlotOf(b) = SlotOf(a) + (b - a) + WideIn(a, b)
                      /\ SlotOf(a) \in Nat /\ WideIn(a, b) \in Nat
    OBVIOUS
  <2>1. b \in 0 .. Len(insns) /\ a \in 0 .. b
    BY <1>1
  <2>2. SlotAt(b) = SlotAt(a) + (b - a) + Cardinality(WideSet(a, b))
    BY <2>1 DEF DecodeInv, Spaced
  <2>3. SlotAt(b) = SlotOf(b) /\ SlotAt(a) = SlotOf(a)
    BY <1>1 DEF SlotAt, SlotOf
  <2>4. \A q \in a .. b - 1 : At(prog, q) = insns[q + 1].insn
    BY <1>1, HandedOverFacts DEF Pcs
  <2>5. WideSet(a, b) = {q \in a .. b - 1 : At(prog, q).kind = "ldimm"}
    BY <2>4 DEF WideSet
  <2>6. WideIn(a, b) = Cardinality(WideSet(a, b))
    BY <2>5 DEF WideIn
  <2>7. IsFiniteSet(a .. b - 1) /\ WideSet(a, b) \subseteq a .. b - 1
    <3>1. a \in Int /\ b - 1 \in Int
      BY <1>1
    <3> QED BY <3>1, FS_Interval DEF WideSet
  <2>8. Cardinality(WideSet(a, b)) \in Nat
    BY <2>7, FS_Subset, FS_CardinalityType
  <2>9. SlotOf(a) \in Nat
    BY <1>1, HandedOverFacts DEF SlotOf, Pcs
  <2> QED BY <2>2, <2>3, <2>6, <2>8, <2>9
<1>9. SlotOf(p) = s
  BY DEF SlotOf
<1>10. PICK o \in Int : o = raw[s + 1].off
  BY <1>5
<1>11. /\ t = p + 1 + o /\ RawTarget(SlotOf(p)) = s + 1 + o
       /\ SlotOf(p) = s /\ s \in Nat /\ p \in Int /\ t \in Int
  BY <1>1, <1>2, <1>6, <1>7, <1>9, <1>10
<1>12. SUFFICES SlotOf(t) = RawTarget(SlotOf(p))
                              + (IF t > p THEN WideIn(p, t) ELSE - WideIn(t, p))
  OBVIOUS
<1> HIDE DEF t, s
<1>13. CASE t > p
  <2>1. SlotOf(t) = SlotOf(p) + (t - p) + WideIn(p, t) /\ WideIn(p, t) \in Nat
    BY <1>1, <1>8, <1>13
  <2> QED BY <1>13, <1>11, <2>1
<1>14. CASE ~ (t > p)
  <2>1. SlotOf(p) = SlotOf(t) + (p - t) + WideIn(t, p)
        /\ WideIn(t, p) \in Nat /\ SlotOf(t) \in Nat
    BY <1>1, <1>8, <1>14
  <2> QED BY <1>14, <1>11, <2>1
<1> QED BY <1>13, <1>14

----------------------------------------------------------------------------
(* The first fault.                                                        *)

(* The truth values Heads selects by, up to slot m.                        *)
IsBegins(slots, m, f) ==
  f = [s \in 0 .. m |-> s = 0 \/ ~ (f[s - 1] /\ insn_class(slots[s]) = BPF_LD)]

(* The recursion that defines them has a solution, slot by slot.           *)
LEMMA BeginsExist ==
  ASSUME NEW slots
  PROVE  \A m \in Nat : \E f : IsBegins(slots, m, f)
<1> DEFINE S == {m \in Nat : \E f : IsBegins(slots, m, f)}
           Value(f, s) == s = 0 \/ ~ (f[s - 1] /\ insn_class(slots[s]) = BPF_LD)
<1>1. 0 \in S
  <2> DEFINE f == [s \in 0 .. 0 |-> TRUE]
  <2>1. \A s \in 0 .. 0 : Value(f, s) = TRUE
    OBVIOUS
  <2>2. f = [s \in 0 .. 0 |-> Value(f, s)]
    <3> HIDE DEF Value
    <3> QED
      BY <2>1
  <2>3. IsBegins(slots, 0, f)
    BY <2>2 DEF IsBegins
  <2> QED
    BY <2>3
<1>2. ASSUME NEW m \in Nat, m \in S
      PROVE  m + 1 \in S
  <2>1. PICK f : IsBegins(slots, m, f)
    BY <1>2
  <2> DEFINE g == [s \in 0 .. m + 1 |-> IF s <= m THEN f[s] ELSE Value(f, s)]
  <2>2. \A s \in 0 .. m : f[s] = Value(f, s)
    BY <2>1 DEF IsBegins
  <2>3. ASSUME NEW s \in 0 .. m + 1
        PROVE  g[s] = Value(g, s)
    <3>1. g[s] = Value(f, s)
      BY <2>2
    <3>2. CASE s = 0
      BY <3>1, <3>2
    <3>3. CASE s # 0
      <4>1. s - 1 \in 0 .. m /\ s - 1 \in 0 .. m + 1 /\ s - 1 <= m
        BY <3>3
      <4>2. g[s - 1] = f[s - 1]
        BY <4>1
      <4> HIDE DEF g
      <4> QED
        BY <3>1, <4>2
    <3> QED
      BY <3>2, <3>3
  <2>4. g = [s \in 0 .. m + 1 |-> Value(g, s)]
    <3> HIDE DEF Value
    <3>1. g = [s \in 0 .. m + 1 |-> g[s]]
      OBVIOUS
    <3> HIDE DEF g
    <3> QED
      BY <2>3, <3>1
  <2>5. IsBegins(slots, m + 1, g)
    BY <2>4 DEF IsBegins
  <2> QED
    BY <2>5
<1>3. Nat \subseteq S
  <2> HIDE DEF S
  <2> QED
    BY <1>1, <1>2, NaturalsInductively
<1> QED
  BY <1>3

(* The first slot begins an instruction, and one after it does unless the  *)
(* slot before it begins a wide load.                                      *)
LEMMA HeadsFacts ==
  ASSUME NEW slots \in Seq(RawInsn)
  PROVE  /\ Heads(slots) \subseteq 0 .. Len(slots) - 1
         /\ Len(slots) > 0 => 0 \in Heads(slots)
         /\ \A s \in 0 .. Len(slots) - 2 :
              s + 1 \in Heads(slots) <=>
                ~ (s \in Heads(slots) /\ insn_class(slots[s + 1]) = BPF_LD)
<1> DEFINE m == Len(slots)
           f == CHOOSE h : IsBegins(slots, m, h)
<1>1. Heads(slots) = {s \in 0 .. m - 1 : f[s]}
  BY DEF Heads, IsBegins
<1>2. m \in Nat
  OBVIOUS
<1>3. IsBegins(slots, m, f)
  <2> HIDE DEF m
  <2> QED
    BY <1>2, BeginsExist
<1> HIDE DEF f, m
<1>4. \A s \in 0 .. m : f[s] = (s = 0 \/ ~ (f[s - 1] /\ insn_class(slots[s]) = BPF_LD))
  BY <1>3 DEF IsBegins
<1>5. m > 0 => 0 \in Heads(slots)
  <2>1. 0 \in 0 .. m /\ (m > 0 => 0 \in 0 .. m - 1)
    BY <1>2
  <2>2. f[0] = (0 = 0 \/ ~ (f[0 - 1] /\ insn_class(slots[0]) = BPF_LD))
    BY <1>4, <2>1, Zenon
  <2>3. f[0]
    BY <2>2, Zenon
  <2> QED
    BY <1>1, <2>1, <2>3
<1>6. ASSUME NEW s \in 0 .. m - 2
      PROVE  s + 1 \in Heads(slots) <=>
               ~ (s \in Heads(slots) /\ insn_class(slots[s + 1]) = BPF_LD)
  <2>1. /\ s + 1 \in 0 .. m /\ s + 1 \in 0 .. m - 1 /\ s \in 0 .. m - 1
        /\ s + 1 # 0 /\ (s + 1) - 1 = s
    BY <1>2
  <2>2. f[s + 1] <=> ~ (f[s] /\ insn_class(slots[s + 1]) = BPF_LD)
    BY <1>4, <2>1
  <2> QED
    BY <1>1, <2>1, <2>2
<1> QED
  BY <1>1, <1>5, <1>6 DEF m

(* The output has one instruction for each head behind the cursor, which   *)
(* is at a head itself; a refused program is blamed where the cursor is.   *)
HeadsInv ==
  /\ {insns[k].slot : k \in 1 .. Len(insns)} = {s \in Heads(raw) : s < dpc}
  /\ dpc < Len(raw) => dpc \in Heads(raw)
  /\ dstage = "decoded" => dpc = Len(raw)
  /\ dstage = "rejected" /\ raw # <<>> /\ Len(raw) <= MAX_INSNS =>
       dpc < Len(raw) /\ decodeError.pc = dpc /\ Faulty(dpc)

(* Whether a slot is faulty depends on the raw slots alone.                *)
LEMMA FaultyFrame ==
  ASSUME raw' = raw
  PROVE  \A s : Faulty(s)' <=> Faulty(s)
BY DEF Faulty, Failing, Checks, LdChecks

(* The slots of the output after one more instruction.                     *)
LEMMA InsnAddsHead ==
  ASSUME DecodeInv, HeadsInv, DecodeInsn
  PROVE  HeadsInv'
<1> PICK d \in Nat, R \in Seq(RawInsn) : d = dpc /\ R = raw
  BY DEF DecodeInv, DecodeTypeOK
<1> DEFINE r == R[d + 1]
           new == [insn |-> Decoded(r), slot |-> d]
           Old == [insn : Insn, slot : 0 .. d - 1]
<1>1. /\ d < Len(R) /\ ~ Faulty(d) /\ raw' = R /\ dpc' = d + Size
      /\ dstage' = "decoding" /\ insns' = Append(insns, new) /\ insns \in Seq(Old)
  BY DEF DecodeInv, DecodeTypeOK, DecodeInsn, InLoop
<1>2. insn_class(r) = BPF_LD => d + 1 < Len(R)
  BY <1>1, DecodedFacts
<1>3. Size = IF insn_class(r) = BPF_LD THEN 2 ELSE 1
  BY DEF Size
<1>4. d \in Heads(R) /\ Heads(R) \subseteq 0 .. Len(R) - 1
  BY <1>1, HeadsFacts DEF HeadsInv
<1>5. {s \in Heads(R) : s < d + Size} = {s \in Heads(R) : s < d} \cup {d}
  <2>1. CASE insn_class(r) = BPF_LD
    <3>1. d \in 0 .. Len(R) - 2
      BY <1>2, <2>1
    <3>2. d + 1 \notin Heads(R)
      BY <1>4, <2>1, <3>1, HeadsFacts
    <3>3. \A s \in Nat : s < d + 2 => s < d \/ s = d \/ s = d + 1
      OBVIOUS
    <3> QED
      BY <1>3, <1>4, <2>1, <3>2, <3>3
  <2>2. CASE insn_class(r) # BPF_LD
    BY <1>3, <1>4, <2>2
  <2> QED
    BY <2>1, <2>2
<1>6. d + Size < Len(R) => d + Size \in Heads(R)
  <2>1. CASE insn_class(r) = BPF_LD
    <3> SUFFICES ASSUME d + 2 < Len(R) PROVE d + 2 \in Heads(R)
      BY <1>3, <2>1
    <3>1. d \in 0 .. Len(R) - 2 /\ d + 1 \in 0 .. Len(R) - 2 /\ (d + 1) + 1 = d + 2
      OBVIOUS
    <3>2. d + 1 \notin Heads(R)
      BY <1>4, <2>1, <3>1, HeadsFacts
    <3>3. (d + 1) + 1 \in Heads(R)
      BY <3>1, <3>2, HeadsFacts
    <3> QED
      BY <3>1, <3>3
  <2>2. CASE insn_class(r) # BPF_LD
    <3> SUFFICES ASSUME d + 1 < Len(R) PROVE d + 1 \in Heads(R)
      BY <1>3, <2>2
    <3>1. d \in 0 .. Len(R) - 2
      OBVIOUS
    <3> QED
      BY <2>2, <3>1, HeadsFacts
  <2> QED
    BY <2>1, <2>2
<1>7. {insns'[k].slot : k \in 1 .. Len(insns')} = {insns[k].slot : k \in 1 .. Len(insns)} \cup {d}
  <2>1. /\ Len(insns') = Len(insns) + 1 /\ Len(insns) \in Nat
        /\ insns'[Len(insns) + 1] = new /\ \A k \in 1 .. Len(insns) : insns'[k] = insns[k]
    <3> HIDE DEF new, Old
    <3> QED
      BY <1>1
  <2>2. new.slot = d
    OBVIOUS
  <2>3. 1 .. Len(insns') = (1 .. Len(insns)) \cup {Len(insns) + 1}
    BY <2>1
  <2> HIDE DEF new
  <2> QED
    BY <2>1, <2>2, <2>3
<1>8. {insns[k].slot : k \in 1 .. Len(insns)} = {s \in Heads(R) : s < d}
  BY DEF HeadsInv
<1> HIDE DEF r, new, Old
<1>9. {insns'[k].slot : k \in 1 .. Len(insns')} = {s \in Heads(R) : s < d + Size}
  BY <1>5, <1>7, <1>8
<1> QED
  BY <1>1, <1>6, <1>9 DEF HeadsInv

(* HeadsInv is inductive.                                                  *)
LEMMA HeadsStep ==
  DecodeInv /\ HeadsInv /\ [DecodeNext \/ VerifyDecoded]_<<vvars, dvars>> => HeadsInv'
<1> SUFFICES ASSUME DecodeInv, HeadsInv, [DecodeNext \/ VerifyDecoded]_<<vvars, dvars>>
             PROVE  HeadsInv'
  OBVIOUS
<1>t. raw \in Seq(RawInsn) /\ dpc \in 0 .. Len(raw)
  BY DEF DecodeInv, DecodeTypeOK
<1>1. CASE RejectEmpty \/ RejectTooLarge
  <2>1. /\ UNCHANGED <<raw, dpc, insns>> /\ dstage' = "rejected"
        /\ raw = <<>> \/ ~ (Len(raw) <= MAX_INSNS)
    BY <1>1, <1>t, MaxInsnsAssumption DEF RejectEmpty, RejectTooLarge, RefuseProgram
  <2> QED
    BY <2>1 DEF HeadsInv
<1>2. CASE DecodeError
  <2>1. /\ UNCHANGED <<raw, dpc, insns>> /\ dstage' = "rejected"
        /\ dpc < Len(raw) /\ Faulty(dpc) /\ decodeError'.pc = dpc
    BY <1>2 DEF DecodeError, RefuseProgram, InLoop
  <2>2. Faulty(dpc)'
    BY <2>1, FaultyFrame
  <2> QED
    BY <2>1, <2>2 DEF HeadsInv
<1>3. CASE DecodeInsn
  BY <1>3, InsnAddsHead
<1>4. CASE ReturnInsns
  <2>1. UNCHANGED <<raw, dpc, insns>> /\ dstage' = "decoded" /\ dpc = Len(raw)
    BY <1>4, <1>t DEF ReturnInsns
  <2> QED
    BY <2>1 DEF HeadsInv
<1>5. CASE VerifyDecoded \/ UNCHANGED <<vvars, dvars>>
  <2>1. UNCHANGED <<raw, dpc, insns, dstage, decodeError>>
    BY <1>5 DEF VerifyDecoded, dvars
  <2>2. Faulty(dpc)' <=> Faulty(dpc)
    <3>1. \A s : Faulty(s)' <=> Faulty(s)
      BY <2>1, FaultyFrame
    <3> QED
      BY <2>1, <3>1 DEF Faulty, Failing, Checks, LdChecks
  <2> QED
    BY <2>1, <2>2 DEF HeadsInv
<1> QED
  BY <1>1, <1>2, <1>3, <1>4, <1>5 DEF DecodeNext

(* Before the first slot is read it holds,                                 *)
LEMMA UndecodedHeads == Undecoded => HeadsInv
<1> SUFFICES ASSUME Undecoded PROVE HeadsInv
  OBVIOUS
<1>1. raw \in Seq(RawInsn) /\ dpc = 0 /\ insns = <<>> /\ dstage \in {"generating", "decoding"}
  BY DEF Undecoded
<1>2. Heads(raw) \subseteq 0 .. Len(raw) - 1 /\ (Len(raw) > 0 => 0 \in Heads(raw))
  BY <1>1, HeadsFacts
<1>3. {insns[k].slot : k \in 1 .. Len(insns)} = {} /\ {s \in Heads(raw) : s < dpc} = {}
  BY <1>1, <1>2
<1> QED
  BY <1>1, <1>2, <1>3 DEF HeadsInv

(* and it says that a program is decoded exactly if no slot that begins an *)
(* instruction is faulty, and that the first faulty one is blamed.         *)
LEMMA FaultsReported == DecodeInv /\ HeadsInv => FirstFaultReported
<1> SUFFICES ASSUME DecodeInv, HeadsInv PROVE FirstFaultReported
  OBVIOUS
<1>1. /\ raw \in Seq(RawInsn) /\ DOMAIN insns = 1 .. Len(insns)
      /\ Heads(raw) \subseteq 0 .. Len(raw) - 1
  BY HeadsFacts DEF DecodeInv, DecodeTypeOK
<1>2. ASSUME NEW s \in Heads(raw), s < dpc
      PROVE  ~ Faulty(s)
  <2>1. s \in {insns[k].slot : k \in 1 .. Len(insns)}
    BY <1>2 DEF HeadsInv
  <2> QED
    BY <2>1 DEF DecodeInv, Translated
<1>3. dstage = "decoded" => {s \in Heads(raw) : s < dpc} = Heads(raw)
  BY <1>1 DEF HeadsInv
<1> QED
  BY <1>1, <1>2, <1>3 DEF HeadsInv, FirstFaultReported

----------------------------------------------------------------------------
(* The generator.                                                          *)

(* Raw slots a program has once its size is drawn: the initialisations,    *)
(* what the loop pushes, and the exit.                                     *)
Slots == header + remaining + 1

(* What the loop may push as slot k of m.  A branch stays short of the     *)
(* exit.                                                                   *)
ArithmeticSlot(d, s, r) ==
  r \in {AluImm(BPF_ALU64, d), AluImm(BPF_ALU, d), AluReg(d, s), MovImm(d)}
BodySlot(m, k, r) ==
  \/ \E d, s \in 0 .. 4 : ArithmeticSlot(d, s, r)
  \/ r.off \in Int /\ r.off >= 1 /\ k + r.off < m /\ \E d \in 0 .. 4 : r = JumpIf(d, r.off)

(* The same, of a decoded program of m instructions: what is at p.         *)
ArithmeticInsn(d, s, i) == i \in {Mov(d, Imm), Alu(d, Imm), Alu(d, s)}
BodyInsn(m, p, i) ==
  \/ \E d, s \in 0 .. 4 : ArithmeticInsn(d, s, i)
  \/ /\ i.off \in Int /\ i.off >= 1 /\ p + 1 + i.off < m
     /\ \E d \in 0 .. 4 : i = JmpCond(d, Imm, i.off)

(* A slot of an arithmetic class, of operation 0 or a move, has no fault.  *)
LEMMA PlainArithmetic ==
  ASSUME NEW s \in Nat, NEW r \in RawInsn, raw[s + 1] = r,
         insn_class(r) \in {BPF_ALU, BPF_ALU64}, op_bits(r) \in {0, BPF_MOV},
         r.dst \in Regs, UsesX(r) => r.src \in Regs
  PROVE  ~ Faulty(s)
<1>1. Checks(s) = AluChecks(r)
  BY DEF Checks, BPF_LD, BPF_LDX, BPF_ST, BPF_STX, BPF_ALU, BPF_JMP,
    BPF_JMP32, BPF_ALU64
<1>2. op_bits(r) # BPF_END /\ op_bits(r) \in AluOps
  BY DEF BPF_END, BPF_MOV, AluOps
<1>3. Checks(s) = <<BadDst(r), NotOneOf(r, AluOps), BadSource(r)>>
  BY <1>1, <1>2 DEF AluChecks
<1>4. BadDst(r)[1] = FALSE /\ NotOneOf(r, AluOps)[1] = FALSE /\ BadSource(r)[1] = FALSE
  BY <1>2 DEF BadDst, NotOneOf, BadSource
<1>5. \A k \in DOMAIN Checks(s) : Checks(s)[k][1] = FALSE
  BY <1>3, <1>4
<1> QED
  BY <1>5 DEF Faulty, Failing

(* Neither has one of a branch of an operation other than a jump, a call   *)
(* or an exit, nor the exit.                                               *)
LEMMA PlainBranch ==
  ASSUME NEW s \in Nat, NEW r \in RawInsn, raw[s + 1] = r, insn_class(r) = BPF_JMP,
         op_bits(r) \in {16, BPF_EXIT}, r.dst \in Regs, ~ UsesX(r)
  PROVE  ~ Faulty(s)
<1>1. Checks(s) = JmpChecks(r)
  BY DEF Checks, BPF_LD, BPF_LDX, BPF_ST, BPF_STX, BPF_ALU, BPF_JMP,
    BPF_JMP32, BPF_ALU64
<1>2. CASE op_bits(r) = BPF_EXIT
  <2>1. DOMAIN Checks(s) = {}
    BY <1>1, <1>2 DEF JmpChecks
  <2> QED
    BY <2>1 DEF Faulty, Failing
<1>3. CASE op_bits(r) = 16
  <2>1. 16 \in JmpOps /\ 16 \notin {BPF_JA, BPF_CALL, BPF_EXIT}
    BY DEF JmpOps, BPF_JA, BPF_CALL, BPF_EXIT
  <2>2. Checks(s) = <<NotOneOf(r, JmpOps), BadDst(r), BadSource(r)>>
    BY <1>1, <1>3, <2>1 DEF JmpChecks, BranchChecks
  <2>3. BadDst(r)[1] = FALSE /\ NotOneOf(r, JmpOps)[1] = FALSE /\ BadSource(r)[1] = FALSE
    BY <1>3, <2>1 DEF BadDst, NotOneOf, BadSource
  <2>4. \A k \in DOMAIN Checks(s) : Checks(s)[k][1] = FALSE
    BY <2>2, <2>3
  <2> QED
    BY <2>4 DEF Faulty, Failing
<1> QED
  BY <1>2, <1>3

(* The slots of the initialisations and of the arithmetic.                 *)
LEMMA ArithmeticSlots ==
  ASSUME NEW d \in 0 .. 9, NEW s \in 0 .. 9, NEW r, ArithmeticSlot(d, s, r)
  PROVE  /\ r \in RawInsn /\ r.dst = d /\ insn_class(r) # BPF_LD
         /\ \A k \in Nat : raw[k + 1] = r => ~ Faulty(k)
         /\ ArithmeticInsn(d, s, Decoded(r))
         /\ r = MovImm(d) => Decoded(r) = Mov(d, Imm)
<1> USE DEF BPF_ALU, BPF_ALU64, BPF_MOV
<1>1. /\ r \in RawInsn /\ r.dst = d
      /\ \/ r.opcode = 183 /\ r.src = 0
         \/ r.opcode \in {4, 7} /\ r.src = 0
         \/ r.opcode = 15 /\ r.src = s
  BY DEF ArithmeticSlot, AluImm, AluReg, MovImm, make_raw, RawInsn
<1>2. r = MovImm(d) => r.opcode = 183
  BY DEF MovImm, make_raw
<1>3. r.dst \in Regs /\ r.src \in Regs
  BY <1>1 DEF Regs, NUM_REGS
<1>4. CASE r.opcode = 183
  <2>1. insn_class(r) = 7 /\ op_bits(r) = 176 /\ ~ UsesX(r)
    BY <1>4 DEF insn_class, op_bits, UsesX
  <2>2. Decoded(r) = Mov(d, Imm)
    BY <1>1, <2>1 DEF Decoded, decode_alu, source, BPF_END, BPF_LD, BPF_LDX,
      BPF_ST, BPF_STX, BPF_JMP, BPF_JMP32
  <2>3. \A k \in Nat : raw[k + 1] = r => ~ Faulty(k)
    BY <1>1, <1>3, <2>1, PlainArithmetic
  <2> QED
    BY <1>1, <2>1, <2>2, <2>3 DEF ArithmeticInsn, BPF_LD
<1>5. CASE r.opcode \in {4, 7, 15}
  <2>1. insn_class(r) \in {4, 7} /\ op_bits(r) = 0 /\ (UsesX(r) <=> r.opcode = 15)
    BY <1>5 DEF insn_class, op_bits, UsesX
  <2>2. Decoded(r) = Alu(d, source(r)) /\ source(r) \in {s, Imm}
    BY <1>1, <1>5, <2>1 DEF Decoded, decode_alu, source, BPF_END, BPF_LD, BPF_LDX,
      BPF_ST, BPF_STX, BPF_JMP, BPF_JMP32
  <2>3. \A k \in Nat : raw[k + 1] = r => ~ Faulty(k)
    BY <1>1, <1>3, <2>1, PlainArithmetic
  <2> QED
    BY <1>1, <1>2, <1>5, <2>1, <2>2, <2>3 DEF ArithmeticInsn, BPF_LD
<1> QED
  BY <1>1, <1>4, <1>5

(* The slots of a branch and of the exit.                                  *)
LEMMA BranchSlots ==
  ASSUME NEW d \in 0 .. 4, NEW o \in Int, NEW r, r = JumpIf(d, o) \/ r = ExitSlot
  PROVE  /\ r \in RawInsn /\ insn_class(r) # BPF_LD
         /\ \A k \in Nat : raw[k + 1] = r => ~ Faulty(k)
         /\ r = JumpIf(d, o) => Decoded(r) = JmpCond(d, Imm, o)
         /\ r = ExitSlot => Decoded(r) = Exit
<1>1. /\ r \in RawInsn /\ r.dst \in Regs
      /\ r = JumpIf(d, o) => r.opcode = 21 /\ r.dst = d /\ r.off = o
      /\ r = ExitSlot => r.opcode = 149
  BY DEF JumpIf, ExitSlot, make_raw, RawInsn, Regs, NUM_REGS, BPF_JMP, BPF_EXIT
<1>2. /\ insn_class(r) = BPF_JMP /\ ~ UsesX(r)
      /\ r = JumpIf(d, o) => op_bits(r) = 16
      /\ r = ExitSlot => op_bits(r) = BPF_EXIT
  BY <1>1 DEF insn_class, op_bits, UsesX, BPF_JMP, BPF_EXIT
<1>3. \A k \in Nat : raw[k + 1] = r => ~ Faulty(k)
  BY <1>1, <1>2, PlainBranch
<1>4. Decoded(r) = decode_jmp(r) /\ insn_class(r) # BPF_LD
  BY <1>2 DEF Decoded, BPF_LD, BPF_LDX, BPF_ST, BPF_STX, BPF_ALU, BPF_JMP,
    BPF_JMP32, BPF_ALU64
<1>5. r = JumpIf(d, o) => Decoded(r) = JmpCond(d, Imm, o)
  BY <1>1, <1>2, <1>4 DEF decode_jmp, decode_jmp32, source, BPF_JA, BPF_CALL, BPF_EXIT
<1>6. r = ExitSlot => Decoded(r) = Exit
  BY <1>2, <1>4 DEF decode_jmp, BPF_JA, BPF_CALL, BPF_EXIT
<1> QED
  BY <1>1, <1>3, <1>4, <1>5, <1>6

(* What the loop pushed decodes without a fault.                           *)
LEMMA BodySlots ==
  ASSUME NEW m, NEW k \in Nat \ {0}, NEW r, BodySlot(m, k, r)
  PROVE  /\ r \in RawInsn /\ insn_class(r) # BPF_LD
         /\ raw[k] = r => ~ Faulty(k - 1)
         /\ BodyInsn(m, k - 1, Decoded(r))
<1>0. k - 1 \in Nat /\ (k - 1) + 1 = k
  OBVIOUS
<1>1. CASE \E d, s \in 0 .. 4 : ArithmeticSlot(d, s, r)
  <2>1. PICK d \in 0 .. 4, s \in 0 .. 4 : ArithmeticSlot(d, s, r)
    BY <1>1
  <2>2. d \in 0 .. 9 /\ s \in 0 .. 9
    OBVIOUS
  <2> QED
    BY <1>0, <2>1, <2>2, ArithmeticSlots DEF BodyInsn
<1>2. CASE r.off \in Int /\ r.off >= 1 /\ k + r.off < m /\ \E d \in 0 .. 4 : r = JumpIf(d, r.off)
  <2>1. PICK d \in 0 .. 4, o \in Int : r = JumpIf(d, o) /\ o >= 1 /\ k + o < m
    BY <1>2
  <2>2. Decoded(r) = JmpCond(d, Imm, o)
    BY <2>1, BranchSlots
  <2>3. JmpCond(d, Imm, o).off = o
    BY DEF JmpCond, Op
  <2>4. BodyInsn(m, k - 1, Decoded(r))
    BY <1>0, <2>1, <2>2, <2>3 DEF BodyInsn
  <2> QED
    BY <1>0, <2>1, <2>4, BranchSlots
<1> QED
  BY <1>1, <1>2 DEF BodySlot

(* What the generator has pushed: the initialisations of R0, R1 and of     *)
(* others, then the body, then the exit.  It decodes slot by slot.         *)
GeneratorInv ==
  /\ n \in Nat /\ header \in Nat
  /\ dstage = "generating" => Undecoded /\ (raw = <<>> <=> ~ Generated)
  /\ Generated =>
       /\ header \in 2 .. Len(raw) /\ Slots <= MAX_INSNS
       /\ raw[1] = MovImm(0) /\ raw[2] = MovImm(1)
       /\ \A k \in 1 .. header : \E d \in 0 .. 9 : raw[k] = MovImm(d)
       /\ \A k \in header + 1 .. Len(raw) : k < Slots => BodySlot(Slots, k, raw[k])
       /\ IF dstage = "generating" THEN Len(raw) < Slots
          ELSE Len(raw) = Slots /\ raw[Slots] = ExitSlot
       /\ dstage # "rejected"
       /\ dpc = Len(insns) /\ \A k \in 1 .. Len(insns) : insns[k].slot = k - 1

(* The size is the one drawn, or what the initialisations and the exit     *)
(* need.                                                                   *)
LEMMA SlotsFacts ==
  ASSUME n \in Nat, header \in Nat
  PROVE  /\ Slots \in Nat /\ remaining \in Nat
         /\ Slots = IF n > header + 1 THEN n ELSE header + 1
BY DEF Slots, remaining, Monus

(* The initialisations fit, and are moves to registers below R10.          *)
LEMMA HeaderDrawn ==
  ASSUME GeneratorInv, DrawHeader
  PROVE  GeneratorInv'
<1>1. /\ n = 0 /\ Undecoded /\ dstage = "generating" /\ raw = <<>> /\ dpc = 0 /\ insns = <<>>
  BY DEF GeneratorInv, DrawHeader, Generated, Undecoded
<1>2. PICK k \in 0 .. Monus(max_insns, 3) : n' = 2 + k
  BY DEF DrawHeader
<1>3. PICK S \in SUBSET InitRegs : \E order \in [1 .. Cardinality(S) -> S] :
        raw' = [j \in 1 .. 2 + Cardinality(S) |-> MovImm(IF j <= 2 THEN j - 1 ELSE order[j - 2])]
  BY DEF DrawHeader
<1>4. PICK order \in [1 .. Cardinality(S) -> S] :
        raw' = [j \in 1 .. 2 + Cardinality(S) |-> MovImm(IF j <= 2 THEN j - 1 ELSE order[j - 2])]
  BY <1>3
<1>5. /\ Cardinality(S) \in Nat /\ Cardinality(InitRegs) \in Nat
      /\ Cardinality(S) <= Cardinality(InitRegs)
  <2>1. IsFiniteSet(2 .. 9)
    <3>1. PICK a \in Int, b \in Int : a = 2 /\ b = 9
      OBVIOUS
    <3>2. IsFiniteSet(a .. b)
      BY FS_Interval
    <3> QED
      BY <3>1, <3>2
  <2>2. IsFiniteSet(InitRegs)
    BY <2>1, FS_Subset, GeneratorAssumption
  <2> QED
    BY <2>2, FS_Subset, FS_CardinalityType
<1> PICK c \in Nat : c = Cardinality(S) /\ c + 3 <= MAX_INSNS
  BY <1>5, SizeAssumption, MaxInsnsAssumption
<1>6. /\ header' = Len(raw') /\ UNCHANGED <<vvars, dstage, dpc, insns, decodeError>>
  BY DEF DrawHeader
<1>7. ASSUME NEW j \in 1 .. 2 + c
      PROVE  \E d \in 0 .. 9 : raw'[j] = MovImm(d)
  <2>1. CASE j <= 2
    BY <1>4, <2>1
  <2>2. CASE j > 2
    <3>1. j - 2 \in 1 .. Cardinality(S)
      BY <1>7, <2>2
    <3>2. order[j - 2] \in S
      BY <3>1
    <3>3. order[j - 2] \in 0 .. 9
      <4>1. S \subseteq 2 .. 9
        BY GeneratorAssumption
      <4>2. \A x \in 2 .. 9 : x \in 0 .. 9
        OBVIOUS
      <4> QED
        BY <3>2, <4>1, <4>2, Zenon
    <3> QED
      BY <1>4, <2>2, <3>3
  <2> QED
    BY <2>1, <2>2
<1>8. raw' \in Seq(RawInsn) /\ Len(raw') = 2 + c /\ raw'[1] = MovImm(0) /\ raw'[2] = MovImm(1)
  <2>1. \A d \in 0 .. 9 : MovImm(d) \in RawInsn
    BY DEF MovImm, make_raw, RawInsn, BPF_ALU64, BPF_MOV
  <2>2. \A j \in 1 .. 2 + c : raw'[j] \in RawInsn
    BY <1>7, <2>1
  <2>3. raw' = [j \in 1 .. 2 + c |-> raw'[j]]
    BY <1>4
  <2>4. raw' \in Seq(RawInsn) /\ Len(raw') = 2 + c
    <3> HIDE <1>4
    <3> QED
      BY <2>2, <2>3
  <2> QED
    BY <1>4, <2>4
<1>9. n' <= MAX_INSNS \/ n' = 2
  BY <1>2, SizeAssumption, GeneratorAssumption, MaxInsnsAssumption DEF Monus
<1>10. Undecoded' /\ Generated' /\ n' \in Nat /\ header' = 2 + c
  BY <1>1, <1>2, <1>6, <1>8, GeneratorAssumption DEF Undecoded, Generated, Monus
<1>11. Slots' = IF n' > header' + 1 THEN n' ELSE header' + 1
  BY <1>10 DEF Slots, remaining, Monus
<1>12. Slots' <= MAX_INSNS /\ Len(raw') < Slots'
  BY <1>8, <1>9, <1>10, <1>11, MaxInsnsAssumption
<1>13. raw' # <<>>
  BY <1>8
<1>14. dpc' = Len(insns') /\ Len(insns') = 0 /\ dstage' = "generating"
  BY <1>1, <1>6
<1> QED
  BY <1>7, <1>8, <1>10, <1>12, <1>13, <1>14 DEF GeneratorInv

(* One slot more, which fits the body or is the exit.                      *)
LEMMA SlotPushed ==
  ASSUME GeneratorInv, dstage = "generating", raw # <<>>,
         NEW r \in RawInsn, raw' = Append(raw, r),
         UNCHANGED <<dpc, insns, decodeError, gvars>>,
         \/ dstage' = "generating" /\ Len(raw) + 1 < Slots /\ BodySlot(Slots, Len(raw) + 1, r)
         \/ dstage' = "decoding" /\ Len(raw) + 1 = Slots /\ r = ExitSlot
  PROVE  GeneratorInv' /\ Undecoded'
<1> PICK l \in Nat : l = Len(raw) /\ raw \in Seq(RawInsn)
  BY DEF GeneratorInv, Undecoded
<1>1. /\ Len(raw') = l + 1 /\ raw' \in Seq(RawInsn) /\ raw'[l + 1] = r /\ raw' # <<>>
      /\ \A k \in 1 .. l : raw'[k] = raw[k]
  <2> HIDE DEF RawInsn
  <2> QED
    OBVIOUS
<1>2. Undecoded' /\ Undecoded
  BY <1>1 DEF GeneratorInv, Undecoded
<1>3. /\ n' = n /\ header' = header /\ Slots' = Slots /\ Generated /\ Generated'
      /\ insns' = insns /\ dpc' = dpc
  BY DEF gvars, Slots, remaining, GeneratorInv, Generated
<1>4. /\ header \in 2 .. l /\ Slots <= MAX_INSNS /\ Slots \in Nat
      /\ raw[1] = MovImm(0) /\ raw[2] = MovImm(1)
      /\ \A k \in 1 .. header : \E d \in 0 .. 9 : raw[k] = MovImm(d)
      /\ \A k \in header + 1 .. l : k < Slots => BodySlot(Slots, k, raw[k])
      /\ dpc = Len(insns) /\ \A k \in 1 .. Len(insns) : insns[k].slot = k - 1
  BY <1>3, SlotsFacts DEF GeneratorInv
<1>6. \A k \in 1 .. header' : \E d \in 0 .. 9 : raw'[k] = MovImm(d)
  BY <1>1, <1>3, <1>4
<1>7. ASSUME NEW k \in header' + 1 .. Len(raw'), k < Slots'
      PROVE  BodySlot(Slots', k, raw'[k])
  <2>1. CASE k = l + 1
    BY <1>1, <1>3, <1>7, <2>1
  <2>2. CASE k # l + 1
    <3>1. k \in header + 1 .. l /\ raw'[k] = raw[k]
      BY <1>1, <1>3, <1>4, <2>2
    <3> QED
      BY <1>3, <1>4, <1>7, <3>1
  <2> QED
    BY <2>1, <2>2
<1>8. IF dstage' = "generating" THEN Len(raw') < Slots'
      ELSE Len(raw') = Slots' /\ raw'[Slots'] = ExitSlot
  BY <1>1, <1>3, <1>4
<1>9. raw'[1] = MovImm(0) /\ raw'[2] = MovImm(1) /\ header' \in 2 .. Len(raw')
  BY <1>1, <1>3, <1>4
<1>10. n' \in Nat /\ header' \in Nat /\ dstage' # "rejected"
  BY <1>3 DEF GeneratorInv
<1> QED
  BY <1>1, <1>2, <1>3, <1>4, <1>6, <1>7, <1>8, <1>9, <1>10 DEF GeneratorInv

(* Every step of the generator keeps that, and begins a new decoding.      *)
LEMMA GenerateStep ==
  ASSUME GeneratorInv, GenerateNext
  PROVE  GeneratorInv' /\ Undecoded' /\ UNCHANGED vvars
<1>g. dstage = "generating" /\ raw \in Seq(RawInsn) /\ n \in Nat /\ header \in Nat
  BY DEF GenerateNext, DrawHeader, PushArithmetic, PushBranch, PushMov, PushExit, Loop, GeneratorInv,
    Undecoded
<1>r. Slots \in Nat /\ remaining \in Nat /\ remaining = Slots - header - 1
  BY <1>g, SlotsFacts DEF Slots
<1> PICK l \in Nat, h \in Nat, m \in Nat :
      /\ l = Len(raw) /\ h = header /\ m = Slots /\ remaining = m - h - 1
      /\ raw # <<>> => h <= l /\ l < m
  BY <1>g, <1>r DEF GeneratorInv
<1>1. ASSUME NEW d \in 0 .. 4, NEW s \in 0 .. 4, NEW r, ArithmeticSlot(d, s, r), Loop, Push(r)
      PROVE  GeneratorInv' /\ Undecoded' /\ UNCHANGED vvars
  <2>1. d \in 0 .. 9 /\ s \in 0 .. 9 /\ r \in RawInsn
    BY <1>1, ArithmeticSlots
  <2>2. BodySlot(Slots, Len(raw) + 1, r)
    BY <1>1 DEF BodySlot
  <2>3. Len(raw) + 1 < Slots /\ raw # <<>> /\ dstage = "generating"
    BY <1>1 DEF Loop
  <2> QED
    BY <1>1, <2>1, <2>2, <2>3, SlotPushed DEF Push
<1>2. CASE DrawHeader
  BY <1>2, HeaderDrawn DEF DrawHeader, GeneratorInv
<1>3. CASE PushArithmetic
  <2>1. PICK d \in DstRegs, s \in DstRegs :
          \E r \in {AluImm(BPF_ALU64, d), AluImm(BPF_ALU, d), AluReg(d, s), MovImm(d)} : Push(r)
    BY <1>3 DEF PushArithmetic
  <2>2. d \in 0 .. 4 /\ s \in 0 .. 4 /\ Loop
    BY <1>3, GeneratorAssumption DEF PushArithmetic
  <2> QED
    BY <1>1, <2>1, <2>2 DEF ArithmeticSlot
<1>4. CASE PushMov
  <2>1. Loop /\ Push(MovImm(0)) /\ ArithmeticSlot(0, 0, MovImm(0))
    BY <1>4 DEF PushMov, R0, ArithmeticSlot
  <2> QED
    BY <1>1, <2>1
<1>5. CASE PushBranch
  <2>1. PICK d \in DstRegs, off \in BranchOffsets : Push(JumpIf(d, off))
    BY <1>5 DEF PushBranch
  <2>2. /\ d \in 0 .. 4 /\ raw # <<>> /\ dstage = "generating"
        /\ Len(raw) < header + remaining /\ space_left > 2
    BY <1>5, GeneratorAssumption DEF PushBranch, Loop
  <2>3. off \in Int /\ off >= 1 /\ l + 1 + off < m /\ l + 1 < m
    BY <2>2 DEF BranchOffsets, space_left
  <2>4. JumpIf(d, off) \in RawInsn /\ JumpIf(d, off).off = off
    BY <2>2, <2>3, BranchSlots DEF JumpIf, make_raw
  <2>5. BodySlot(Slots, Len(raw) + 1, JumpIf(d, off))
    BY <2>2, <2>3, <2>4 DEF BodySlot
  <2> QED
    BY <2>1, <2>2, <2>3, <2>4, <2>5, SlotPushed DEF Push
<1>6. CASE PushExit
  <2>1. /\ raw # <<>> /\ dstage = "generating" /\ l + 1 = m
        /\ raw' = Append(raw, ExitSlot) /\ dstage' = "decoding"
        /\ UNCHANGED <<vvars, dpc, insns, decodeError, gvars>>
    BY <1>6 DEF PushExit
  <2>2. ExitSlot \in RawInsn
    BY DEF ExitSlot, make_raw, RawInsn, BPF_JMP, BPF_EXIT
  <2> QED
    BY <2>1, <2>2, SlotPushed
<1> QED
  BY <1>2, <1>3, <1>4, <1>5, <1>6 DEF GenerateNext

(* The decoder refuses none of it, and takes one slot at a time.           *)
LEMMA GeneratedDecodes ==
  ASSUME DecodeInv, GeneratorInv, Generated, dstage # "generating",
         NEW s \in 0 .. Len(raw) - 1
  PROVE  ~ Faulty(s) /\ insn_class(raw[s + 1]) # BPF_LD
<1> PICK l \in Nat, h \in Nat, m \in Nat :
      l = Len(raw) /\ h = header /\ m = Slots /\ l = m /\ h >= 2 /\ h <= l
  BY SlotsFacts DEF GeneratorInv, DecodeInv, DecodeTypeOK
<1>1. CASE s + 1 \in 1 .. h
  <2>1. PICK d \in 0 .. 9 : raw[s + 1] = MovImm(d)
    BY <1>1 DEF GeneratorInv
  <2> QED
    <3>1. ArithmeticSlot(d, d, MovImm(d)) /\ s \in Nat
      BY DEF ArithmeticSlot
    <3> QED
      BY <2>1, <3>1, ArithmeticSlots
<1>2. CASE s + 1 \in h + 1 .. m - 1
  <2>1. BodySlot(m, s + 1, raw[s + 1]) /\ s + 1 \in Nat \ {0} /\ (s + 1) - 1 = s
    BY <1>2 DEF GeneratorInv
  <2> QED
    BY <2>1, BodySlots
<1>3. CASE s + 1 = m
  <2>1. raw[s + 1] = ExitSlot /\ 0 \in 0 .. 4 /\ 0 \in Int /\ s \in Nat
    BY <1>3 DEF GeneratorInv
  <2> QED
    BY <2>1, BranchSlots
<1> QED
  BY <1>1, <1>2, <1>3

(* The decoder's steps, and the verifier's, keep the generator's promise.  *)
LEMMA DecoderKeepsGenerated ==
  ASSUME DecodeInv, GeneratorInv, [DecodeNext \/ VerifyDecoded]_<<vvars, dvars>>,
         UNCHANGED gvars
  PROVE  GeneratorInv'
<1>1. /\ n' = n /\ header' = header /\ Slots' = Slots /\ (Generated' <=> Generated)
  BY DEF gvars, Slots, remaining, Generated
<1>2. CASE UNCHANGED dvars
  BY <1>1, <1>2 DEF dvars, GeneratorInv, Undecoded
<1>3. CASE DecodeNext
  <2>1. /\ dstage = "decoding" /\ dstage' # "generating" /\ raw' = raw
    BY <1>3 DEF DecodeNext, RejectEmpty, RejectTooLarge, DecodeError, DecodeInsn, ReturnInsns,
      RefuseProgram, InLoop
  <2>2. CASE ~ Generated
    BY <1>1, <2>1, <2>2 DEF GeneratorInv
  <2>3. CASE Generated
    <3> PICK l \in Nat, k \in Nat : l = Len(raw) /\ k = Len(insns) /\ dpc = k
      BY <2>3 DEF GeneratorInv, DecodeInv, DecodeTypeOK
    <3>1. l <= MAX_INSNS /\ l >= 2
      BY <2>1, <2>3 DEF GeneratorInv
    <3>2. raw # <<>>
      BY <3>1
    <3>3. dpc < Len(raw) => ~ Faulty(dpc) /\ Size = 1
      BY <2>1, <2>3, GeneratedDecodes DEF Size
    <3>4. /\ dstage' # "rejected"
          /\ dpc' = Len(insns') /\ \A j \in 1 .. Len(insns') : insns'[j].slot = j - 1
      <4>1. CASE DecodeInsn
        <5> DEFINE new == [insn |-> Decoded(raw[dpc + 1]), slot |-> dpc]
                   T == [insn : Insn, slot : 0 .. dpc - 1]
        <5>1. insns' = Append(insns, new) /\ dpc' = k + 1 /\ dstage' = "decoding" /\ new.slot = k
          BY <3>3, <4>1 DEF DecodeInsn, InLoop
        <5>2. insns \in Seq(T)
          BY DEF DecodeInv, DecodeTypeOK
        <5>3. /\ Len(insns') = k + 1 /\ insns'[k + 1] = new
              /\ \A j \in 1 .. k : insns'[j] = insns[j]
          <6> HIDE DEF new, T
          <6> QED
            BY <5>1, <5>2
        <5>4. \A j \in 1 .. k : insns[j].slot = j - 1
          BY <2>3 DEF GeneratorInv
        <5> HIDE DEF new
        <5> QED
          BY <5>1, <5>3, <5>4
      <4>2. CASE ReturnInsns
        BY <2>3, <4>2 DEF ReturnInsns, GeneratorInv
      <4>3. ~ RejectEmpty /\ ~ RejectTooLarge /\ ~ DecodeError
        BY <3>1, <3>2, <3>3, MaxInsnsAssumption DEF RejectEmpty, RejectTooLarge, DecodeError, InLoop
      <4> QED
        BY <1>3, <4>1, <4>2, <4>3 DEF DecodeNext
    <3> QED
      BY <1>1, <2>1, <2>3, <3>4 DEF GeneratorInv
  <2> QED
    BY <2>2, <2>3
<1> QED
  BY <1>2, <1>3 DEF VerifyDecoded

----------------------------------------------------------------------------
(* The pipeline: generator, decoder and verifier together.                 *)

(* The verifier has no program before it is handed one, and judges it as   *)
(* it would any other.                                                     *)
PipelineInv ==
  /\ DecodeInv /\ HeadsInv /\ GeneratorInv /\ JudgingInv
  /\ dstage # "decoded" => IdleVerifier

(* It holds of a client's program, and of one yet to be generated.         *)
LEMMA PipelineStart == PipelineInit => PipelineInv
<1> SUFFICES ASSUME PipelineInit PROVE PipelineInv
  OBVIOUS
<1>1. Undecoded /\ IdleVerifier /\ n = 0 /\ header = 0 /\ (dstage = "generating" => raw = <<>>)
  <2>1. CASE raw \in RawPrograms /\ dstage = "decoding"
    BY <2>1, RawAssumption DEF PipelineInit, Undecoded
  <2>2. CASE raw = <<>> /\ dstage = "generating"
    BY <2>2, EmptySeq DEF PipelineInit, Undecoded
  <2> QED
    BY <2>1, <2>2 DEF PipelineInit
<1>2. DecodeInv /\ HeadsInv
  BY <1>1, UndecodedInv, UndecodedHeads
<1>3. GeneratorInv
  BY <1>1 DEF GeneratorInv, Generated
<1>4. prog \in Seq(Insn) /\ TailCallFree(prog) /\ Unverified
  <2>1. prog = <<>> /\ Unverified
    BY <1>1 DEF IdleVerifier
  <2>2. <<>> \in Seq(Insn)
    BY EmptySeq
  <2>3. Pcs(<<>>) = {}
    BY DEF Pcs
  <2> QED
    BY <2>1, <2>2, <2>3 DEF TailCallFree
<1> QED
  BY <1>1, <1>2, <1>3, <1>4, JudgingStart DEF PipelineInv

(* After a step that leaves nothing decoded the decoder's state is right,  *)
LEMMA BegunAnew == (Undecoded => DecodeInv /\ HeadsInv)'
<1>1. Undecoded => DecodeInv /\ HeadsInv
  BY UndecodedInv, UndecodedHeads
<1> QED
  BY <1>1, PTL

(* and after one that hands a program over the verifier's is.              *)
LEMMA HandedOverAnew == (dstage = "decoded" /\ DecodeInv /\ Unverified => JudgingInv)'
<1>1. dstage = "decoded" /\ DecodeInv /\ Unverified => JudgingInv
  BY OutputIsProgram, JudgingStart DEF DecodesToInsns
<1> QED
  BY <1>1, PTL

(* Every step keeps it.                                                    *)
LEMMA PipelineStep == PipelineInv /\ [PipelineNext]_PipelineVars => PipelineInv'
<1> SUFFICES ASSUME PipelineInv, [PipelineNext]_PipelineVars PROVE PipelineInv'
  OBVIOUS
<1>1. DecodeInv /\ HeadsInv /\ GeneratorInv /\ JudgingInv
  BY DEF PipelineInv
<1>2. ASSUME UNCHANGED vvars
      PROVE  JudgingInv' /\ (IdleVerifier => IdleVerifier')
  BY <1>1, <1>2, JudgingStep DEF IdleVerifier, Unverified, vvars
<1>3. CASE GenerateNext
  <2>1. GeneratorInv' /\ Undecoded' /\ UNCHANGED vvars
    BY <1>1, <1>3, GenerateStep
  <2>2. dstage # "decoded"
    BY <1>3 DEF GenerateNext, DrawHeader, PushArithmetic, PushBranch, PushMov, PushExit, Loop
  <2> QED
    BY <1>2, <2>1, <2>2, BegunAnew DEF PipelineInv
<1>4. CASE \/ (DecodeNext \/ VerifyDecoded) /\ UNCHANGED gvars
           \/ UNCHANGED PipelineVars
  <2>1. [DecodeNext \/ VerifyDecoded]_<<vvars, dvars>> /\ UNCHANGED gvars
    BY <1>4 DEF PipelineVars
  <2>2. DecodeInv' /\ HeadsInv' /\ GeneratorInv'
    BY <1>1, <2>1, DecodeStep, HeadsStep, DecoderKeepsGenerated
  <2>3. CASE ReturnInsns
    <3>1. IdleVerifier /\ dstage' = "decoded"
      BY <2>3 DEF PipelineInv, ReturnInsns
    <3>2. Unverified'
      BY <2>3, <3>1 DEF ReturnInsns, IdleVerifier, Unverified
    <3> QED
      BY <2>2, <3>1, <3>2, HandedOverAnew DEF PipelineInv
  <2>4. CASE VerifyDecoded
    <3>1. Next /\ dstage' = "decoded"
      BY <2>4 DEF VerifyDecoded, dvars
    <3> QED
      BY <1>1, <2>2, <3>1, JudgingStep DEF PipelineInv
  <2>5. CASE RejectEmpty \/ RejectTooLarge \/ DecodeError \/ DecodeInsn
    <3>1. UNCHANGED vvars /\ dstage # "decoded"
      BY <2>5 DEF RejectEmpty, RejectTooLarge, DecodeError, DecodeInsn, InLoop, RefuseProgram
    <3> QED
      BY <1>2, <2>2, <3>1 DEF PipelineInv
  <2>6. CASE UNCHANGED <<vvars, dvars>>
    <3>1. UNCHANGED vvars /\ dstage' = dstage
      BY <2>6 DEF dvars
    <3> QED
      BY <1>2, <2>2, <3>1 DEF PipelineInv
  <2> QED
    BY <2>1, <2>3, <2>4, <2>5, <2>6 DEF DecodeNext
<1> QED
  BY <1>3, <1>4 DEF PipelineNext

(* So it holds in every state.                                             *)
LEMMA PipelineInvariant == PipelineSpec => []PipelineInv
BY PipelineStart, PipelineStep, PTL DEF PipelineSpec

(* The decoder's state is right and its output in step with its cursor, on *)
(* a client's program and on a generated one.                              *)
THEOREM DecoderTypeCorrect == PipelineSpec => []DecodeTypeOK
<1>1. PipelineInv => DecodeTypeOK
  BY DEF PipelineInv, DecodeInv
<1> QED
  BY <1>1, PipelineInvariant, PTL

(* The program the verifier gets is a non-empty sequence of instructions   *)
(* with registers R0 to R10, none of them a tail call (decode.rs:76): what *)
(* the theorems about the verifier assume of Programs.                     *)
THEOREM DecoderOutputIsProgram == PipelineSpec => []DecodesToInsns
<1>1. PipelineInv => DecodesToInsns
  BY OutputIsProgram DEF PipelineInv
<1> QED
  BY <1>1, PipelineInvariant, PTL

(* A branch reaches the slot its raw offset names, moved away by one for   *)
(* every wide load it jumps over (decode.rs:63): offsets are not adjusted. *)
THEOREM WideLoadsShiftBranches == PipelineSpec => []BranchesShiftByWideLoads
<1>1. PipelineInv => BranchesShiftByWideLoads
  BY BranchesShift DEF PipelineInv
<1> QED
  BY <1>1, PipelineInvariant, PTL

(* A program is decoded exactly if no slot that begins an instruction is   *)
(* faulty; otherwise the first faulty one is blamed.                       *)
THEOREM FirstFaultIsReported == PipelineSpec => []FirstFaultReported
<1>1. PipelineInv => FirstFaultReported
  BY FaultsReported DEF PipelineInv
<1> QED
  BY <1>1, PipelineInvariant, PTL

(* Behind the decoder the verifier is right for every slice of raw slots,  *)
(* without an assumption on programs: its state is well-formed, its        *)
(* solution the meet over all paths, each error true of the program, and   *)
(* a program without backward branches settles in two sweeps (compile() in *)
(* jit-engine, lib.rs:65).                                                 *)
THEOREM VerdictsBehindDecoder ==
  PipelineSpec => [](/\ TypeOK /\ QuietSweepIsConsistent /\ SolutionIsMeetOverPaths
                     /\ RejectionsJustified /\ SweepsFollowBackwardBranches)
<1>1. PipelineInv => /\ TypeOK /\ QuietSweepIsConsistent /\ SolutionIsMeetOverPaths
                     /\ RejectionsJustified /\ SweepsFollowBackwardBranches
  BY JudgingGives DEF PipelineInv
<1> QED
  BY <1>1, PipelineInvariant, PTL

----------------------------------------------------------------------------
(* How the verifier judges a generated program.                            *)

(* The registers initialised before instruction p, of the first h.         *)
Known(slots, h, p) == {slots[k].dst : k \in {j \in 1 .. h : j <= p}}

(* A generated program of m instructions, decoded: h moves of a constant   *)
(* to R0, R1 and others, the body, an exit.                                *)
GeneratedShape(p, m, h) ==
  /\ m = Len(p) /\ h \in 2 .. m - 1
  /\ raw[1].dst = 0 /\ raw[2].dst = 1
  /\ \A q \in 0 .. h - 1 : raw[q + 1].dst \in 0 .. 9 /\ At(p, q) = Mov(raw[q + 1].dst, Imm)
  /\ \A q \in h .. m - 2 : BodyInsn(m, q, At(p, q))
  /\ At(p, m - 1) = Exit

(* That is what the generator's slots are decoded to.                      *)
LEMMA GeneratedDecodesTo ==
  ASSUME DecodeInv, HeadsInv, GeneratorInv, Generated, dstage = "decoded"
  PROVE  GeneratedShape(prog, Slots, header)
<1> PICK m \in Nat, h \in Nat : m = Slots /\ h = header /\ h + 1 <= m /\ h >= 2
  BY SlotsFacts DEF GeneratorInv
<1>1. /\ Len(raw) = m /\ raw[m] = ExitSlot /\ raw[1] = MovImm(0) /\ raw[2] = MovImm(1)
      /\ \A k \in 1 .. h : \E d \in 0 .. 9 : raw[k] = MovImm(d)
      /\ \A k \in h + 1 .. m : k < m => BodySlot(m, k, raw[k])
  BY DEF GeneratorInv
<1>2. Len(insns) = m /\ \A k \in 1 .. m : insns[k].slot = k - 1
  BY <1>1 DEF GeneratorInv, HeadsInv
<1>3. Len(prog) = m /\ \A q \in 0 .. m - 1 : At(prog, q) = Decoded(raw[q + 1])
  <2>1. Len(prog) = m /\ \A q \in Pcs(prog) : At(prog, q) = insns[q + 1].insn
    BY <1>2, HandedOverFacts
  <2>2. \A k \in 1 .. m : insns[k].insn = Decoded(raw[insns[k].slot + 1])
    BY <1>2 DEF DecodeInv, Translated
  <2>3. ASSUME NEW q \in 0 .. m - 1
        PROVE  At(prog, q) = Decoded(raw[q + 1])
    <3>1. q \in Pcs(prog) /\ q + 1 \in 1 .. m /\ insns[q + 1].slot = q
      BY <1>2, <2>1 DEF Pcs
    <3> QED
      BY <2>1, <2>2, <3>1
  <2> QED
    BY <2>1, <2>3
<1>4. raw[1].dst = 0 /\ raw[2].dst = 1
  BY <1>1 DEF MovImm, make_raw
<1>5. ASSUME NEW q \in 0 .. h - 1
      PROVE  raw[q + 1].dst \in 0 .. 9 /\ At(prog, q) = Mov(raw[q + 1].dst, Imm)
  <2>1. q + 1 \in 1 .. h /\ q \in 0 .. m - 1
    OBVIOUS
  <2>2. PICK d \in 0 .. 9 : raw[q + 1] = MovImm(d)
    BY <1>1, <2>1
  <2>3. ArithmeticSlot(d, d, MovImm(d))
    BY DEF ArithmeticSlot
  <2> QED
    BY <1>3, <2>1, <2>2, <2>3, ArithmeticSlots
<1>6. ASSUME NEW q \in h .. m - 2
      PROVE  BodyInsn(m, q, At(prog, q))
  <2>1. /\ q + 1 \in Nat \ {0} /\ (q + 1) - 1 = q /\ q \in 0 .. m - 1
        /\ q + 1 \in h + 1 .. m /\ q + 1 < m
    OBVIOUS
  <2>2. BodySlot(m, q + 1, raw[q + 1])
    BY <1>1, <2>1
  <2> QED
    BY <1>3, <2>1, <2>2, BodySlots
<1>7. At(prog, m - 1) = Exit
  <2>1. m - 1 \in 0 .. m - 1 /\ (m - 1) + 1 = m /\ 0 \in 0 .. 4 /\ 0 \in Int
    OBVIOUS
  <2> QED
    <3>1. Decoded(ExitSlot) = Exit
      BY <2>1, BranchSlots
    <3> QED
      BY <1>1, <1>3, <2>1, <3>1
<1> QED
  BY <1>3, <1>4, <1>5, <1>6, <1>7 DEF GeneratedShape

(* One instruction of it: no access, no write to R10, control goes on to   *)
(* the next and never back, and only R0 to R4 are read.                    *)
LEMMA GeneratedInsn ==
  ASSUME NEW p, NEW m \in Nat, NEW h \in Nat, GeneratedShape(p, m, h),
         NEW q \in 0 .. m - 1
  PROVE  /\ ~ WritesFramePointer(At(p, q)) /\ ~ StackOffsetBad(At(p, q))
         /\ At(p, q).kind # "call" /\ (At(p, q).kind = "exit" <=> q = m - 1)
         /\ Reads(At(p, q)) \subseteq 0 .. 4
         /\ q < h => Reads(At(p, q)) = {}
         /\ q = m - 1 => Reads(At(p, q)) = {R0}
         /\ q < h => WritesDst(At(p, q))
         /\ IsBranch(At(p, q)) =>
              At(p, q).off \in Int /\ At(p, q).off >= 1 /\ q + 1 + At(p, q).off < m
         /\ q < m - 1 => q + 1 \in ExecSuccessors(p, q)
         /\ \A t \in ExecSuccessors(p, q) : t \in Int /\ q + 1 <= t /\ t < m
         /\ q < h => ExecSuccessors(p, q) = {q + 1}
<1> PICK i : i = At(p, q)
  OBVIOUS
<1> USE DEF WritesFramePointer, WritesDst, StackOffsetBad, IsMemAccess, Reads, ReadsSrc, ReadsDst,
            IsBranch, ExecSuccessors, Target
<1>1. CASE q < h
  <2>1. i = Mov(raw[q + 1].dst, Imm) /\ raw[q + 1].dst \in 0 .. 9 /\ q \in 0 .. h - 1
    BY <1>1 DEF GeneratedShape
  <2>2. i.kind = "mov" /\ i.src = Imm /\ i.dst = raw[q + 1].dst /\ i.dst # R10 /\ h <= m - 1
    BY <2>1 DEF Mov, Op, R10, GeneratedShape
  <2> QED
    BY <1>1, <2>2
<1>2. CASE h <= q /\ q < m - 1
  <2>1. BodyInsn(m, q, i)
    BY <1>2 DEF GeneratedShape
  <2>2. CASE \E d, s \in 0 .. 4 : ArithmeticInsn(d, s, i)
    <3>1. PICK d \in 0 .. 4, s \in 0 .. 4 : ArithmeticInsn(d, s, i)
      BY <2>2
    <3>2. i.kind \in {"mov", "alu"} /\ i.dst = d /\ i.src \in {s, Imm} /\ d # R10
      BY <3>1 DEF ArithmeticInsn, Mov, Alu, Op, R10
    <3> QED
      BY <1>2, <3>2
  <2>3. CASE /\ i.off \in Int /\ i.off >= 1 /\ q + 1 + i.off < m
             /\ \E d \in 0 .. 4 : i = JmpCond(d, Imm, i.off)
    <3>1. i.kind = "jcond" /\ i.dst \in 0 .. 4 /\ i.src = Imm
      BY <2>3 DEF JmpCond, Op
    <3> QED
      BY <1>2, <2>3, <3>1
  <2> QED
    BY <2>1, <2>2, <2>3 DEF BodyInsn
<1>3. CASE q = m - 1
  <2>1. i.kind = "exit" /\ h <= m - 1
    BY <1>3 DEF GeneratedShape, Exit, Op
  <2> QED
    BY <1>3, <2>1 DEF R0
<1> QED
  BY <1>1, <1>2, <1>3

(* The registers known before an instruction, and one more after it, are   *)
(* known wherever control goes next.                                       *)
LEMMA KnownOnward ==
  ASSUME NEW p, NEW m \in Nat, NEW h \in Nat, GeneratedShape(p, m, h),
         NEW q \in 0 .. m - 1, NEW s, Known(raw, h, q) \subseteq s
  PROVE  /\ Known(raw, h, q + 1) \subseteq Post(At(p, q), s)
         /\ \A t \in ExecSuccessors(p, q) : Known(raw, h, t) \subseteq Known(raw, h, q + 1)
<1> PICK i : i = At(p, q)
  OBVIOUS
<1>1. /\ i.kind # "call"
      /\ q < h => WritesDst(i)
      /\ \A t \in ExecSuccessors(p, q) : t \in Int /\ q + 1 <= t
      /\ q < h => ExecSuccessors(p, q) = {q + 1}
  BY GeneratedInsn
<1>m. q < h => i.dst = raw[q + 1].dst
  BY DEF GeneratedShape, Mov, Op
<1>2. s \subseteq Post(i, s) /\ (q < h => raw[q + 1].dst \in Post(i, s))
  BY <1>1, <1>m DEF Post
<1>3. ASSUME NEW k \in 1 .. h, k <= q + 1
      PROVE  raw[k].dst \in Post(i, s)
  <2>1. CASE k <= q
    BY <1>2, <1>3, <2>1 DEF Known
  <2>2. CASE k = q + 1
    BY <1>2, <1>3, <2>2
  <2> QED
    BY <1>3, <2>1, <2>2
<1>4. ASSUME NEW t \in ExecSuccessors(p, q)
      PROVE  Known(raw, h, t) \subseteq Known(raw, h, q + 1)
  <2>1. CASE q < h
    BY <1>1, <2>1
  <2>2. CASE ~ (q < h)
    BY <1>1, <2>2 DEF Known
  <2> QED
    BY <2>1, <2>2
<1> QED
  BY <1>3, <1>4 DEF Known

(* No branch of a generated program leaves it, or goes back: two sweeps    *)
(* are enough for it.                                                      *)
LEMMA GeneratedBranches ==
  ASSUME TypeOK, NEW m \in Nat, NEW h \in Nat, GeneratedShape(prog, m, h)
  PROVE  /\ N = m /\ Pcs(prog) = 0 .. m - 1 /\ m > 0
         /\ prog # <<>> /\ BadBranches = {} /\ SweepBound = 2
<1>1. N = m /\ Pcs(prog) = 0 .. m - 1 /\ m > 0
  BY ProgFacts DEF GeneratedShape, N
<1>2. prog # <<>>
  BY <1>1 DEF N
<1>3. ASSUME NEW q \in 0 .. m - 1, IsBranch(At(prog, q))
      PROVE  At(prog, q).off >= 0 /\ Target(prog, q) \in 0 .. m - 1
  <2>1. At(prog, q).off \in Int /\ At(prog, q).off >= 1 /\ q + 1 + At(prog, q).off < m
    BY <1>3, GeneratedInsn
  <2> QED
    BY <2>1 DEF Target
<1>4. BackwardBranches = {}
  BY <1>1, <1>3, ProgFacts DEF BackwardBranches, Insn
<1>5. SweepBound = 2
  BY <1>4, FS_EmptySet DEF SweepBound
<1> QED
  BY <1>1, <1>2, <1>3, <1>5 DEF BadBranches

(* Once the sweeps are over every instruction of it was checked, so no     *)
(* block is unreachable or a dead end.                                     *)
LEMMA GeneratedConverges ==
  ASSUME StructInv, QuietSweepIsConsistent, PathsInv, phase = "exits",
         NEW m \in Nat, NEW h \in Nat, GeneratedShape(prog, m, h)
  PROVE  BadBlocks = {} /\ HasExit
<1>t. TypeOK /\ CfgInv /\ CursorInv
  BY DEF StructInv
<1>1. /\ Analysing /\ ~ changed /\ starts # {} /\ bb = N /\ InFlight = {}
      /\ starts \subseteq Pcs(prog) /\ 0 \in reachable /\ reachable \subseteq starts
  BY <1>t DEF Analysing, CfgInv, CursorInv, InFlight, TypeOK
<1>2. N = m /\ Pcs(prog) = 0 .. m - 1 /\ m > 0
  BY <1>t, GeneratedBranches
<1>3. /\ \A b \in reachable : b \in checked
      /\ \A p \in checked : Settled(p)
  BY <1>1, <1>2 DEF QuietSweepIsConsistent
<1> DEFINE S == {k \in Nat : k < m => k \in checked /\ (k \in starts => k \in reachable)}
<1>4. 0 \in S
  BY <1>1, <1>3
<1>5. ASSUME NEW k \in Nat, k \in S
      PROVE  k + 1 \in S
  <2> SUFFICES ASSUME k + 1 < m
               PROVE  k + 1 \in checked /\ (k + 1 \in starts => k + 1 \in reachable)
    OBVIOUS
  <2>1. k \in checked /\ k \in 0 .. m - 1 /\ k < m - 1
    BY <1>5
  <2>2. k + 1 \in ExecSuccessors(prog, k) \cap Pcs(prog)
    <3>1. k + 1 \in ExecSuccessors(prog, k)
      BY <2>1, GeneratedInsn, Zenon
    <3>2. k + 1 \in 0 .. m - 1
      BY <2>1
    <3> QED
      BY <1>2, <3>1, <3>2
  <2>3. HandedTo(k + 1, Post(At(prog, k), In(k)))
    BY <1>3, <2>1, <2>2 DEF Settled
  <2> QED
    BY <1>3, <2>3 DEF HandedTo
<1>6. Nat \subseteq S
  <2> HIDE DEF S
  <2> QED
    BY <1>4, <1>5, NaturalsInductively
<1>7. \A b \in starts : b \in reachable
  BY <1>1, <1>2, <1>6
<1>8. ASSUME NEW b \in starts
      PROVE  ~ DeadEnd(b)
  <2>1. b \in Nat /\ b < N
    BY <1>1, <1>2
  <2>2. /\ BlockEnd(b) \in starts \cup {N} /\ BlockEnd(b) \in Nat
        /\ b < BlockEnd(b) /\ BlockEnd(b) <= N
    BY <1>t, <2>1, BlockEndFacts
  <2>3. PICK p \in 0 .. m - 1 : p = BlockEnd(b) - 1 /\ p + 1 = BlockEnd(b)
    BY <1>2, <2>1, <2>2
  <2>4. CASE p < m - 1
    <3>1. Successors(p) = ExecSuccessors(prog, p) \cap Pcs(prog)
      BY <1>t, <1>1, <1>2, <2>2, <2>3, SuccessorsAreReal DEF PathsInv
    <3>2. p + 1 \in ExecSuccessors(prog, p)
      BY <2>4, GeneratedInsn, Zenon
    <3>3. p + 1 \in Pcs(prog)
      BY <1>2, <2>3, <2>4
    <3> QED
      BY <2>3, <3>1, <3>2, <3>3 DEF DeadEnd
  <2>5. CASE p = m - 1
    <3>1. At(prog, p).kind = "exit"
      BY <2>5 DEF GeneratedShape, Exit, Op
    <3> QED
      BY <2>3, <3>1 DEF DeadEnd
  <2> QED
    BY <2>4, <2>5
<1>9. HasExit
  <2>1. PICK b \in starts : BlockEnd(b) = N
    BY <1>t, <1>1, LastBlockExists
  <2>2. At(prog, m - 1).kind = "exit"
    BY DEF GeneratedShape, Exit, Op
  <2> QED
    BY <1>2, <2>1, <2>2 DEF HasExit
<1> QED
  BY <1>7, <1>8, <1>9 DEF BadBlocks

(* The registers known at an instruction are in the states the analysis    *)
(* keeps of it, and a verdict on a generated program is an acceptance or   *)
(* blames a register it may not have initialised.                          *)
KnownInv ==
  /\ \A b \in reachable : Known(raw, header, b) \subseteq regIn[b]
  /\ phase = "insns" => Known(raw, header, pc) \subseteq regs
  /\ phase = "propagate" => Known(raw, header, pc + 1) \subseteq regs
UninitOnly ==
  phase = "done" =>
    \/ result.verdict = "Ok"
    \/ result.verdict = "UninitializedRegRead" /\ result.reg \in (2 .. 4) \ Initialised
GeneratedJudged == Generated /\ dstage = "decoded" => KnownInv /\ UninitOnly

(* The verifier's steps keep the known registers known.                    *)
LEMMA KnownStep ==
  ASSUME StructInv, PathsInv, KnownInv, Next, UNCHANGED <<dvars, gvars>>,
         NEW m \in Nat, NEW h \in Nat, h = header, GeneratedShape(prog, m, h)
  PROVE  KnownInv'
<1>t. TypeOK /\ CfgInv /\ CursorInv
  BY DEF StructInv
<1>r. PICK slots : slots = raw /\ raw' = slots /\ header' = h
  BY DEF dvars, gvars
<1>k. /\ \A b \in reachable : Known(slots, h, b) \subseteq regIn[b]
      /\ phase = "insns" => Known(slots, h, pc) \subseteq regs
      /\ phase = "propagate" => Known(slots, h, pc + 1) \subseteq regs
  BY <1>r DEF KnownInv
<1> SUFFICES /\ \A b \in reachable' : Known(slots, h, b) \subseteq regIn'[b]
             /\ phase' = "insns" => Known(slots, h, pc') \subseteq regs'
             /\ phase' = "propagate" => Known(slots, h, pc' + 1) \subseteq regs'
  BY <1>r DEF KnownInv
<1>n. /\ N = m /\ Pcs(prog) = 0 .. m - 1 /\ m > 0
      /\ reachable \subseteq starts /\ starts \subseteq Pcs(prog)
  BY <1>t, GeneratedBranches DEF TypeOK
<1>1. CASE BuildCfg
  <2>1. /\ reachable' = {0} /\ phase' = "while"
        /\ regIn' = [p \in Pcs(prog) |-> IF p = 0 THEN EntryRegs ELSE {}]
    BY <1>1 DEF BuildCfg
  <2>2. Known(slots, h, 0) = {}
    BY DEF Known
  <2> QED
    BY <2>1, <2>2
<1>2. CASE EnterBlock
  BY <1>2, <1>k DEF EnterBlock, flowVars
<1>3. CASE CheckInsn
  <2>1. /\ phase = "insns" /\ pc \in 0 .. m - 1 /\ regs' = Post(At(prog, pc), regs)
        /\ UNCHANGED <<reachable, regIn>>
        /\ (pc' = pc + 1 /\ phase' = "insns") \/ (pc' = pc /\ phase' = "propagate")
    BY <1>3, <1>t, <1>n DEF CheckInsn, TypeOK, flowVars
  <2>2. Known(slots, h, pc + 1) \subseteq regs'
    BY <1>k, <1>r, <2>1, KnownOnward
  <2> QED
    BY <1>k, <2>1, <2>2
<1>4. CASE Propagate
  <2>1. /\ phase = "propagate" /\ phase' = "blocks"
        /\ regIn' = [b \in Pcs(prog) |-> IF b \in Successors(pc) THEN Flow(b, regs) ELSE regIn[b]]
        /\ reachable' = reachable \cup Successors(pc)
    BY <1>4 DEF Propagate
  <2>2. pc \in 0 .. m - 1 /\ pc + 1 \in starts \cup {N} /\ starts # {}
    <3>1. pc \in Pcs(prog) /\ bb \in reachable /\ pc + 1 = BlockEnd(bb)
      BY <1>t, <2>1 DEF TypeOK, CursorInv
    <3>2. bb \in Nat /\ bb < N /\ starts # {}
      BY <1>n, <3>1
    <3> QED
      BY <1>n, <1>t, <3>1, <3>2, BlockEndFacts
  <2>3. Successors(pc) = ExecSuccessors(prog, pc) \cap Pcs(prog)
    BY <1>t, <1>n, <2>2, SuccessorsAreReal DEF PathsInv
  <2>4. Known(slots, h, pc) \subseteq Regs \cup Known(slots, h, pc)
    OBVIOUS
  <2>5. \A t \in Successors(pc) : Known(slots, h, t) \subseteq regs
    BY <1>k, <1>r, <2>1, <2>2, <2>3, <2>4, KnownOnward
  <2> QED
    BY <1>k, <1>n, <2>1, <2>3, <2>5 DEF Flow, RegFileMerge
<1>5. CASE UNCHANGED <<reachable, regIn>> /\ phase' \notin {"insns", "propagate"}
  BY <1>5, <1>k
<1> QED
  BY <1>1, <1>2, <1>3, <1>4, <1>5 DEF Next, EmptyProgram, BranchOutOfBounds, StartSweep,
    BackEdgeBudgetExceeded, SkipUnreachable, RejectWriteToR10, RejectUninitRead, RejectStackOffset,
    EndSweep, Converged, RejectBlock, NoExitInstruction, Accept, Reject, flowVars

(* No error but an uninitialised read is raised, and that of a register    *)
(* the generator may not have initialised.                                 *)
LEMMA VerdictStep ==
  ASSUME JudgingInv, KnownInv, UninitOnly, Next, UNCHANGED <<dvars, gvars>>,
         NEW m \in Nat, NEW h \in Nat, h = header, GeneratedShape(prog, m, h)
  PROVE  UninitOnly'
<1>j. /\ StructInv /\ QuietSweepIsConsistent /\ SweepInv /\ PathsInv
      /\ TypeOK /\ CfgInv
  BY DEF JudgingInv, StructInv
<1>s. /\ N = m /\ Pcs(prog) = 0 .. m - 1 /\ m > 0 /\ prog # <<>>
      /\ BadBranches = {} /\ SweepBound = 2
  BY <1>j, GeneratedBranches
<1>i. Initialised' = Initialised /\ Initialised = {raw[k].dst : k \in 1 .. h}
  BY DEF Initialised, dvars, gvars
<1>0. 0 \in Initialised /\ 1 \in Initialised
  <2>1. 1 \in 1 .. h /\ 2 \in 1 .. h /\ raw[1].dst = 0 /\ raw[2].dst = 1
    BY DEF GeneratedShape
  <2> QED
    BY <1>i, <2>1
<1>p. phase = "insns" => pc \in 0 .. m - 1
  BY <1>j, <1>s DEF TypeOK
<1>1. ~ EmptyProgram /\ ~ BranchOutOfBounds
  BY <1>s DEF EmptyProgram, BranchOutOfBounds
<1>2. ~ BackEdgeBudgetExceeded
  BY <1>j, <1>s, BudgetRejectionJustified, SweepsAssumption, BudgetAssumption
<1>3. ~ RejectWriteToR10 /\ ~ RejectStackOffset
  BY <1>p, GeneratedInsn DEF RejectWriteToR10, RejectStackOffset
<1>4. ~ RejectBlock /\ ~ NoExitInstruction
  <2>1. phase = "exits" => BadBlocks = {} /\ HasExit
    BY <1>j, GeneratedConverges
  <2> QED
    BY <2>1 DEF RejectBlock, NoExitInstruction
<1>5. CASE RejectUninitRead
  <2> DEFINE i == At(prog, pc)
             r == FirstUninit(i, Reads(i) \ regs)
  <2>1. /\ phase = "insns" /\ ~ (Reads(i) \subseteq regs)
        /\ result' = Verdict("UninitializedRegRead", pc, r)
    BY <1>5 DEF RejectUninitRead, UninitRead, Reject
  <2>2. r \in Reads(i) \ regs
    <3>1. i \in Insn
      BY <1>j, <1>p, <1>s, <2>1, ProgFacts
    <3> QED
      BY <2>1, <3>1, BlamedIsRead
  <2>3. Reads(i) \subseteq 0 .. 4 /\ ~ (pc < h)
    BY <1>p, <2>1, <2>2, GeneratedInsn
  <2>4. Initialised \subseteq regs
    BY <1>i, <1>p, <2>1, <2>3 DEF KnownInv, Known
  <2>5. r \in (2 .. 4) \ Initialised
    <3>1. r \in 0 .. 4 /\ r \notin Initialised
      BY <2>2, <2>3, <2>4
    <3>2. r # 0 /\ r # 1
      BY <1>0, <3>1
    <3> HIDE DEF r
    <3> QED
      BY <3>1, <3>2
  <2> QED
    BY <1>i, <2>1, <2>5 DEF UninitOnly, Verdict
<1>6. CASE Accept
  BY <1>6 DEF Accept, Verdict, UninitOnly
<1>7. CASE phase' # "done"
  BY <1>7 DEF UninitOnly
<1> QED
  BY <1>1, <1>2, <1>3, <1>4, <1>5, <1>6, <1>7 DEF Next, BuildCfg, StartSweep, SkipUnreachable,
    EnterBlock, CheckInsn, Propagate, EndSweep, Converged

(* So a generated program's verdict is what fuzz_one expects of it,        *)
LEMMA JudgedStep ==
  PipelineInv /\ PipelineInv' /\ GeneratedJudged /\ [PipelineNext]_PipelineVars => GeneratedJudged'
<1> SUFFICES ASSUME PipelineInv, PipelineInv', GeneratedJudged, [PipelineNext]_PipelineVars,
                    Generated', dstage' = "decoded"
             PROVE  KnownInv' /\ UninitOnly'
  BY DEF GeneratedJudged
<1>1. CASE ReturnInsns /\ UNCHANGED gvars
  <2>1. dstage # "decoded" /\ reachable' = reachable /\ phase' = phase
    BY <1>1 DEF ReturnInsns
  <2>2. reachable = {} /\ phase = "cfg"
    BY <2>1 DEF PipelineInv, IdleVerifier, Unverified
  <2> QED
    BY <2>1, <2>2 DEF KnownInv, UninitOnly
<1>2. CASE VerifyDecoded /\ UNCHANGED gvars
  <2>1. dstage = "decoded" /\ Generated /\ Next /\ UNCHANGED <<dvars, gvars>>
    BY <1>2 DEF VerifyDecoded, dvars, gvars, Generated
  <2>2. JudgingInv /\ StructInv /\ PathsInv /\ KnownInv /\ UninitOnly
    BY <2>1 DEF PipelineInv, JudgingInv, GeneratedJudged
  <2>3. PICK m \in Nat, h \in Nat : h = header /\ GeneratedShape(prog, m, h)
    BY <2>1, GeneratedDecodesTo, SlotsFacts DEF PipelineInv, GeneratorInv
  <2> QED
    BY <2>1, <2>2, <2>3, KnownStep, VerdictStep
<1>3. CASE UNCHANGED PipelineVars
  <2>1. UNCHANGED vvars /\ raw' = raw /\ dstage' = dstage /\ n' = n /\ header' = header
    BY <1>3 DEF PipelineVars, dvars, gvars
  <2>2. KnownInv /\ UninitOnly
    BY <2>1 DEF GeneratedJudged, Generated
  <2> QED
    BY <2>1, <2>2 DEF KnownInv, UninitOnly, Known, Initialised, vvars
<1>4. ~ GenerateNext
  BY DEF GenerateNext, DrawHeader, PushArithmetic, PushBranch, PushMov, PushExit, Loop, Push
<1>5. ~ (RejectEmpty \/ RejectTooLarge \/ DecodeError \/ DecodeInsn)
  BY DEF RejectEmpty, RejectTooLarge, DecodeError, DecodeInsn, InLoop, RefuseProgram
<1> QED
  BY <1>1, <1>2, <1>3, <1>4, <1>5 DEF PipelineNext, DecodeNext

(* The only generated programs that do not compile are those that read one *)
(* of R2 to R4 without having drawn its initialisation (fuzz/src/lib.rs    *)
(* :191): for every size asked for and every program of that size.         *)
THEOREM GeneratedProgramsJudged == PipelineSpec => []GeneratedRejectedOnlyForUninit
<1>1. PipelineInit => GeneratedJudged
  BY DEF PipelineInit, GeneratedJudged, Generated
<1>2. PipelineInv /\ GeneratedJudged => GeneratedRejectedOnlyForUninit
  <2> SUFFICES ASSUME PipelineInv, GeneratedJudged, Generated, Judged
               PROVE  /\ dstage = "decoded"
                      /\ \/ result.verdict = "Ok"
                         \/ /\ result.verdict = "UninitializedRegRead"
                            /\ result.reg \in (2 .. 4) \ Initialised
    BY DEF GeneratedRejectedOnlyForUninit
  <2>1. dstage # "rejected"
    BY DEF PipelineInv, GeneratorInv
  <2>2. phase = "done" /\ dstage = "decoded"
    BY <2>1 DEF Judged, PipelineInv, IdleVerifier, Unverified
  <2> QED
    BY <2>2 DEF GeneratedJudged, UninitOnly
<1> QED
  BY <1>1, <1>2, PipelineInvariant, JudgedStep, PTL DEF PipelineSpec
=============================================================================

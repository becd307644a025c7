------------------------------ MODULE Decoder -------------------------------
(***************************************************************************)
(* decode_program (crates/ebpf-core/src/decode.rs), as compile() runs it   *)
(* before verify_program: one step per instruction, which takes one raw    *)
(* slot or, for a wide load, two; then the program goes to the verifier.   *)
(*                                                                         *)
(* A raw slot is a record [opcode, dst, src, off, imm]: the opcode is the  *)
(* byte itself, dst and src the two four-bit halves of `regs`, imm the     *)
(* immediate.  A decoded instruction is kept with the slot it begins at.   *)
(* Which arithmetic, comparison or atomic operator an instruction carries, *)
(* and a constant's value, are not kept: Bpf does not tell them apart.     *)
(***************************************************************************)
EXTENDS Verifier

CONSTANTS
  RawPrograms,                  \* the slices of raw slots that may be submitted
  MAX_INSNS                     \* slots a program may have (a million)

RawInsn == [opcode : 0 .. 255, dst : 0 .. 15, src : 0 .. 15, off : Int, imm : Int]

ASSUME RawAssumption      == \A r \in RawPrograms : r \in Seq(RawInsn)
ASSUME MaxInsnsAssumption == MAX_INSNS \in Nat

VARIABLES
  raw,         \* the raw slots
  dstage,      \* "generating", "decoding", "decoded", or "rejected"
  dpc,         \* `pc`: the slot the loop is at
  insns,       \* the output, each [insn, slot]
  decodeError  \* the error returned, and its slot

dvars == <<raw, dstage, dpc, insns, decodeError>>

----------------------------------------------------------------------------
(* The fields of an opcode.                                                *)

BPF_LD    == 0
BPF_LDX   == 1
BPF_ST    == 2
BPF_STX   == 3
BPF_ALU   == 4
BPF_JMP   == 5
BPF_JMP32 == 6
BPF_ALU64 == 7
BPF_MOV   == 176
BPF_END   == 208
BPF_JA    == 0
BPF_CALL  == 128
BPF_EXIT  == 144
BPF_ATOMIC == 6                   \* the mode 0xc0, in the opcode's upper bits
LDDW == 24                        \* BPF_LD | BPF_IMM | BPF_DW

insn_class(r) == r.opcode % 8
op_bits(r)    == (r.opcode \div 16) * 16
UsesX(r)      == (r.opcode \div 8) % 2 = 1
Mode(r)       == r.opcode \div 32
Width(r)      == <<4, 2, 1, 8>>[((r.opcode \div 8) % 4) + 1]

(* The operations from_opcode_bits knows: all but the last ones.           *)
AluOps == {16 * k : k \in 0 .. 12}
JmpOps == {16 * k : k \in 0 .. 13} \ {BPF_CALL, BPF_EXIT}

(* Add, Or, And and Xor with and without the fetch bit; Xchg and CmpXchg   *)
(* have it set.                                                            *)
CMPXCHG   == 241
AtomicOps == {b + f : b \in {0, 64, 80, 160}, f \in {0, 1}} \cup {225, CMPXCHG}

(***************************************************************************)
(* What is wrong with slot s: the checks of its arm in the order the code  *)
(* makes them, each with its error.                                        *)
(***************************************************************************)
BadDst(r)    == <<r.dst \notin Regs, "InvalidRegister">>
BadSrc(r)    == <<r.src \notin Regs, "InvalidRegister">>
BadSource(r) == <<UsesX(r) /\ r.src \notin Regs, "InvalidRegister">>
NotOneOf(r, ops) == <<op_bits(r) \notin ops, "UnknownOpcode">>

AluChecks(r) ==
  IF op_bits(r) = BPF_END
  THEN <<BadDst(r), <<r.imm \notin {16, 32, 64}, "InvalidEndianWidth">>>>
  ELSE <<BadDst(r), NotOneOf(r, AluOps), BadSource(r)>>
BranchChecks(r) == <<NotOneOf(r, JmpOps), BadDst(r), BadSource(r)>>
JmpChecks(r) == IF op_bits(r) \in {BPF_JA, BPF_CALL, BPF_EXIT} THEN <<>> ELSE BranchChecks(r)
StxChecks(r) ==
  <<BadDst(r), BadSrc(r),
    <<Mode(r) = BPF_ATOMIC /\ r.imm \notin AtomicOps, "InvalidAtomicOp">>>>
LdChecks(r, s) ==
  <<<<r.opcode # LDDW, "UnknownOpcode">>,
    <<s + 1 >= Len(raw), "TruncatedWideInsn">>, BadDst(r)>>

Checks(s) ==
  LET r == raw[s + 1]
      c == insn_class(r)
  IN  CASE c \in {BPF_ALU, BPF_ALU64} -> AluChecks(r)
        [] c = BPF_JMP   -> JmpChecks(r)
        [] c = BPF_JMP32 -> BranchChecks(r)
        [] c = BPF_LDX   -> <<BadDst(r), BadSrc(r)>>
        [] c = BPF_STX   -> StxChecks(r)
        [] c = BPF_ST    -> <<BadDst(r)>>
        [] OTHER         -> LdChecks(r, s)

Failing(s) == {k \in DOMAIN Checks(s) : Checks(s)[k][1]}
Faulty(s)  == Failing(s) # {}
ErrorAt(s) == Checks(s)[CHOOSE k \in Failing(s) : \A j \in Failing(s) : k <= j][2]

----------------------------------------------------------------------------
(* What a slot without faults becomes.                                     *)

source(r) == IF UsesX(r) THEN r.src ELSE Imm

decode_alu(r) ==
  IF op_bits(r) = BPF_END THEN Endian(r.dst)
  ELSE IF op_bits(r) = BPF_MOV THEN Mov(r.dst, source(r)) ELSE Alu(r.dst, source(r))
\* Faulty: the offset counts from the branch itself.
OffsetFromBranch(r) == JmpCond(r.dst, source(r), r.off - 1)
(* In the 32-bit class an operation of 0 is a comparison, JmpOp::Ja, too.  *)
decode_jmp32(r) == JmpCond(r.dst, source(r), r.off)
decode_jmp(r) ==
  IF op_bits(r) = BPF_JA THEN Ja(r.off)
  ELSE IF op_bits(r) = BPF_CALL THEN Call
  ELSE IF op_bits(r) = BPF_EXIT THEN Exit ELSE decode_jmp32(r)
decode_stx(r) ==
  IF Mode(r) # BPF_ATOMIC THEN StoreReg(r.dst, r.src, r.off, Width(r))
  ELSE IF r.imm = CMPXCHG THEN CmpXchg(r.dst, r.src, r.off, Width(r))
  ELSE Atomic(r.dst, r.src, r.off, Width(r))

Decoded(r) ==
  LET c == insn_class(r) IN
  CASE c \in {BPF_ALU, BPF_ALU64} -> decode_alu(r)
    [] c = BPF_JMP   -> decode_jmp(r)
    [] c = BPF_JMP32 -> decode_jmp32(r)
    [] c = BPF_LDX   -> Load(r.dst, r.src, r.off, Width(r))
    [] c = BPF_STX   -> decode_stx(r)
    [] c = BPF_ST    -> StoreImm(r.dst, r.off, Width(r))
    [] OTHER         -> LoadImm64(r.dst)

----------------------------------------------------------------------------
(* decode_program.                                                         *)

Size == IF insn_class(raw[dpc + 1]) = BPF_LD THEN 2 ELSE 1

RefuseProgram(e, s) ==
  /\ dstage' = "rejected"
  /\ decodeError' = [error |-> e, pc |-> s]
  /\ UNCHANGED <<vvars, raw, dpc, insns>>

RejectEmpty ==
  dstage = "decoding" /\ raw = <<>> /\ RefuseProgram("EmptyProgram", 0)
RejectTooLarge ==
  dstage = "decoding" /\ Len(raw) > MAX_INSNS /\ RefuseProgram("ProgramTooLarge", 0)

InLoop == dstage = "decoding" /\ Len(raw) <= MAX_INSNS /\ dpc < Len(raw)

DecodeError == InLoop /\ Faulty(dpc) /\ RefuseProgram(ErrorAt(dpc), dpc)

\* Faulty: the second slot of a wide load is decoded as well.
DecodeInsnOneSlot ==
  /\ InLoop /\ ~ Faulty(dpc)
  /\ insns' = Append(insns, [insn |-> Decoded(raw[dpc + 1]), slot |-> dpc])
  /\ dpc' = dpc + 1
  /\ UNCHANGED <<vvars, raw, dstage, decodeError>>
\* Faulty: a loop that forgets to move on.
DecodeInsnStuck ==
  /\ InLoop /\ ~ Faulty(dpc)
  /\ UNCHANGED <<vvars, dvars>>
DecodeInsn ==
  /\ InLoop /\ ~ Faulty(dpc)
  /\ insns' = Append(insns, [insn |-> Decoded(raw[dpc + 1]), slot |-> dpc])
  /\ dpc' = dpc + Size
  /\ UNCHANGED <<vvars, raw, dstage, decodeError>>

(* The output goes to verify_program.                                      *)
Output == [k \in 1 .. Len(insns) |-> insns[k].insn]
\* Faulty: nothing is refused for being empty.
ReturnInsnsEmptyToo ==
  /\ dstage = "decoding" /\ Len(raw) <= MAX_INSNS /\ dpc >= Len(raw)
  /\ dstage' = "decoded"
  /\ prog' = Output
  /\ UNCHANGED <<raw, dpc, insns, decodeError, phase, result, starts, reachable, regIn,
                 seen, changed, iterations, bb, pc, regs, checked>>
ReturnInsns ==
  /\ dstage = "decoding" /\ raw # <<>> /\ Len(raw) <= MAX_INSNS /\ dpc >= Len(raw)
  /\ dstage' = "decoded"
  /\ prog' = Output
  /\ regIn' = [p \in Pcs(Output) |-> {}]
  /\ seen' = [p \in Pcs(Output) |-> {}]
  /\ UNCHANGED <<raw, dpc, insns, decodeError, phase, result, starts, reachable,
                 changed, iterations, bb, pc, regs, checked>>

(* Before the hand-over the verifier has no program.                       *)
IdleVerifier == prog = <<>> /\ Unverified

VerifyDecoded == dstage = "decoded" /\ Next /\ UNCHANGED dvars
DecodeNext == RejectEmpty \/ RejectTooLarge \/ DecodeError \/ DecodeInsn \/ ReturnInsns

----------------------------------------------------------------------------
(* Properties.                                                             *)

DecodeErrors == {"UnknownOpcode", "InvalidRegister", "TruncatedWideInsn", "ProgramTooLarge",
                 "EmptyProgram", "InvalidAtomicOp", "InvalidEndianWidth"}

(* The decoder's state: the output is in step with the slots behind the    *)
(* cursor, and at least one instruction came of each slot or pair.         *)
DecodeTypeOK ==
  /\ raw \in Seq(RawInsn) /\ dstage \in {"generating", "decoding", "decoded", "rejected"}
  /\ dpc \in 0 .. Len(raw)
  /\ insns \in Seq([insn : Insn, slot : 0 .. dpc - 1])
  /\ decodeError \in [error : DecodeErrors \cup {"none"}, pc : Nat]

(* What the verifier and the lowering take for granted of a program: it is *)
(* a sequence of instructions with registers R0 to R10, not empty, and     *)
(* contains no tail call.                                                  *)
DecodesToInsns ==
  dstage = "decoded" =>
    /\ prog \in Seq(Insn) /\ prog # <<>>
    /\ TailCallFree(prog)

(* The slots at which an instruction begins: all but the second one of a   *)
(* wide load, whose own opcode and registers mean nothing.                 *)
Heads(slots) ==
  LET Begins[s \in 0 .. Len(slots)] ==
        s = 0 \/ ~ (Begins[s - 1] /\ insn_class(slots[s]) = BPF_LD)
  IN  {s \in 0 .. Len(slots) - 1 : Begins[s]}

(* A program is decoded exactly if none of the slots that begin an         *)
(* instruction is faulty, one instruction for each; otherwise the first    *)
(* faulty one is blamed.                                                   *)
FirstFaultReported ==
  /\ dstage = "decoded" =>
       (\A s \in Heads(raw) : ~ Faulty(s)) /\ {insns[k].slot : k \in DOMAIN insns} = Heads(raw)
  /\ dstage = "rejected" /\ raw # <<>> /\ Len(raw) <= MAX_INSNS =>
       /\ decodeError.pc \in Heads(raw) /\ Faulty(decodeError.pc)
       /\ \A s \in Heads(raw) : s < decodeError.pc => ~ Faulty(s)

(* Where a branch goes.  Its offset is the raw slot's, but it counts       *)
(* instructions: the slot it reaches is the one the raw offset names,      *)
(* moved away by one for every wide load it jumps over.                    *)
SlotOf(p)     == insns[p + 1].slot
WideIn(a, b)  == Cardinality({q \in a .. b - 1 : At(prog, q).kind = "ldimm"})
RawTarget(s)  == s + 1 + raw[s + 1].off
BranchesShiftByWideLoads ==
  dstage = "decoded" =>
    \A p \in Pcs(prog) :
      IsBranch(At(prog, p)) /\ Target(prog, p) \in Pcs(prog) =>
        LET t == Target(prog, p) IN
        SlotOf(t) = RawTarget(SlotOf(p)) + (IF t > p THEN WideIn(p, t) ELSE - WideIn(t, p))
============================================================================

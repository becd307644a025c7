---------------------------- MODULE MachineCode -----------------------------
(***************************************************************************)
(* The machine instructions the emitters use: the encoders of encode.rs on *)
(* both targets, by what of their operands reaches a field of the word,    *)
(* and what the two processors make of the fields, which is external.      *)
(*                                                                         *)
(* An instruction is a record [op, w, d, n, m, v]: the width, destination  *)
(* and operand registers, and the immediate field.  Immediates of          *)
(* arithmetic have their scaled width, offsets of loads and stores their   *)
(* own.                                                                    *)
(***************************************************************************)
EXTENDS Words, Sequences

Ins(op, w, d, n, m, v) == [op |-> op, w |-> w, d |-> d, n |-> n, m |-> m, v |-> v]

----------------------------------------------------------------------------
(* AArch64: crates/jit-aarch64/src/encode.rs.                              *)

XZR == 31

(* Data processing on registers; MSUB accumulates into its destination.    *)
a64_reg(op, w, d, n, m) == Ins(op, w, d, n, m, 0)
mov_reg(w, d, m)        == a64_reg("orr", w, d, XZR, m)
a64_imm(op, w, d, n, imm12) == Ins(op, w, d, n, XZR, Low(imm12, IMM12))

(* The half word at hw; a W register has two of them.                      *)
Movz(w, d, imm16, hw) == Ins("movz", w, d, hw % (w \div HALF), XZR, Low(imm16, HALF))
Movk(w, d, imm16, hw) == Ins("movk", w, d, hw % (w \div HALF), XZR, Low(imm16, HALF))

(* UBFM and SBFM with immr (in m) and imms (in v).                         *)
lsl_imm(d, n, s) == Ins("ubfm", X, d, n, (X - s) % X, (X - 1 - s) % X)
lsr_imm(d, n, s) == Ins("ubfm", X, d, n, s % X, X - 1)
asr_imm(d, n, s) == Ins("sbfm", X, d, n, s % X, X - 1)

cmp_reg(w, n, m) == Ins("cmp", w, XZR, n, m, 0)
b_cond(cond)     == Ins(cond, X, XZR, XZR, XZR, 0)

(* 0x92400F00 sets bits 3 and 4 of the register field, and imms to 3: the  *)
(* mask has four bits, one at this scale, not sixteen.                     *)
and_imm_mask(d, n) == Ins("andmask", X, d, n | 24, XZR, 4 \div HALF)
rev16_w(d, n) == Ins("rev16", W, d, n, XZR, 0)
rev(w, d, n)  == Ins("rev", w, d, n, XZR, 0)

(* Loads and stores, unsigned offset: the offset as a u16, scaled by the   *)
(* width, is or-ed in at bit 10 unmasked.  Bits 12 and 13 of it fall on    *)
(* opc, which tells loads from stores, bit 15 on the instruction's class.  *)
\* Faulty: the offset is not scaled.
ldst_unscaled(dir, width, t, n, off) == Ins(dir, width, t, n, XZR, off % 65536)
ldst_imm(dir, width, t, n, off) == Ins(dir, width, t, n, XZR, (off % 65536) \div width)

(* The LSE atomics, in their 64-bit forms; LDCLR clears the bits of Xs.    *)
a64_atomic(op, s, n) == Ins(op, X, XZR, n, s, 0)
dmb_ish == Ins("barrier", X, XZR, XZR, XZR, 0)

----------------------------------------------------------------------------
(* RISC-V: crates/jit-riscv/src/encode.rs.                                 *)

ZERO == 0

sign_extend_12(v) == Signed(v, IMM12)
r_type(op, w, d, n, m)   == Ins(op, w, d, n, m, 0)
i_type(op, d, n, imm)    == Ins(op, X, d, n, ZERO, Low(imm, IMM12))
shift_imm(op, d, n, s)   == Ins(op, X, d, n, ZERO, s % X)
(* imm & 0xFFFFF000: the upper bits, in place.                             *)
lui(d, imm)   == Ins("lui", X, d, ZERO, ZERO, (Low(imm, W) \div 2^IMM12) * 2^IMM12)
(* I-type loads and S-type stores, with a 12-bit offset.                   *)
mem_type(dir, width, t, n, off) == Ins(dir, width, t, n, ZERO, off % 4096)
(* A branch of v words; 0 stands for the target, patched in later.         *)
b_type(op, n, m, v) == Ins(op, X, ZERO, n, m, v)
jal  == Ins("jal", X, ZERO, ZERO, ZERO, 0)
(* AMOs, LR.D and SC.D.                                                    *)
amo(op, d, m, n) == Ins(op, X, d, n, m, 0)
fence_rw_rw == Ins("barrier", X, ZERO, ZERO, ZERO, 0)

----------------------------------------------------------------------------
(* The processors.                                                         *)

(* Bitfield move: the bits up to imms, rotated right by immr.              *)
Bitfield(a, immr, imms) ==
  IF imms >= immr THEN Bits(a, immr, imms - immr + 1) ELSE Shl(Low(a, imms + 1), X - immr, X)
SignedBitfield(a, immr, imms) == Low(Signed(Bitfield(a, immr, imms), imms - immr + 1), X)

(* The value AArch64 puts in d, from operands a and b and d's old value c. *)
A64Value(i, a, b, c) ==
  LET n == i.w IN
  CASE i.op = "add"  -> Sum(a, b, n)
    [] i.op = "sub"  -> Minus(a, b, n)
    [] i.op = "mul"  -> Product(a, b, n)
    [] i.op = "udiv" -> IF b = 0 THEN 0 ELSE a \div b
    [] i.op = "msub" -> Minus(c, Product(a, b, n), n)
    [] i.op = "orr"  -> a | b
    [] i.op = "and"  -> a & b
    [] i.op = "eor"  -> a ^^ b
    [] i.op = "lslv" -> Shl(a, b % n, n)
    [] i.op = "lsrv" -> Shr(a, b % n, n)
    [] i.op = "asrv" -> Sar(a, b % n, n)
    [] i.op = "addi" -> Sum(a, i.v, n)
    [] i.op = "subi" -> Minus(a, i.v, n)
    [] i.op = "movz" -> i.v * 2^(HALF * i.n)
    [] i.op = "movk" -> c + (i.v - Bits(c, HALF * i.n, HALF)) * 2^(HALF * i.n)
    [] i.op = "ubfm" -> Bitfield(a, i.m, i.v)
    [] i.op = "sbfm" -> SignedBitfield(a, i.m, i.v)
    [] i.op = "andmask" -> Low(a, i.v)
    [] i.op = "rev16" -> SwapBytes(a, 2 * BYTE) + SwapBytes(Bits(a, HALF, HALF), 2 * BYTE) * 2^HALF
    [] i.op = "rev"   -> SwapBytes(a, n)

(* CMP's flags are those of a - b; a condition reads them.                 *)
Flags(w, a, b) ==
  LET d == Minus(a, b, w) IN
  [N |-> Signed(d, w) < 0, Z |-> d = 0, C |-> a >= b,
   V |-> Signed(a, w) - Signed(b, w) # Signed(d, w)]
ConditionHolds(cc, f) ==
  CASE cc = "eq" -> f.Z              [] cc = "ne" -> ~ f.Z
    [] cc = "hs" -> f.C              [] cc = "lo" -> ~ f.C
    [] cc = "hi" -> f.C /\ ~ f.Z     [] cc = "ls" -> ~ f.C \/ f.Z
    [] cc = "ge" -> f.N = f.V        [] cc = "lt" -> f.N # f.V
    [] cc = "gt" -> ~ f.Z /\ f.N = f.V [] cc = "le" -> f.Z \/ f.N # f.V
    [] cc = "al" -> TRUE

Access(dir, width, addr, value) ==
  [dir |-> dir, width |-> width, addr |-> Low(addr, X),
   value |-> IF dir = "store" THEN Low(value, BYTE * width) ELSE 0]

(* What a load or store with an overlong offset field is: its opc has more *)
(* bits set, or it is not a load or store at all.                          *)
A64Access(i, base, value) ==
  LET opc  == (IF i.op = "load" THEN 1 ELSE 0) | Bits(i.v, 12, 2)
      kind == IF Bits(i.v, 15, 1) = 1 \/ opc \in {2, 3} THEN "other"
              ELSE IF opc = 1 THEN "load" ELSE "store"
  IN  Access(kind, i.w, base + Low(i.v, 12) * i.w, value)

(* The value RISC-V puts in d: a W operation's is sign-extended.           *)
RVValue(i, a, b) ==
  LET n == i.w
      imm == Low(Signed(i.v, IMM12), X)
      SignExtended(v) == Low(Signed(v, n), X)
  IN
  CASE i.op = "add"  -> SignExtended(Sum(a, b, n))
    [] i.op = "sub"  -> SignExtended(Minus(a, b, n))
    [] i.op = "mul"  -> SignExtended(Product(a, b, n))
    [] i.op = "divu" -> SignExtended(IF b = 0 THEN 2^n - 1 ELSE a \div b)
    [] i.op = "remu" -> SignExtended(IF b = 0 THEN a ELSE a % b)
    [] i.op = "or"   -> a | b
    [] i.op = "and"  -> a & b
    [] i.op = "xor"  -> a ^^ b
    [] i.op = "sll"  -> SignExtended(Shl(a, b % n, n))
    [] i.op = "srl"  -> SignExtended(Shr(a, b % n, n))
    [] i.op = "sra"  -> SignExtended(Sar(a, b % n, n))
    [] i.op = "addi" -> Sum(a, imm, n)
    [] i.op = "ori"  -> a | imm
    [] i.op = "andi" -> a & imm
    [] i.op = "xori" -> a ^^ imm
    [] i.op = "slli" -> Shl(a, i.v, X)
    [] i.op = "srli" -> Shr(a, i.v, X)
    [] i.op = "srai" -> Sar(a, i.v, X)
    [] i.op = "lui"  -> Low(Signed(i.v, W), X)

RVTaken(op, a, b) ==
  CASE op = "beq"  -> a = b  [] op = "bne"  -> a # b
    [] op = "bltu" -> a < b  [] op = "bgeu" -> a >= b
    [] op = "blt"  -> Signed(a, X) < Signed(b, X)
    [] op = "bge"  -> Signed(a, X) >= Signed(b, X)

RVAccess(i, base, value) == Access(i.op, i.w, base + Signed(i.v, 12), value)

(* What an atomic leaves in memory, from its old contents and a register.  *)
AtomicResult(op, old, s) ==
  CASE op \in {"ldadd", "amoadd"} -> Sum(old, s, X)
    [] op \in {"ldset", "amoor"}  -> old | s
    [] op = "ldclr"  -> old & (2^X - 1 - s)
    [] op = "amoand" -> old & s
    [] op \in {"ldeor", "amoxor"} -> old ^^ s
    [] op \in {"swp", "amoswap"}  -> s
=============================================================================

----------------------------- MODULE NativeEmit -----------------------------
(***************************************************************************)
(* Which machine instructions a node becomes: emit_load_imm64,             *)
(* emit_alu64_node, emit_alu32_node, emit_load_node, emit_store_node,      *)
(* emit_branch_node, emit_atomic_node and emit_endian_node of both         *)
(* emitters (crates/jit-aarch64/src/lib.rs, crates/jit-riscv/src/lib.rs).  *)
(* The 64- and 32-bit arithmetic of a target is one operator where the two *)
(* have the same arms.                                                     *)
(***************************************************************************)
EXTENDS MachineCode, RegMaps, Interpreter

Shifts == {"lsh", "rsh", "arsh"}

----------------------------------------------------------------------------
(* AArch64.                                                                *)

T9 == tmp.aarch64

(* MOVZ for the lowest half word, MOVK for every other that is not zero.   *)
Chunk(imm, k) == Bits(imm, HALF * k, HALF)
\* Faulty: a half word that is zero ends the constant.
a64_load_imm64_stops(d, imm) ==
  LET ks == SelectSeq(<<1, 2, 3>>, LAMBDA k : \A j \in 1 .. k : Chunk(imm, j) # 0)
  IN  <<Movz(X, d, Chunk(imm, 0), 0)>>
      \o [j \in DOMAIN ks |-> Movk(X, d, Chunk(imm, ks[j]), ks[j])]
a64_load_imm64(d, imm) ==
  LET ks == SelectSeq(<<1, 2, 3>>, LAMBDA k : Chunk(imm, k) # 0)
  IN  <<Movz(X, d, Chunk(imm, 0), 0)>>
      \o [j \in DOMAIN ks |-> Movk(X, d, Chunk(imm, ks[j]), ks[j])]

A64Op == [add |-> "add", sub |-> "sub", mul |-> "mul", div |-> "udiv", or |-> "orr",
          and |-> "and", xor |-> "eor", lsh |-> "lslv", rsh |-> "lsrv", arsh |-> "asrv"]

a64_alu_reg(op, w, d, s) ==
  CASE op = "mod" -> <<a64_reg("udiv", w, 12, d, s), a64_reg("msub", w, d, 12, s)>>
    [] op = "mov" -> <<mov_reg(w, d, s)>>
    [] op = "neg" -> <<a64_reg("sub", w, d, XZR, d)>>
    [] OTHER      -> <<a64_reg(A64Op[op], w, d, d, s)>>

a64_shift_imm(op, d, v) ==
  CASE op = "lsh" -> lsl_imm(d, d, v % X)
    [] op = "rsh" -> lsr_imm(d, d, v % X)
    [] OTHER      -> asr_imm(d, d, v % X)

a64_mov_imm(w, d, v) ==
  IF w = X THEN a64_load_imm64(d, Low(v, X))
  ELSE <<Movz(W, d, v, 0)>>
       \o (IF Low(v, X) >= 2^HALF THEN <<Movk(W, d, Low(v, X) \div 2^HALF, 1)>> ELSE <<>>)

a64_alu(op, w, d, s, v) ==
  IF s # NoReg \/ op = "neg" THEN a64_alu_reg(op, w, d, s)
  ELSE IF op \in {"add", "sub"} /\ v \in 0 .. 2^IMM12 - 1
       THEN <<a64_imm(IF op = "add" THEN "addi" ELSE "subi", w, d, d, v)>>
  ELSE IF op = "mov" THEN a64_mov_imm(w, d, v)
  ELSE IF op \in Shifts /\ w = X THEN <<a64_shift_imm(op, d, v)>>
  ELSE a64_load_imm64(T9, Low(v, X)) \o a64_alu_reg(op, w, d, T9)

\* Faulty: unsigned and signed comparisons share the signed conditions.
ConditionSigned ==
  [jeq |-> "eq", jne |-> "ne", jgt |-> "gt", jge |-> "ge", jlt |-> "lt", jle |-> "le",
   jsgt |-> "gt", jsge |-> "ge", jslt |-> "lt", jsle |-> "le", jset |-> "ne", ja |-> "al"]
(* Jset has no TST of its own: CMP and B.NE.                               *)
Condition == [jeq |-> "eq", jne |-> "ne", jgt |-> "hi", jge |-> "hs", jlt |-> "lo", jle |-> "ls",
              jsgt |-> "gt", jsge |-> "ge", jslt |-> "lt", jsle |-> "le", jset |-> "ne", ja |-> "al"]
a64_branch(op, w, l, r, v) ==
  IF r # NoReg THEN <<cmp_reg(w, l, r), b_cond(Condition[op])>>
  ELSE a64_load_imm64(T9, Low(v, X)) \o <<cmp_reg(w, l, T9), b_cond(Condition[op])>>

LseOp == [add |-> "ldadd", or |-> "ldset", and |-> "ldclr", xor |-> "ldeor", xchg |-> "swp"]
a64_atomic_node(op, base, s, off) ==
  (IF off = 0 THEN <<mov_reg(X, T9, base)>>
   ELSE a64_load_imm64(T9, Low(off, X)) \o <<a64_reg("add", X, T9, base, T9)>>)
  \o <<dmb_ish,
       IF op = "cmpxchg" THEN Ins("cas", X, 0, T9, s, 0) ELSE a64_atomic(LseOp[op], s, T9),
       dmb_ish>>

a64_endian(to_be, n, d) ==
  IF ~ to_be THEN <<>>
  ELSE IF n = 2 * BYTE THEN <<rev16_w(d, d), and_imm_mask(d, d)>> ELSE <<rev(n, d, d)>>

----------------------------------------------------------------------------
(* RISC-V.                                                                 *)

S7 == tmp.riscv64

Fits12(v) == v \in -(2^(IMM12 - 1)) .. 2^(IMM12 - 1) - 1
addi(d, n, v) == i_type("addi", d, n, v)

(* LUI of the upper part, rounded, and ADDI of the lower if there is one.  *)
HighPart(v) == (v + 2^(IMM12 - 1)) \div 2^IMM12
lui_addi(d, v) ==
  <<lui(d, HighPart(v))>>
  \o (IF Low(v, IMM12) = 0 THEN <<>> ELSE <<addi(d, d, sign_extend_12(v))>>)

rv_load_imm64(d, imm) ==
  LET val   == Signed(imm, X)
      upper == imm \div 2^W
      lower == Low(imm, W)
  IN
  IF Fits12(val) THEN <<addi(d, ZERO, val)>>
  ELSE IF val = Signed(val, W) THEN lui_addi(d, val)
  ELSE lui_addi(d, upper) \o <<shift_imm("slli", d, d, W)>>
       \o (IF HighPart(lower) # 0 THEN lui_addi(S7, lower) \o <<r_type("add", X, d, d, S7)>>
           ELSE IF lower = 0 THEN <<>>
           ELSE <<addi(S7, ZERO, sign_extend_12(lower)), r_type("add", X, d, d, S7)>>)

RvOp == [add |-> "add", sub |-> "sub", mul |-> "mul", div |-> "divu", mod |-> "remu", or |-> "or",
         and |-> "and", xor |-> "xor", lsh |-> "sll", rsh |-> "srl", arsh |-> "sra"]
RvImmOp == [add |-> "addi", or |-> "ori", and |-> "andi", xor |-> "xori",
            lsh |-> "slli", rsh |-> "srli", arsh |-> "srai"]

(* There are no W forms of MV and of logic: they zero-extend by shifting.  *)
rv_alu_reg(op, w, d, s) ==
  LET zext == IF w = X THEN <<>> ELSE <<shift_imm("slli", d, d, W), shift_imm("srli", d, d, W)>>
  IN
  CASE op = "neg" -> <<r_type("sub", w, d, ZERO, d)>>
    [] op = "mov" -> <<addi(d, s, 0)>> \o zext
    [] op \in {"or", "and", "xor"} -> <<r_type(RvOp[op], X, d, d, s)>> \o zext
    [] OTHER      -> <<r_type(RvOp[op], w, d, d, s)>>

rv_alu(op, w, d, s, v) ==
  IF s # NoReg \/ op = "neg" THEN rv_alu_reg(op, w, d, s)
  ELSE IF w = X /\ op = "mov" THEN rv_load_imm64(d, Low(v, X))
  ELSE IF w = X /\ op \in Shifts THEN <<shift_imm(RvImmOp[op], d, d, v)>>
  ELSE IF w = X /\ op \in {"add", "or", "and", "xor"} /\ Fits12(v) THEN <<i_type(RvImmOp[op], d, d, v)>>
  ELSE rv_load_imm64(S7, Low(v, X)) \o rv_alu_reg(op, w, d, S7)

(* The width of the comparison is not looked at.  Jset is AND and BNE; Ja  *)
(* a JAL, which finalize patches as if it were a branch.                   *)
rv_branch(op, l, r, v) ==
  LET s == IF r = NoReg THEN S7 ELSE r IN
  (IF r = NoReg THEN rv_load_imm64(S7, Low(v, X)) ELSE <<>>)
  \o CASE op = "jeq"  -> <<b_type("beq", l, s, 0)>>   [] op = "jne"  -> <<b_type("bne", l, s, 0)>>
       [] op = "jgt"  -> <<b_type("bltu", s, l, 0)>>  [] op = "jge"  -> <<b_type("bgeu", l, s, 0)>>
       [] op = "jlt"  -> <<b_type("bltu", l, s, 0)>>  [] op = "jle"  -> <<b_type("bgeu", s, l, 0)>>
       [] op = "jsgt" -> <<b_type("blt", s, l, 0)>>   [] op = "jsge" -> <<b_type("bge", l, s, 0)>>
       [] op = "jslt" -> <<b_type("blt", l, s, 0)>>   [] op = "jsle" -> <<b_type("bge", s, l, 0)>>
       [] op = "jset" -> <<r_type("and", X, S7, l, s), b_type("bne", S7, ZERO, 0)>>
       [] OTHER       -> <<jal>>

(* The compare-exchange is a loop that loads over its own address.         *)
AmoOp == [add |-> "amoadd", or |-> "amoor", and |-> "amoand", xor |-> "amoxor", xchg |-> "amoswap"]
rv_atomic_node(op, base, s, off) ==
  <<addi(S7, base, off), fence_rw_rw>>
  \o (IF op = "cmpxchg"
      THEN <<amo("lr", S7, ZERO, S7), b_type("bne", S7, 10, 3),
             amo("sc", S7, s, S7), b_type("bne", S7, ZERO, -3)>>
      ELSE <<amo(AmoOp[op], ZERO, s, S7)>>)
  \o <<fence_rw_rw>>

----------------------------------------------------------------------------
(* emit_node, for the nodes that compute, access memory or branch.         *)

a64_emit(i, d, s) ==
  CASE i.kind = "alu"      -> a64_alu(i.op, i.w, d, s, i.imm)
    [] i.kind = "ldimm"    -> a64_load_imm64(d, Low(i.imm, X))
    [] i.kind = "endian"   -> a64_endian(i.to_be, i.width, d)
    [] i.kind = "load"     -> <<ldst_imm("load", i.width, d, s, i.off)>>
    [] i.kind = "storereg" -> <<ldst_imm("store", i.width, s, d, i.off)>>
    [] i.kind = "storeimm" -> a64_load_imm64(T9, Low(i.imm, X)) \o <<ldst_imm("store", i.width, T9, d, i.off)>>
    [] i.kind = "jcond"    -> a64_branch(i.op, i.w, d, s, i.imm)
    [] i.kind = "atomic"   -> a64_atomic_node(i.op, d, s, i.off)

rv_emit(i, d, s) ==
  CASE i.kind = "alu"      -> rv_alu(i.op, i.w, d, s, i.imm)
    [] i.kind = "ldimm"    -> rv_load_imm64(d, Low(i.imm, X))
    [] i.kind = "endian"   -> <<addi(d, d, 0)>>
    [] i.kind = "load"     -> <<mem_type("load", i.width, d, s, i.off)>>
    [] i.kind = "storereg" -> <<mem_type("store", i.width, s, d, i.off)>>
    [] i.kind = "storeimm" -> rv_load_imm64(S7, Low(i.imm, X)) \o <<mem_type("store", i.width, S7, d, i.off)>>
    [] i.kind = "jcond"    -> rv_branch(i.op, d, s, i.imm)
    [] i.kind = "atomic"   -> rv_atomic_node(i.op, d, s, i.off)

emit_node(t, i) ==
  LET d == regmap[t][i.dst]
      s == IF i.src = NoReg THEN NoReg ELSE regmap[t][i.src]
  IN  IF t = "aarch64" THEN a64_emit(i, d, s) ELSE rv_emit(i, d, s)
=============================================================================

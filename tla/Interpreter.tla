---------------------------- MODULE Interpreter -----------------------------
(***************************************************************************)
(* What the reference interpreter computes (crates/jit-engine/src/lib.rs,  *)
(* mod interpreter): eval_alu64, eval_alu32, eval_jmp, eval_endian, and    *)
(* the arms of step for arithmetic, constants, branches and addresses.     *)
(* The two eval_alu differ in their width only, an operand here.           *)
(*                                                                         *)
(* An instruction is a record [kind, op, w, dst, src, imm, off, width,     *)
(* to_be]: w is X or W, src a register or NoReg, imm a signed constant.    *)
(***************************************************************************)
EXTENDS Words

NoReg == -1

(* Negation is a plain minus in the code: where overflow is checked, as in *)
(* the dev and test profiles, negating the least value panics and there is *)
(* no result; this is the release build, where it wraps.                   *)
eval_alu(op, d, s, n) ==
  CASE op = "add"  -> Sum(d, s, n)
    [] op = "sub"  -> Minus(d, s, n)
    [] op = "mul"  -> Product(d, s, n)
    [] op = "div"  -> IF s = 0 THEN 0 ELSE d \div s
    [] op = "mod"  -> IF s = 0 THEN d ELSE d % s
    [] op = "or"   -> d | s
    [] op = "and"  -> d & s
    [] op = "xor"  -> d ^^ s
    [] op = "lsh"  -> Shl(d, s % n, n)
    [] op = "rsh"  -> Shr(d, s % n, n)
    [] op = "arsh" -> Sar(d, s % n, n)
    [] op = "mov"  -> s
    [] op = "neg"  -> Minus(0, d, n)

SignedOps == {"jsgt", "jsge", "jslt", "jsle"}

eval_jmp(op, a, b) ==
  CASE op = "jeq"  -> a = b
    [] op = "jne"  -> a # b
    [] op = "jgt"  -> a > b
    [] op = "jge"  -> a >= b
    [] op = "jlt"  -> a < b
    [] op = "jle"  -> a <= b
    [] op = "jsgt" -> Signed(a, X) > Signed(b, X)
    [] op = "jsge" -> Signed(a, X) >= Signed(b, X)
    [] op = "jslt" -> Signed(a, X) < Signed(b, X)
    [] op = "jsle" -> Signed(a, X) <= Signed(b, X)
    [] op = "jset" -> (a & b) # 0
    [] op = "ja"   -> TRUE

(* The machine is little-endian: to_le truncates.                          *)
eval_endian(to_be, n, v) == IF to_be THEN SwapBytes(v, n) ELSE Low(v, n)

(* Source::Imm(v) => v as u64, and the 32-bit arms truncate to u32.        *)
resolve_source(i, r) == IF i.src = NoReg THEN Low(i.imm, X) ELSE r[i.src]

(* The registers after the instruction.                                    *)
Interpreted(i, r) ==
  LET s == resolve_source(i, r) IN
  CASE i.kind = "alu"    -> [r EXCEPT ![i.dst] = eval_alu(i.op, Low(@, i.w), Low(s, i.w), i.w)]
    [] i.kind = "ldimm"  -> [r EXCEPT ![i.dst] = Low(i.imm, X)]
    [] i.kind = "endian" -> [r EXCEPT ![i.dst] = eval_endian(i.to_be, i.width, @)]
    [] OTHER -> r

(* Whether a conditional branch is taken.                                  *)
InterpretedBranch(i, r) ==
  eval_jmp(i.op, Low(r[i.dst], i.w), Low(resolve_source(i, r), i.w))

(* The access of a load or a store: an address, and the bytes stored.      *)
InterpretedAccess(i, r) ==
  LET base == IF i.kind = "load" THEN i.src ELSE i.dst IN
  [dir   |-> IF i.kind = "load" THEN "load" ELSE "store", width |-> i.width,
   addr  |-> Sum(r[base], i.off, X),
   value |-> IF i.kind = "load" THEN 0
             ELSE Low(IF i.kind = "storeimm" THEN Low(i.imm, X) ELSE r[i.src], BYTE * i.width)]
=============================================================================

------------------------------- MODULE Bpf --------------------------------
(***************************************************************************)
(* The decoded eBPF instruction set (crates/ebpf-core/src/isa.rs), reduced *)
(* to what the verifier, the lowering and an execution tell apart: which   *)
(* registers an instruction names, where it may transfer control, and the  *)
(* offset and width of its memory access.                                  *)
(*                                                                         *)
(* An instruction is a record [kind, dst, src, off, width]; a field the    *)
(* Rust variant does not have holds a fixed don't-care value.  "mov" and   *)
(* "alu" stand for Alu64/Alu32 with and without AluOp::Mov, "jcond" for    *)
(* JmpCond and JmpCond32, "cmpxchg" for Atomic with AtomicOp::CmpXchg and  *)
(* "atomic" for the other atomics.                                         *)
(* Instruction indices are zero-based, as in the code.                     *)
(***************************************************************************)
EXTENDS Integers, Sequences, FiniteSets

NUM_REGS == 11
Regs     == 0 .. NUM_REGS - 1
R0       == 0
R1       == 1
R10      == 10                  \* the frame pointer
ArgRegs  == 1 .. 5
Imm      == NUM_REGS            \* a Source that is not a register
Widths   == {1, 2, 4, 8}        \* MemWidth::byte_len

Kinds == {"mov", "alu", "load", "storereg", "storeimm", "ldimm", "jcond",
          "ja", "call", "tailcall", "exit", "atomic", "cmpxchg", "endian"}

Insn == [kind : Kinds, dst : Regs, src : Regs \cup {Imm}, off : Int, width : Widths]

(* Constructors: the operands a variant carries, the rest don't-care.      *)
Op(k, d, s, o, w) == [kind |-> k, dst |-> d, src |-> s, off |-> o, width |-> w]
Mov(d, s)      == Op("mov", d, s, 0, 8)
Alu(d, s)      == Op("alu", d, s, 0, 8)
Load(d, s, o, w)     == Op("load", d, s, o, w)
StoreReg(d, s, o, w) == Op("storereg", d, s, o, w)
StoreImm(d, o, w)    == Op("storeimm", d, Imm, o, w)
Atomic(d, s, o, w)   == Op("atomic", d, s, o, w)
CmpXchg(d, s, o, w)  == Op("cmpxchg", d, s, o, w)
LoadImm64(d)   == Op("ldimm", d, Imm, 0, 8)
Endian(d)      == Op("endian", d, Imm, 0, 8)
JmpCond(d, s, o) == Op("jcond", d, s, o, 8)
Ja(o)          == Op("ja", R0, Imm, o, 8)
Call           == Op("call", R0, Imm, 0, 8)
TailCall       == Op("tailcall", R0, Imm, 0, 8)
Exit           == Op("exit", R0, Imm, 0, 8)

(* Program indices, and the target of a relative branch.                   *)
Pcs(p)           == 0 .. Len(p) - 1
At(p, pc)        == p[pc + 1]
Target(p, pc)    == pc + 1 + At(p, pc).off
IsBranch(i)      == i.kind \in {"ja", "jcond"}
IsMemAccess(i)   == i.kind \in {"load", "storereg", "storeimm", "atomic", "cmpxchg"}
MemBase(i)       == IF i.kind = "load" THEN i.src ELSE i.dst

(* Where control may be after instruction pc executes: the interpreter's   *)
(* step, with the outcome of a comparison left open.  An index outside     *)
(* Pcs(p) is control leaving the program.                                  *)
ExecSuccessors(p, pc) ==
  LET k == At(p, pc).kind IN
  IF k = "ja" THEN {Target(p, pc)}
  ELSE IF k = "jcond" THEN {pc + 1, Target(p, pc)}
  ELSE IF k \in {"exit", "tailcall"} THEN {}
  ELSE {pc + 1}
============================================================================

----------------------------- MODULE NativeStep -----------------------------
(***************************************************************************)
(* One eBPF instruction as the processor runs it: the machine code of its  *)
(* node (NativeEmit) executed instruction by instruction, on registers     *)
(* related to the eBPF registers by the target's map, next to what the     *)
(* interpreter makes of the same instruction (Interpreter).                *)
(*                                                                         *)
(* The processors are external: crates/jit-aarch64 and crates/jit-riscv    *)
(* name the instructions, the architectures say what they do.              *)
(***************************************************************************)
EXTENDS NativeEmit

CONSTANT Tests     \* records [i, a, b, cell]: an instruction, and the values
                   \* to try in its dst, its src and the memory it points at

TestsAssumption ==
  \A t \in Tests : /\ t.i.dst \in 0 .. 10 /\ t.i.src \in 0 .. 10 \cup {NoReg}
                   /\ t.a \cup t.b \cup t.cell \subseteq 0 .. 2^X - 1
ASSUME TestsAssumption

VARIABLES target,  \* the architecture
          insn,    \* the eBPF instruction
          before,  \* the eBPF registers it finds
          code,    \* the machine code of its node
          at,      \* the machine instruction to run
          regs,    \* the machine's registers
          flags,   \* AArch64's, after CMP
          mem,     \* the one cell of memory the instruction points at, and
                   \* what it held before
          taken,   \* whether its branch was taken
          access,  \* the load or store made
          phase    \* "running", "done", or "wild": at a place nobody chose

vars == <<target, insn, before, code, at, regs, flags, mem, taken, access, phase>>

(* R0 holds 5, R1 6, and so on, but for the registers of the instruction.  *)
EbpfRegs(i, a, b) ==
  [r \in 0 .. 10 |-> IF r = i.dst THEN a ELSE IF r = i.src THEN b ELSE 5 + r]
Held == [tgt \in Targets |-> {regmap[tgt][k] : k \in 0 .. 10}]
NativeRegs(tgt, r) ==
  [x \in 0 .. 31 |-> IF x \in Held[tgt] THEN r[CHOOSE k \in 0 .. 10 : regmap[tgt][k] = x]
                     ELSE 2^X - 1 - x]

(* The register an instruction's offset is from.                           *)
Base(i) == IF i.kind = "load" THEN i.src ELSE i.dst

NoAccess == Access("none", 1, 0, 0)

Init ==
  \E t \in Tests, tgt \in Targets :
    /\ target = tgt /\ insn = t.i /\ code = emit_node(tgt, t.i) /\ at = 1
    /\ \E a \in t.a, b \in t.b : before = EbpfRegs(t.i, a, b)
    /\ regs = NativeRegs(tgt, before)
    /\ \E c \in t.cell :
         mem = [addr |-> Sum(before[Base(t.i)], t.i.off, X), old |-> c, val |-> c]
    /\ flags = Flags(X, 0, 0) /\ taken = FALSE /\ access = NoAccess /\ phase = "running"

----------------------------------------------------------------------------
Word   == code[at]
Reg(x) == IF x = (IF target = "aarch64" THEN XZR ELSE ZERO) THEN 0 ELSE regs[x]
Half(x) == Low(Reg(x), Word.w)
SetReg(x, v) == regs' = IF x = (IF target = "aarch64" THEN XZR ELSE ZERO) THEN regs
                        ELSE [regs EXCEPT ![x] = v]

(* Goes on at place k of the code, which ends the node when past it.       *)
Running == phase = "running" /\ at <= Len(code) /\ UNCHANGED <<target, insn, before, code>>
Goto(k) == at' = k /\ phase' = "running"
Wild    == phase' = "wild" /\ UNCHANGED <<at, regs, mem>>

Accesses  == {"load", "store"}
Branches  == {"beq", "bne", "bltu", "bgeu", "blt", "bge"}
Atomics   == {"ldadd", "ldset", "ldclr", "ldeor", "swp",
              "amoadd", "amoor", "amoand", "amoxor", "amoswap"}
Conditions == {Condition[op] : op \in DOMAIN Condition}
NoValue   == Accesses \cup Branches \cup Atomics \cup Conditions
             \cup {"cmp", "cas", "lr", "sc", "barrier", "jal"}

Compute ==
  /\ Running /\ Word.op \notin NoValue
  /\ SetReg(Word.d, IF target = "aarch64" THEN A64Value(Word, Half(Word.n), Half(Word.m), Half(Word.d))
                    ELSE RVValue(Word, Half(Word.n), Half(Word.m)))
  /\ Goto(at + 1) /\ UNCHANGED <<flags, mem, taken, access>>

Compare ==
  /\ Running /\ Word.op = "cmp"
  /\ flags' = Flags(Word.w, Half(Word.n), Half(Word.m))
  /\ Goto(at + 1) /\ UNCHANGED <<regs, mem, taken, access>>

BranchOnFlags ==
  /\ Running /\ Word.op \in Conditions
  /\ taken' = ConditionHolds(Word.op, flags)
  /\ Goto(at + 1) /\ UNCHANGED <<regs, flags, mem, access>>

(* RISC-V compares in the branch; one of v words stays in the node.        *)
BranchOnRegs ==
  /\ Running /\ Word.op \in Branches
  /\ LET holds == RVTaken(Word.op, Reg(Word.n), Reg(Word.m)) IN
       /\ taken' = (holds /\ Word.v = 0)
       /\ Goto(IF holds /\ Word.v # 0 THEN at + Word.v ELSE at + 1)
  /\ UNCHANGED <<regs, flags, mem, access>>

(* A JAL whose offset was patched in a branch's format.                    *)
BranchMisformed ==
  /\ Running /\ Word.op = "jal"
  /\ Wild /\ UNCHANGED <<flags, taken, access>>

(* A load reads the cell, or anything when it is of another place.         *)
Transfer ==
  /\ Running /\ Word.op \in Accesses
  /\ access' = IF target = "aarch64" THEN A64Access(Word, Reg(Word.n), Reg(Word.d))
               ELSE RVAccess(Word, Reg(Word.n), Reg(Word.d))
  /\ IF access'.dir # "load" THEN UNCHANGED regs
     ELSE IF access'.addr = mem.addr THEN SetReg(Word.d, Low(mem.val, BYTE * Word.w))
     ELSE \E v \in {0, 2^X - 1} : SetReg(Word.d, Low(v, BYTE * Word.w))
  /\ Goto(at + 1) /\ UNCHANGED <<flags, mem, taken>>

Atomic ==
  /\ Running /\ Word.op \in Atomics
  /\ IF Reg(Word.n) # mem.addr THEN Wild
     ELSE /\ mem' = [mem EXCEPT !.val = AtomicResult(Word.op, @, Reg(Word.m))]
          /\ Goto(at + 1) /\ UNCHANGED regs
  /\ UNCHANGED <<flags, taken, access>>

(* CAS compares with the register it returns the old contents in.          *)
CompareAndSwap ==
  /\ Running /\ Word.op = "cas" /\ Reg(Word.n) = mem.addr
  /\ mem' = [mem EXCEPT !.val = IF @ = Reg(Word.d) THEN Reg(Word.m) ELSE @]
  /\ SetReg(Word.d, mem.val)
  /\ Goto(at + 1) /\ UNCHANGED <<flags, taken, access>>

LoadReserved ==
  /\ Running /\ Word.op = "lr"
  /\ IF Reg(Word.n) # mem.addr THEN Wild
     ELSE SetReg(Word.d, mem.val) /\ Goto(at + 1) /\ UNCHANGED mem
  /\ UNCHANGED <<flags, taken, access>>

(* SC fails, with a 1, when its address is not the reserved one.           *)
StoreConditional ==
  /\ Running /\ Word.op = "sc"
  /\ IF Reg(Word.n) = mem.addr
     THEN mem' = [mem EXCEPT !.val = Reg(Word.m)] /\ SetReg(Word.d, 0)
     ELSE UNCHANGED mem /\ SetReg(Word.d, 1)
  /\ Goto(at + 1) /\ UNCHANGED <<flags, taken, access>>

Barrier ==
  /\ Running /\ Word.op = "barrier"
  /\ Goto(at + 1) /\ UNCHANGED <<regs, flags, mem, taken, access>>

Finish ==
  /\ phase = "running" /\ at > Len(code) /\ phase' = "done"
  /\ UNCHANGED <<target, insn, before, code, at, regs, flags, mem, taken, access>>

Next == \/ Compute \/ Compare \/ BranchOnFlags \/ BranchOnRegs \/ BranchMisformed \/ Transfer
        \/ Atomic \/ CompareAndSwap \/ LoadReserved \/ StoreConditional \/ Barrier \/ Finish

Spec == Init /\ [][Next]_vars

----------------------------------------------------------------------------
(* Properties.                                                             *)

RegistersAgree(after) == \A r \in 0 .. 10 : regs[regmap[target][r]] = after[r]

(* What RISC-V's emit_load_imm64 builds is v: one ADDI builds it, or its   *)
(* upper part is -1, which LUI has from any of its bits, or both halves of *)
(* a 64-bit constant are themselves small and not negative.                *)
Small == 0 .. 2^(IMM12 - 1) - 1
RVExact(v) ==
  \/ Fits12(v)
  \/ HighPart(v) = -1
  \/ v >= 2^W /\ v \div 2^W \in Small /\ v % 2^W \in Small

(* The 32-bit operations RISC-V has W forms of, which sign-extend.         *)
SignExtending == {"add", "sub", "mul", "div", "mod", "lsh", "rsh", "arsh", "neg"}

(* Where the arithmetic of the native code is not the interpreter's.       *)
Diverges ==
  LET value  == before[insn.dst]
      after  == Interpreted(insn, before)[insn.dst]
      source == resolve_source(insn, before)
  IN
  CASE insn.kind = "endian" -> (target = "riscv64" \/ ~ insn.to_be) /\ after # value
    [] target = "aarch64"   -> FALSE
    [] insn.kind = "ldimm"  -> ~ RVExact(Signed(insn.imm, X))
    [] insn.op = "mov" /\ insn.src = NoReg -> ~ RVExact(insn.imm)
    [] OTHER -> \/ insn.op = "div" /\ Low(source, insn.w) = 0
                \/ insn.w = W /\ insn.op \in SignExtending /\ Bits(after, W - 1, 1) = 1

(* What Diverges does not speak of: AArch64's 16-bit byte swap, masked out *)
(* of a register that is not its operand's, and an operation on a constant *)
(* RISC-V loses bits of, which may or may not show in the result.          *)
Unclear ==
  \/ insn.kind = "endian" /\ target = "aarch64" /\ insn.to_be /\ insn.width = 2 * BYTE
  \/ /\ insn.kind = "alu" /\ target = "riscv64" /\ insn.src = NoReg
     /\ ~ RVExact(insn.imm)
     /\ ~ (insn.op \in {"neg", "mov"} \/ (insn.op \in Shifts /\ insn.w = X))

(* After an arithmetic instruction all eleven eBPF registers hold what the *)
(* interpreter computes, exactly unless it diverges in one of the ways     *)
(* Diverges lists: AArch64 agrees on all arithmetic and every constant.    *)
ArithmeticMatches ==
  phase = "done" /\ insn.kind \in {"alu", "ldimm", "endian"} /\ ~ Unclear =>
    (RegistersAgree(Interpreted(insn, before)) <=> ~ Diverges)

(* A conditional branch is taken when the interpreter takes it, but for:   *)
(* on AArch64 Jset, a test for inequality, and signed comparisons of 32    *)
(* bits, which the interpreter makes on zero-extended operands; on RISC-V  *)
(* comparisons of 32 bits, made of all 64.                                 *)
BranchesMatch ==
  LET a == before[insn.dst]
      b == resolve_source(insn, before)
  IN
  phase = "done" /\ insn.kind = "jcond" =>
    /\ RegistersAgree(before)
    /\ IF target = "aarch64"
       THEN IF insn.op = "jset" THEN taken <=> Low(a, insn.w) # Low(b, insn.w)
            ELSE IF insn.op \in SignedOps /\ insn.w = W
            THEN (taken <=> InterpretedBranch(insn, before)) <=> Bits(a, W - 1, 1) = Bits(b, W - 1, 1)
            ELSE taken <=> InterpretedBranch(insn, before)
       ELSE insn.src # NoReg \/ RVExact(insn.imm) => (taken <=> eval_jmp(insn.op, a, b))

OffsetHeld ==
  IF target = "riscv64" THEN insn.off \in -2048 .. 2047
  ELSE insn.off >= 0 /\ insn.off % insn.width = 0 /\ insn.off \div insn.width < 4096

(* What the operation of an atomic leaves in the cell (isa.rs, AtomicOp).  *)
AtomicMeans ==
  LET s == before[insn.src] IN
  CASE insn.op = "add"  -> Sum(mem.old, s, X)
    [] insn.op = "or"   -> mem.old | s
    [] insn.op = "and"  -> mem.old & s
    [] insn.op = "xor"  -> mem.old ^^ s
    [] insn.op = "xchg" -> s
    [] insn.op = "cmpxchg" -> IF mem.old = before[0] THEN s ELSE mem.old

(* A load or store is made at the address, of the width and with the bytes *)
(* the instruction names exactly when its offset is one the machine's      *)
(* instruction can hold, and then only a load changes a register.          *)
TransferMatches ==
  /\ ~ (insn.kind = "storeimm" /\ target = "riscv64" /\ ~ RVExact(insn.imm)) =>
       (access = InterpretedAccess(insn, before) <=> OffsetHeld)
  /\ OffsetHeld => RegistersAgree(IF insn.kind = "load"
                                  THEN [before EXCEPT ![insn.dst] = Low(mem.val, BYTE * insn.width)]
                                  ELSE before)

(* A 64-bit atomic leaves in memory what its operation means, but for the  *)
(* And of AArch64 (LDCLR clears the bits And keeps), an offset out of the  *)
(* reach of RISC-V's ADDI, and compare-exchange: AArch64 compares R1's     *)
(* register, and writes it, and RISC-V loses its address when the contents *)
(* are the expected ones.                                                  *)
AtomicMatches ==
  LET right == phase = "done" /\ mem.val = AtomicMeans
      old   == mem.old
      s     == before[insn.src]
  IN
  CASE target = "riscv64" ->
         right <=> Fits12(insn.off) /\ (insn.op = "cmpxchg" /\ old = before[0] => old = mem.addr)
    [] insn.op = "and" -> right <=> (old & s) = (old & (2^X - 1 - s))
    [] insn.op = "cmpxchg" ->
         /\ right <=> s = old \/ (old = before[0] <=> old = before[1])
         /\ RegistersAgree([before EXCEPT ![1] = old])
    [] OTHER -> right /\ RegistersAgree(before)

(* Memory: every access of a load, store or atomic is the one meant,       *)
(* exactly unless TransferMatches and AtomicMatches say otherwise.         *)
AccessesMatch ==
  phase # "running" =>
    /\ insn.kind \in {"load", "storereg", "storeimm"} => TransferMatches
    /\ insn.kind = "atomic" /\ insn.width = 8 => AtomicMatches

(* "Interpreter result is ground truth; JIT output must match exactly"     *)
(* (fuzz/src/lib.rs): registers, branch and access after an instruction.   *)
NativeMatchesInterpreter ==
  phase = "done" =>
    CASE insn.kind \in {"alu", "ldimm", "endian"} -> RegistersAgree(Interpreted(insn, before))
      [] insn.kind = "jcond" -> taken <=> InterpretedBranch(insn, before)
      [] insn.kind \in {"load", "storereg", "storeimm"} -> access = InterpretedAccess(insn, before)
      [] OTHER -> TRUE
=============================================================================

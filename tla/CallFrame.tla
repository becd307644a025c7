----------------------------- MODULE CallFrame ------------------------------
(***************************************************************************)
(* The machine's side of a run of the lowered program: which value each    *)
(* machine register holds, the stack pointer, and the stack slots of the   *)
(* prologue, as the arms of emit_node for Prologue, Epilogue, Call and Ret *)
(* leave them on both targets (crates/jit-aarch64/src/lib.rs and           *)
(* crates/jit-riscv/src/lib.rs), under the targets' calling conventions.   *)
(* Every step is a step of IrRun with its effect on the machine.           *)
(*                                                                         *)
(* A value is where it came from: a register of the caller, the program, a *)
(* helper's result, what a helper left behind, what a compare-exchange     *)
(* found in memory, the zero register, or the address of the frame.  Stack *)
(* addresses are relative to the stack pointer at entry.  Stores of the    *)
(* program are not seen: no prologue sets the register of R10 (run         *)
(* FrameAccess), so they go to addresses of the caller's choosing, which  *)
(* are taken to lie outside the slots.                                     *)
(***************************************************************************)
EXTENDS IrRun

(* The code's frame is 512 bytes; the offsets of register pairs go no      *)
(* further.                                                                *)
ASSUME PairOffsetAssumption == STACK_SIZE <= 512

VARIABLES
  machine,     \* the Target
  mreg,        \* the value in each machine register
  sp,          \* the stack pointer, relative to entry
  slots        \* the stack words the prologue has written, by address

fvars == <<machine, mreg, sp, slots>>

Caller(r)   == <<"caller", r>>
Program     == <<"program", 0>>
Helper      == <<"helper", 0>>
Lost        == <<"lost", 0>>
Memory      == <<"memory", 0>>
ZeroReg     == <<"zero", 0>>
FrameTop(a) == <<"frame", a>>

(* The registers that matter here: the mapped and the saved ones, the      *)
(* emitters' scratch register and the result's; the C frame pointer and    *)
(* the link register are saved.                                            *)
FrameReg == [aarch64 |-> 29, riscv64 |-> 8]
LinkReg  == [aarch64 |-> 30, riscv64 |-> 1]
SavedRegs == [aarch64 |-> {19, 20, 21, 22, 25, 29, 30}, riscv64 |-> {1, 8} \cup 18 .. 22]
ResultReg == [aarch64 |-> 0, riscv64 |-> 10]
MachineRegs(t) == {regmap[t][r] : r \in Regs} \cup SavedRegs[t] \cup {tmp[t], ResultReg[t]}

(* The calling conventions' registers that a function must preserve: X19   *)
(* to X29, s0 to s11.                                                      *)
CalleeSaved == [aarch64 |-> 19 .. 29, riscv64 |-> {8, 9} \cup 18 .. 27]

(* The lowering is the same under any register map; a run with one of them *)
(* is read as a run with the target's.                                     *)
OnMachine(phys) == regmap[machine][CHOOSE r \in Regs : RegMap[r] = phys]

----------------------------------------------------------------------------
(* The prologue and the epilogue.                                          *)

(* A pair's offset is a multiple of 8 in a signed 7-bit field.             *)
Imm7(off) ==
  LET f == (off \div 8) % 128 IN 8 * (IF f >= 64 THEN f - 128 ELSE f)

(* The saved registers, and where, from the new stack pointer.             *)
\* Faulty: X25 goes where X22 is.
SaveAreaOverlapping ==
  [aarch64 |-> {<<29, 0>>, <<30, 8>>, <<19, 16>>, <<20, 24>>, <<21, 32>>, <<22, 40>>, <<25, 40>>},
   riscv64 |-> {<<1, frameSize - 8>>, <<8, frameSize - 16>>}
               \cup {<<s, frameSize - 8 * (s - 15)>> : s \in 18 .. 22}]
SaveArea ==
  [aarch64 |-> {<<29, 0>>, <<30, 8>>, <<19, 16>>, <<20, 24>>, <<21, 32>>, <<22, 40>>, <<25, 48>>},
   riscv64 |-> {<<1, frameSize - 8>>, <<8, frameSize - 16>>}
               \cup {<<s, frameSize - 8 * (s - 15)>> : s \in 18 .. 22}]

(* STP pre-indexed moves the stack pointer on AArch64, ADDI on RISC-V;     *)
(* MOV X29, SP is encoded as ORR, where register 31 reads as zero.         *)
Pushed  == IF machine = "aarch64" THEN sp + Imm7(-frameSize) ELSE sp - frameSize
Popped  == IF machine = "aarch64" THEN sp + Imm7(frameSize) ELSE sp + frameSize
NewFrameReg == IF machine = "aarch64" THEN ZeroReg ELSE FrameTop(Pushed + frameSize)

Saved(base) == {<<s[1], base + s[2]>> : s \in SaveArea[machine]}

Prologue ==
  /\ PushFrame
  /\ sp' = Pushed
  /\ slots' = [a \in {s[2] : s \in Saved(Pushed)} \cup DOMAIN slots |->
       IF \E s \in Saved(Pushed) : s[2] = a
       THEN mreg[(CHOOSE s \in Saved(Pushed) : s[2] = a)[1]]
       ELSE slots[a]]
  /\ mreg' = [mreg EXCEPT ![FrameReg[machine]] = NewFrameReg]
  /\ UNCHANGED machine

Epilogue ==
  /\ PopFrame
  /\ mreg' = [r \in DOMAIN mreg |->
       IF \E s \in Saved(sp) : s[1] = r
       THEN LET a == (CHOOSE s \in Saved(sp) : s[1] = r)[2]
            IN  IF a \in DOMAIN slots THEN slots[a] ELSE Lost
       ELSE mreg[r]]
  /\ sp' = Popped
  /\ UNCHANGED <<machine, slots>>

----------------------------------------------------------------------------
(* The other nodes.                                                        *)

EnterCode ==
  /\ StartIr
  /\ machine' \in Targets
  /\ mreg' = [r \in MachineRegs(machine') |-> Caller(r)]
  /\ UNCHANGED <<sp, slots>>

(* Constants and addresses of atomics go through the scratch register.  On *)
(* RISC-V that includes the constant of a 32-bit move.                     *)
MayUseScratch(x) ==
  \/ x.op \in {"alu", "branch", "storeimm", "atomic"}
  \/ x.op = "ldimm" /\ machine = "riscv64"
  \/ x.op = "mov" /\ x.src = NoReg /\ machine = "riscv64"
ScratchWritten(x, mr) ==
  {mr} \cup (IF MayUseScratch(x) THEN {[mr EXCEPT ![tmp[machine]] = Program]} ELSE {})

(* CAS X0, Xsrc, [X9] leaves the old contents in X0; LR and SC use s7.     *)
SwapsX0(x) == machine = "aarch64" /\ x.op = "atomic" /\ At(prog, x.pc).kind = "cmpxchg"
Compute ==
  /\ Straight /\ Here.op # "call"
  /\ mreg' \in ScratchWritten(Here,
       [r \in DOMAIN mreg |->
          IF \E d \in IrDefines(Here) : OnMachine(d) = r THEN Program
          ELSE IF SwapsX0(Here) /\ r = ResultReg[machine] THEN Memory ELSE mreg[r]])
  /\ UNCHANGED <<machine, sp, slots>>

Decide ==
  /\ BranchTaken \/ BranchNotTaken
  /\ mreg' \in ScratchWritten(Here, mreg)
  /\ UNCHANGED <<machine, sp, slots>>

(* BLR X9, or JALR ra, 0(s7): the helper keeps what it must, returns its   *)
(* result, and everything else is lost, the link register included.        *)
CallHelper ==
  /\ Straight /\ Here.op = "call"
  /\ mreg' = [r \in DOMAIN mreg |->
       IF r \in CalleeSaved[machine] THEN mreg[r]
       ELSE IF r = ResultReg[machine] THEN Helper ELSE Lost]
  /\ UNCHANGED <<machine, sp, slots>>

\* Faulty: the result stays in X7.
ReturnFromX7 ==
  /\ Ret
  /\ UNCHANGED <<mreg, machine, sp, slots>>
(* MOV X0, X7 before RET on AArch64.                                       *)
Return ==
  /\ Ret
  /\ mreg' = [mreg EXCEPT ![ResultReg[machine]] = mreg[regmap[machine][R0]]]
  /\ UNCHANGED <<machine, sp, slots>>

FrameInit ==
  /\ IrInit
  /\ machine = "aarch64" /\ sp = 0 /\ slots = [a \in {} |-> Lost]
  /\ mreg = [r \in MachineRegs(machine) |-> Caller(r)]
FrameNext ==
  \/ LowerNext /\ UNCHANGED <<mvars, fvars>>
  \/ EnterCode \/ Compute \/ Decide \/ CallHelper \/ Prologue \/ Epilogue \/ Return
FrameSpec == FrameInit /\ [][FrameNext]_<<irvars, fvars>>

----------------------------------------------------------------------------
(* Properties.                                                             *)

(* What a return gives back, for a program that does not branch to its     *)
(* first instruction: the stack pointer, the return address, and every     *)
(* register the convention protects, whatever the program and its helpers  *)
(* did.  Two exceptions: on AArch64 the 7-bit offset that pops a frame of  *)
(* 512 bytes wraps, so the stack pointer goes down again; on RISC-V s7,    *)
(* the scratch register, is not saved.                                     *)
EpilogueWraps == machine = "aarch64" /\ frameSize = 512
ReturnRestoresCaller ==
  irs = "halted" /\ EntryIsNotATarget =>
    /\ sp = IF EpilogueWraps THEN -1024 ELSE 0
    /\ mreg[LinkReg[machine]] = Caller(LinkReg[machine])
    /\ \A r \in (DOMAIN mreg \cap CalleeSaved[machine]) \ {tmp["riscv64"]} : mreg[r] = Caller(r)

(* What a register with a value may hold that is not of the program or its *)
(* caller.  R0 holds a helper's result on RISC-V; on AArch64 the result    *)
(* stays in X0 and X7 is lost.  A compare-exchange on AArch64 overwrites   *)
(* R1, which is in X0, with what it found in memory.                       *)
OtherValues(r) ==
  IF r = R0 THEN IF machine = "aarch64" THEN {Lost} ELSE {Helper}
  ELSE IF r = R1 /\ machine = "aarch64" THEN {Memory} ELSE {}

(* A register the program has defined holds what the program or the caller *)
(* put there, across helper calls and frames, but for the other values     *)
(* just named; and the function returns what R0's register holds.          *)
ValuesSurviveCalls ==
  /\ irs = "running" =>
       \A r \in Regs : Phys(r) \in defined =>
         mreg[regmap[machine][r]] \in {Program, Caller(regmap[machine][r])} \cup OtherValues(r)
  /\ irs = "halted" => mreg[ResultReg[machine]] = mreg[regmap[machine][R0]]

(* Whichever way the program got to a node, the machine registers of its   *)
(* operands hold what the program computed, or in R1 and R10 what the      *)
(* caller passed, or one of the other values just named, and never what    *)
(* the caller or a helper happened to leave there.  What the code of a     *)
(* node reads without the node naming it is not an operand: the arguments  *)
(* of a helper and its address in X9 or s7, the R0 a compare-exchange      *)
(* compares with.                                                          *)
OperandsHoldTheirValues ==
  irs = "running" =>
    \A r \in Regs : Phys(r) \in NodeOperands(Here) =>
      /\ Phys(r) \in defined
      /\ mreg[regmap[machine][r]] \in
           {Program} \cup OtherValues(r)
           \cup (IF r \in EntryRegs THEN {Caller(regmap[machine][r])} ELSE {})

----------------------------------------------------------------------------
(* What the repository says of the machine, and the code does not do.      *)

(* verify.rs:53, "R10 = frame pointer (always valid)", jit-regalloc, lines *)
(* 73 and 109, "Frame pointer", and verify.rs:8, "Stack accesses stay      *)
(* within the 512-byte frame": an access through R10 is made from the      *)
(* address of a frame the prologue opened, and ends where the frame ends.  *)
FrameAccessesStayInFrame ==
  irs = "running" /\ Here.op \in {"load", "store", "storeimm", "atomic"}
    /\ FrameAccess(At(prog, Here.pc)) =>
    /\ mreg[regmap[machine][R10]][1] = "frame"
    /\ At(prog, Here.pc).off + At(prog, Here.pc).width <= 0
=============================================================================

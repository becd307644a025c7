-------------------------- MODULE CallFrameProofs ---------------------------
(***************************************************************************)
(* What the machine's registers hold while a lowered program runs, and     *)
(* when it returns: the calling conventions' part of the correctness of    *)
(* both emitters, for every program and every register map of the          *)
(* lowering.                                                               *)
(***************************************************************************)
EXTENDS CallFrame, IrRunProofs

----------------------------------------------------------------------------
(* The invariant.                                                          *)

MapOf(r)       == regmap[machine][r]
PROTECTED      == 6 .. 10         \* the eBPF registers in registers a callee keeps
OwnOrCaller(m) == {Program, Caller(m)}

(* The frame is there: the prologue has run and the epilogue has not.      *)
InFrame == frameSize > 0 /\ Here.op \notin {"prologue", "ret"}

MachineInv == machine \in Targets /\ DOMAIN mreg = MachineRegs(machine) /\ sp \in Int

(* In whatever frame the program runs, the registers that outlive a call   *)
(* and the slots they were saved in hold values of the program or the      *)
(* caller.                                                                 *)
ProtectedInv ==
  irs = "running" =>
    /\ \A r \in PROTECTED : mreg[MapOf(r)] \in OwnOrCaller(MapOf(r))
    /\ InFrame => \A s \in Saved(sp) :
         /\ s[2] \in DOMAIN slots
         /\ \A r \in PROTECTED : s[1] = MapOf(r) => slots[s[2]] \in OwnOrCaller(s[1])

(* Of the registers with a value, only those of R1 and R10 can hold what   *)
(* the caller left in them; the epilogue gives the others back for the     *)
(* return, which needs R0 alone.                                           *)
OwnedInv ==
  irs = "running" =>
    \A r \in Regs \ EntryRegs :
      Phys(r) \in defined /\ (r = R0 \/ Here.op # "ret") =>
        mreg[MapOf(r)] \in {Program} \cup OtherValues(r)

(* Without a branch to the first instruction: in the frame, the slots hold *)
(* what the caller left in the saved registers; outside it the registers   *)
(* themselves do.                                                          *)
RestoreInv ==
  /\ irs = "idle" => sp = 0
  /\ irs = "halted" => Here.op = "ret"
  /\ irs \in {"running", "halted"} /\ EntryIsNotATarget =>
       IF InFrame
       THEN sp = -frameSize /\ \A s \in Saved(sp) : slots[s[2]] = Caller(s[1])
       ELSE /\ \A m \in SavedRegs[machine] : mreg[m] = Caller(m)
            /\ sp = IF Here.op = "ret" /\ EpilogueWraps THEN -1024 ELSE 0

MachineStateInv == MachineInv /\ ProtectedInv /\ OwnedInv /\ ValuesSurviveCalls /\ RestoreInv

----------------------------------------------------------------------------
(* The registers of both targets.                                          *)

(* Where the eBPF registers are: apart from each other, from the scratch   *)
(* register and from the C frame pointer; R6 to R10 in saved registers     *)
(* that a callee keeps, the others in none.                                *)
LEMMA MapFacts ==
  ASSUME machine \in Targets
  PROVE  /\ \A r, s \in Regs : MapOf(r) = MapOf(s) => r = s
         /\ \A r \in Regs : /\ MapOf(r) \in MachineRegs(machine) /\ MapOf(r) # tmp[machine]
                            /\ MapOf(r) # FrameReg[machine]
         /\ \A r \in Regs \ PROTECTED : MapOf(r) \notin SavedRegs[machine]
         /\ \A r \in PROTECTED : MapOf(r) \in SavedRegs[machine] /\ MapOf(r) \in CalleeSaved[machine]
         /\ PROTECTED \subseteq Regs /\ R0 \in Regs \ PROTECTED
<1> USE DEF MapOf, Regs, NUM_REGS, PROTECTED, R0, R10
<1>1. CASE machine = "aarch64"
  <2>1. \A r \in Regs : MapOf(r) = IF r = 0 THEN 7 ELSE IF r <= 5 THEN r - 1 ELSE IF r = 10 THEN 25 ELSE r + 13
    BY <1>1 DEF regmap, aarch64_regmap
  <2>2. /\ SavedRegs[machine] = {19, 20, 21, 22, 25, 29, 30} /\ CalleeSaved[machine] = 19 .. 29
        /\ tmp[machine] = 9 /\ FrameReg[machine] = 29
    BY <1>1 DEF SavedRegs, CalleeSaved, tmp, FrameReg
  <2>3. \A r \in Regs : MapOf(r) \in MachineRegs(machine)
    BY DEF MachineRegs
  <2> QED
    BY <2>1, <2>2, <2>3
<1>2. CASE machine = "riscv64"
  <2>1. \A r \in Regs : MapOf(r) = IF r <= 5 THEN r + 10 ELSE r + 12
    BY <1>2 DEF regmap, riscv64_regmap
  <2>2. /\ SavedRegs[machine] = {1, 8} \cup 18 .. 22 /\ CalleeSaved[machine] = {8, 9} \cup 18 .. 27
        /\ tmp[machine] = 23 /\ FrameReg[machine] = 8
    BY <1>2 DEF SavedRegs, CalleeSaved, tmp, FrameReg
  <2>3. \A r \in Regs : MapOf(r) \in MachineRegs(machine)
    BY DEF MachineRegs
  <2> QED
    BY <2>1, <2>2, <2>3
<1> QED
  BY <1>1, <1>2 DEF Targets

(* The other registers of the convention.                                  *)
LEMMA ConventionFacts ==
  ASSUME machine \in Targets
  PROVE  /\ SavedRegs[machine] \subseteq MachineRegs(machine)
         /\ tmp[machine] \notin SavedRegs[machine]
         /\ FrameReg[machine] \in SavedRegs[machine] /\ LinkReg[machine] \in SavedRegs[machine]
         /\ ResultReg[machine] \in MachineRegs(machine) \ SavedRegs[machine]
         /\ (MachineRegs(machine) \cap CalleeSaved[machine]) \ {tmp["riscv64"]} \subseteq SavedRegs[machine]
         /\ MapOf(R0) \notin CalleeSaved[machine]
         /\ machine = "aarch64" <=> MapOf(R0) # ResultReg[machine]
         /\ machine = "aarch64" => MapOf(R1) = ResultReg[machine] /\ R1 \in Regs /\ R1 # R0
<1>1. CASE machine = "aarch64"
  <2>1. /\ SavedRegs[machine] = {19, 20, 21, 22, 25, 29, 30} /\ CalleeSaved[machine] = 19 .. 29
        /\ tmp[machine] = 9 /\ FrameReg[machine] = 29 /\ LinkReg[machine] = 30
        /\ ResultReg[machine] = 0 /\ MapOf(R0) = 7 /\ MapOf(R1) = 0 /\ R1 \in Regs /\ R1 # R0
    BY <1>1 DEF SavedRegs, CalleeSaved, tmp, FrameReg, LinkReg, ResultReg, MapOf, regmap,
      aarch64_regmap, R0, R1, Regs, NUM_REGS
  <2>2. \A r \in Regs : regmap[machine][r] \in SavedRegs[machine] \/ regmap[machine][r] \notin 19 .. 29
    <3>1. \A r \in Regs : regmap[machine][r] = IF r = 0 THEN 7 ELSE IF r <= 5 THEN r - 1 ELSE IF r = 10 THEN 25 ELSE r + 13
      BY <1>1 DEF regmap, aarch64_regmap, Regs, NUM_REGS
    <3> QED
      BY <2>1, <3>1 DEF Regs, NUM_REGS
  <2> QED
    BY <1>1, <2>1, <2>2 DEF MachineRegs
<1>2. CASE machine = "riscv64"
  <2>1. /\ SavedRegs[machine] = {1, 8} \cup 18 .. 22 /\ CalleeSaved[machine] = {8, 9} \cup 18 .. 27
        /\ tmp[machine] = 23 /\ tmp["riscv64"] = 23 /\ FrameReg[machine] = 8 /\ LinkReg[machine] = 1
        /\ ResultReg[machine] = 10 /\ MapOf(R0) = 10
    BY <1>2 DEF SavedRegs, CalleeSaved, tmp, FrameReg, LinkReg, ResultReg, MapOf, regmap,
      riscv64_regmap, R0
  <2>2. \A r \in Regs : regmap[machine][r] \in SavedRegs[machine]
                        \/ regmap[machine][r] \notin {8, 9} \cup 18 .. 27
    <3>1. \A r \in Regs : regmap[machine][r] = IF r <= 5 THEN r + 10 ELSE r + 12
      BY <1>2 DEF regmap, riscv64_regmap, Regs, NUM_REGS
    <3> QED
      BY <2>1, <3>1 DEF Regs, NUM_REGS
  <2> QED
    BY <1>2, <2>1, <2>2 DEF MachineRegs
<1> QED
  BY <1>1, <1>2 DEF Targets

(* A register of the lowered program, read on the target.                  *)
LEMMA OnMachineFacts == \A r \in Regs : OnMachine(Phys(r)) = MapOf(r)
<1> TAKE r \in Regs
<1>1. RegMap[r] = Phys(r) /\ \A s \in Regs : RegMap[s] = Phys(r) => s = r
  BY RegMapAssumption DEF Phys
<1>2. (CHOOSE s \in Regs : RegMap[s] = Phys(r)) = r
  BY <1>1
<1> QED
  BY <1>2 DEF OnMachine, MapOf

(* The save area has one word for each saved register.                     *)
LEMMA SavedFacts ==
  ASSUME machine \in Targets, frameSize \in Nat, NEW b \in Int
  PROVE  /\ \A s, t \in Saved(b) : s[1] = t[1] \/ s[2] = t[2] => s = t
         /\ \A s \in Saved(b) : s[1] \in SavedRegs[machine]
         /\ \A m \in SavedRegs[machine] : \E s \in Saved(b) : s[1] = m
<1>1. CASE machine = "aarch64"
  <2>1. Saved(b) = {<<29, b>>, <<30, b + 8>>, <<19, b + 16>>, <<20, b + 24>>, <<21, b + 32>>,
                    <<22, b + 40>>, <<25, b + 48>>}
    BY <1>1 DEF Saved, SaveArea
  <2>2. SavedRegs[machine] = {19, 20, 21, 22, 25, 29, 30}
    BY <1>1 DEF SavedRegs
  <2>3. \A s \in Saved(b) : \E k \in {0, 8, 16, 24, 32, 40, 48} : s[2] = b + k
    BY <2>1
  <2> QED
    BY <2>1, <2>2
<1>2. CASE machine = "riscv64"
  <2> DEFINE A == {<<1, frameSize - 8>>, <<8, frameSize - 16>>}
                  \cup {<<s, frameSize - 8 * (s - 15)>> : s \in 18 .. 22}
  <2>1. Saved(b) = {<<s[1], b + s[2]>> : s \in A}
    BY <1>2 DEF Saved, SaveArea
  <2> DEFINE S      == {1, 8} \cup 18 .. 22
             off(m) == IF m = 1 THEN frameSize - 8 ELSE IF m = 8 THEN frameSize - 16
                       ELSE frameSize - 8 * (m - 15)
  <2>2. \A m, n \in S : b + off(m) = b + off(n) => m = n
    OBVIOUS
  <2>3. A = {<<m, off(m)>> : m \in S}
    <3>1. \A m \in 18 .. 22 : off(m) = frameSize - 8 * (m - 15)
      OBVIOUS
    <3>2. off(1) = frameSize - 8 /\ off(8) = frameSize - 16
      OBVIOUS
    <3> HIDE DEF off
    <3>3. {<<m, off(m)>> : m \in S} = {<<1, off(1)>>, <<8, off(8)>>} \cup {<<m, off(m)>> : m \in 18 .. 22}
      OBVIOUS
    <3>4. {<<s, frameSize - 8 * (s - 15)>> : s \in 18 .. 22} = {<<m, off(m)>> : m \in 18 .. 22}
      BY <3>1
    <3> QED
      BY <3>2, <3>3, <3>4
  <2>4. SavedRegs[machine] = S
    BY <1>2 DEF SavedRegs
  <2> HIDE DEF A, off, S
  <2>5. \A s \in Saved(b) : s[1] \in S /\ s = <<s[1], b + off(s[1])>> /\ s[2] = b + off(s[1])
    <3> TAKE s \in Saved(b)
    <3>1. PICK a \in A : s = <<a[1], b + a[2]>>
      BY <2>1
    <3>2. PICK m \in S : a = <<m, off(m)>>
      BY <2>3
    <3> QED
      BY <3>1, <3>2
  <2>6. \A m \in S : <<m, b + off(m)>> \in Saved(b)
    <3> TAKE m \in S
    <3> DEFINE a == <<m, off(m)>>
    <3>1. a \in A /\ a[1] = m /\ a[2] = off(m)
      BY <2>3
    <3> HIDE DEF a
    <3>2. <<a[1], b + a[2]>> \in Saved(b)
      BY <2>1, <3>1
    <3> QED
      BY <3>1, <3>2
  <2> QED
    BY <2>2, <2>4, <2>5, <2>6
<1> QED
  BY <1>1, <1>2 DEF Targets

----------------------------------------------------------------------------
(* Frames along the control flow.                                          *)

(* A program without a frame saves nothing and calls nothing; a frame is a *)
(* multiple of 16 bytes, from 64 to 512.                                   *)
LEMMA FrameFacts ==
  ASSUME LoweringInv, stage = "lowered"
  PROVE  /\ frameSize \in Nat /\ frameSize % 16 = 0 /\ frameSize <= 512
         /\ frameSize = 0 => \A p \in Pcs(prog) : ~ NeedsFrame(At(prog, p))
<1>1. frameSize = FrameSize /\ VerifierInv /\ TailCallFree(prog) /\ result.verdict = "Ok"
  BY DEF LoweringInv, FrameSizeInv, LowerInv, StageInv
<1>2. STACK_SIZE \in Nat /\ STACK_SIZE <= 512
  BY FrameAssumption, PairOffsetAssumption, SMTT(20) DEF U16
<1>3. Aligned(STACK_SIZE) <= 512
  BY <1>2 DEF Aligned
<1>4. frameSize \in Nat /\ frameSize % 16 = 0 /\ frameSize <= Aligned(STACK_SIZE)
      /\ \A p \in Pcs(prog) : NeedsFrame(At(prog, p)) => frameSize >= 64
  BY <1>1, FrameSizeFacts
<1>5. Aligned(STACK_SIZE) \in Nat
  BY <1>2 DEF Aligned
<1> QED
  BY <1>3, <1>4, <1>5

(* From one instruction to the next the program stays in its frame, except *)
(* by a branch to its first instruction.                                   *)
LEMMA FrameFlow ==
  ASSUME IrInv, Straight \/ BranchNotTaken \/ BranchTaken, irs' = "running"
  PROVE  /\ frameSize = 0 => ~ InFrame /\ ~ InFrame'
         /\ frameSize # 0 => InFrame /\ (InFrame' \/ (Here'.op = "prologue" /\ ~ EntryIsNotATarget))
<1> USE DEF IrInv
<1>1. /\ irs = "running" /\ stage = "lowered" /\ UNCHANGED <<vvars, lvars>> /\ frameSize' = frameSize
      /\ Here.op \notin {"prologue", "epilogue", "ret"}
      /\ frameSize \in Nat /\ TypeOK /\ LeadersRight
  BY LoweredFacts DEF Straight, BranchNotTaken, BranchTaken, ActiveInv, lvars,
    LoweringInv, LowerInv, LoweringTypeOK, VerifierInv, StructInv
<1>2. ASSUME frameSize > 0, NEW x, Here' = x, x = NewNodes(x.pc)[1], x.pc \in Pcs(prog), x.pc # 0
      PROVE  InFrame'
  <2>1. x.op \notin {"prologue", "ret"}
    BY <1>1, <1>2, FirstNodeFacts
  <2> QED
    BY <1>1, <1>2, <2>1 DEF InFrame
<1>a. frameSize > 0 => InFrame /\ frameSize # 0
  BY <1>1 DEF InFrame
<1>3. CASE frameSize = 0
  BY <1>1, <1>3 DEF InFrame
<1>4. CASE frameSize > 0 /\ (Straight \/ BranchNotTaken)
  <2>1. ActiveInv' /\ Linked(Here, Here') /\ FromInsn(Here')
    BY <1>1, <1>4, FollowingFacts DEF Straight, BranchNotTaken
  <2>2. Here'.pc = Here.pc + 1 /\ Here.pc \in Nat /\ Here' = NewNodes(Here'.pc)[1] /\ Here'.pc \in Pcs(prog)
    BY <1>1, <2>1, HereFacts DEF Linked, Completes, FromInsn
  <2>3. Here'.pc # 0
    BY <2>2
  <2>4. PICK x : Here' = x
    OBVIOUS
  <2>5. InFrame'
    BY <1>2, <1>4, <2>2, <2>3, <2>4
  <2>6. frameSize # 0 /\ InFrame
    BY <1>a, <1>4
  <2> QED
    BY <2>5, <2>6
<1>5. CASE frameSize > 0 /\ BranchTaken
  <2>1. /\ ActiveInv' /\ idx' = 1
        /\ Here'.pc = Target(prog, Here.pc) /\ Target(prog, Here.pc) \in Pcs(prog)
    BY <1>1, <1>5, BranchFacts DEF BranchTaken
  <2>2. Here' = NewNodes(Here'.pc)[1]
    <3>1. blk' \in DOMAIN blocks /\ Here' = blocks[blk'].nodes[1]
      BY <1>1, <2>1 DEF ActiveInv, Here, NodeAt, lvars
    <3> QED
      BY <1>1, <3>1, BlockStarts
  <2>3. CASE Here'.pc # 0
    <3>1. PICK x : Here' = x
      OBVIOUS
    <3>2. InFrame'
      BY <1>2, <1>5, <2>1, <2>2, <2>3, <3>1
    <3>3. frameSize # 0 /\ InFrame
      BY <1>a, <1>5
    <3> QED
      BY <3>2, <3>3
  <2>4. CASE Here'.pc = 0
    <3>1. Here'.op = "prologue"
      <4>1. Bare("prologue", 0).op = "prologue"
        BY DEF Bare, Node
      <4>2. NewNodes(0)[1] = Bare("prologue", 0)
        BY <1>1, <1>5, <2>1, <2>4, FirstNodeFacts
      <4> QED
        BY <2>2, <2>4, <4>1, <4>2
    <3>2. IsBranch(At(prog, Here.pc)) /\ Here.pc \in Pcs(prog)
      BY <1>1, <1>5, HereFacts DEF BranchTaken, LoweringInv, LowerInv, TargetsInv, TargetsBlock,
        ActiveInv, Here, NodeAt
    <3>3. ~ EntryIsNotATarget
      BY <2>1, <2>4, <3>2 DEF EntryIsNotATarget
    <3> QED
      BY <1>a, <1>5, <3>1, <3>3
  <2> QED
    BY <2>3, <2>4
<1> QED
  BY <1>1, <1>3, <1>4, <1>5

(* The program starts outside its frame, with the prologue if it has one.  *)
LEMMA FrameEntry ==
  ASSUME IrInv, StartIr
  PROVE  /\ irs' = "running" /\ ~ InFrame' /\ frameSize' = frameSize
         /\ frameSize > 0 => Here'.op = "prologue"
<1>1. /\ irs' = "running" /\ Here' = NewNodes(0)[1] /\ UNCHANGED <<vvars, lvars>>
      /\ stage = "lowered" /\ frameSize' = frameSize
  BY EntryFacts DEF StartIr, IrInv, lvars
<1>2. frameSize \in Nat /\ TypeOK /\ LeadersRight /\ 0 \in Pcs(prog)
  BY <1>1, LoweredFacts DEF IrInv, LoweringInv, LowerInv, LoweringTypeOK, VerifierInv, StructInv
<1>3. frameSize > 0 => Here'.op = "prologue"
  <2>1. Bare("prologue", 0).op = "prologue"
    BY DEF Bare, Node
  <2>2. frameSize > 0 => NewNodes(0)[1] = Bare("prologue", 0)
    BY <1>2, FirstNodeFacts
  <2> QED
    BY <1>1, <2>1, <2>2
<1> QED
  BY <1>1, <1>3 DEF InFrame

(* The prologue enters the frame, the epilogue leaves it for the return.   *)
LEMMA FrameSwitch ==
  ASSUME IrInv, PushFrame \/ PopFrame
  PROVE  /\ irs' = "running" /\ frameSize > 0 /\ frameSize' = frameSize
         /\ PushFrame => ~ InFrame /\ InFrame' /\ Here.op = "prologue"
         /\ PopFrame => InFrame /\ ~ InFrame' /\ Here'.op = "ret"
<1>1. /\ irs = "running" /\ GoTo(Following[1], Following[2]) /\ UNCHANGED <<vvars, lvars>>
      /\ frameSize' = frameSize
      /\ Here.op = IF PushFrame THEN "prologue" ELSE "epilogue"
      /\ PushFrame => Here.op = "prologue"
      /\ PopFrame => Here.op = "epilogue"
  BY DEF PushFrame, PopFrame, lvars
<1>2. irs' = "running" /\ Linked(Here, Here') /\ stage = "lowered" /\ frameSize > 0
  BY <1>1, FollowingFacts, NodeKinds DEF Completes, ActiveInv, IrInv
<1>3. CASE Here.op = "prologue"
  <2>1. Here' = Lowered(0)[1] /\ 0 \in Pcs(prog)
    BY <1>1, <1>2, <1>3, NodeKinds, HereFacts DEF Linked, IrInv
  <2>2. frameSize \in Nat /\ TypeOK /\ LeadersRight
    BY <1>2, LoweredFacts DEF IrInv, LoweringInv, LowerInv, LoweringTypeOK, VerifierInv, StructInv
  <2>3. Here'.op \notin {"prologue", "ret"}
    BY <1>2, <2>1, <2>2, FirstNodeFacts
  <2> QED
    BY <1>1, <1>2, <1>3, <2>3 DEF InFrame
<1>4. CASE Here.op = "epilogue"
  <2>1. Here'.op = "ret"
    BY <1>2, <1>4 DEF Linked, Bare, Node
  <2> QED
    BY <1>1, <1>2, <1>4, <2>1 DEF InFrame
<1> QED
  BY <1>1, <1>3, <1>4

----------------------------------------------------------------------------
(* The steps.                                                              *)

(* Where the registers are saved depends on the target, the frame size     *)
(* and the stack pointer.                                                  *)
LEMMA SavedStays ==
  ASSUME UNCHANGED <<machine, frameSize>>, NEW b, sp' = b
  PROVE  Saved(sp)' = Saved(b)
BY DEF Saved, SaveArea

(* A step of the body: it stays in the frame and leaves the registers that *)
(* outlive a call as they are, or to the program.                          *)
LEMMA BodyStep ==
  ASSUME IrInv, MachineStateInv, Straight \/ BranchNotTaken \/ BranchTaken,
         UNCHANGED <<machine, sp, slots>>, DOMAIN mreg' = DOMAIN mreg,
         \A r \in PROTECTED : mreg'[MapOf(r)] \in {mreg[MapOf(r)], Program},
         frameSize = 0 => \A m \in SavedRegs[machine] : mreg'[m] = mreg[m],
         irs' = "running" => \A r \in Regs : Phys(r) \in defined' =>
           \/ mreg'[MapOf(r)] \in {Program} \cup OtherValues(r)
           \/ Phys(r) \in defined /\ mreg'[MapOf(r)] = mreg[MapOf(r)]
  PROVE  MachineStateInv'
<1> USE DEF MachineStateInv
<1>1. /\ irs = "running" /\ irs' \in {"running", "left"} /\ UNCHANGED <<vvars, lvars>>
      /\ Here.op \notin {"prologue", "epilogue", "ret"}
  BY DEF Straight, BranchNotTaken, BranchTaken, GoTo
<1>2. /\ frameSize' = frameSize /\ EntryIsNotATarget' = EntryIsNotATarget
      /\ \A r : MapOf(r)' = MapOf(r)
      /\ EpilogueWraps' = EpilogueWraps /\ \A r : OtherValues(r)' = OtherValues(r)
      /\ SavedRegs[machine]' = SavedRegs[machine]
  BY <1>1 DEF lvars, vvars, EntryIsNotATarget, MapOf, EpilogueWraps, OtherValues
<1>3. Saved(sp)' = Saved(sp)
  BY <1>2 DEF Saved, SaveArea
<1>4. irs' = "running" =>
        /\ InFrame' => InFrame
        /\ EntryIsNotATarget => (InFrame' <=> InFrame)
        /\ ~ InFrame /\ ~ InFrame' => frameSize = 0
        /\ ~ InFrame => frameSize = 0
        /\ InFrame => frameSize # 0
  <2>1. frameSize \in Nat
    BY DEF IrInv, LoweringInv, LowerInv, LoweringTypeOK
  <2>2. frameSize = 0 => ~ InFrame
    BY DEF InFrame
  <2> QED
    BY FrameFlow, <2>1, <2>2
<1>5. MachineInv'
  BY DEF MachineInv, MachineRegs
<1>6. ProtectedInv'
  <2> SUFFICES ASSUME irs' = "running" PROVE ProtectedInv'
    BY DEF ProtectedInv
  <2>1. \A r \in PROTECTED : mreg'[MapOf(r)] \in OwnOrCaller(MapOf(r))
    BY <1>1 DEF ProtectedInv, OwnOrCaller
  <2>2. InFrame' => InFrame
    BY <1>4
  <2> QED
    BY <1>1, <1>2, <1>3, <2>1, <2>2 DEF ProtectedInv
<1>7. ValuesSurviveCalls'
  <2> SUFFICES ASSUME irs' = "running", NEW r \in Regs, Phys(r) \in defined'
               PROVE  mreg'[MapOf(r)] \in {Program, Caller(MapOf(r))} \cup OtherValues(r)
    BY <1>1, <1>2 DEF ValuesSurviveCalls, MapOf, Phys
  <2>1. Phys(r) \in defined => mreg[MapOf(r)] \in {Program, Caller(MapOf(r))} \cup OtherValues(r)
    BY <1>1 DEF ValuesSurviveCalls, MapOf
  <2> QED
    BY <2>1
<1>9. OwnedInv'
  <2> SUFFICES ASSUME irs' = "running", NEW r \in Regs \ EntryRegs, Phys(r) \in defined'
               PROVE  mreg'[MapOf(r)] \in {Program} \cup OtherValues(r)
    BY <1>2 DEF OwnedInv, Phys
  <2>1. Phys(r) \in defined => mreg[MapOf(r)] \in {Program} \cup OtherValues(r)
    BY <1>1 DEF OwnedInv
  <2> QED
    BY <2>1
<1>8. RestoreInv'
  <2> SUFFICES ASSUME irs' = "running", EntryIsNotATarget PROVE RestoreInv'
    BY <1>1, <1>2 DEF RestoreInv
  <2>1. CASE InFrame /\ InFrame'
    BY <1>1, <1>2, <1>3, <2>1 DEF RestoreInv
  <2>2. CASE ~ InFrame /\ ~ InFrame'
    <3>1. frameSize = 0 /\ ~ EpilogueWraps /\ ~ EpilogueWraps'
      BY <1>2, <1>4, <2>2 DEF EpilogueWraps
    <3> QED
      BY <1>1, <1>2, <2>2, <3>1 DEF RestoreInv
  <2> QED
    BY <1>4, <2>1, <2>2
<1> QED
  BY <1>5, <1>6, <1>7, <1>8, <1>9

(* The register an instruction writes: in a program without a frame none   *)
(* that has to be saved.                                                   *)
LEMMA WrittenFacts ==
  ASSUME IrInv, irs = "running", Here.op \notin {"prologue", "epilogue", "ret"}
  PROVE  /\ IrDefines(Here) \subseteq {Phys(r) : r \in Regs}
         /\ frameSize = 0 => /\ Here.op # "call"
                             /\ IrDefines(Here) \subseteq {Phys(r) : r \in Regs \ PROTECTED}
<1> DEFINE p == Here.pc
           i == At(prog, p)
<1>1. /\ i \in Insn /\ i.kind \notin {"exit", "tailcall"} /\ p \in Pcs(prog)
      /\ Here = Translated(i, p) /\ stage = "lowered" /\ VerifierInv /\ result.verdict = "Ok"
  BY HereFacts, NodeKinds, LoweredFacts DEF IrInv, LoweringInv
<1>2. ~ WritesFramePointer(i)
  BY <1>1, AcceptedAllChecked, LoweredFacts DEF Passes, IrInv, LeadersRight
<1>3. frameSize = 0 => ~ NeedsFrame(i)
  BY <1>1, FrameFacts DEF IrInv
<1> HIDE DEF p, i
<1>4. Here.op = IrOp(i.kind) /\ Here.dst = Phys(i.dst) /\ i.kind \in Kinds /\ i.dst \in Regs
  BY <1>1 DEF Translated, Node, Insn
<1>5. /\ Here.op = "call" => i.kind = "call"
      /\ Here.op \in {"mov", "alu", "load", "ldimm", "endian"} => WritesDst(i)
  BY <1>4 DEF IrOp, Kinds, WritesDst
<1>6. R0 \in Regs \ PROTECTED
  BY DEF Regs, NUM_REGS, PROTECTED, R0
<1>7. CASE Here.op \in {"mov", "alu", "load", "ldimm", "endian"}
  <2>1. i.dst # R10 /\ IrDefines(Here) = {Phys(i.dst)} /\ Here.op # "call"
    BY <1>2, <1>4, <1>5, <1>7 DEF WritesFramePointer, IrDefines
  <2>2. frameSize = 0 => i.dst \notin PROTECTED
    BY <1>3, <1>5, <1>7, <2>1 DEF NeedsFrame, CALLEE_SAVED, PROTECTED, R10
  <2> QED
    BY <1>4, <2>1, <2>2
<1>8. CASE Here.op = "call"
  <2>1. frameSize # 0 /\ IrDefines(Here) = {Phys(R0)}
    BY <1>3, <1>5, <1>8 DEF NeedsFrame, IrDefines
  <2> QED
    BY <1>6, <2>1
<1>9. CASE Here.op \notin {"mov", "alu", "load", "ldimm", "endian", "call"}
  BY <1>9 DEF IrDefines
<1> QED
  BY <1>7, <1>8, <1>9

(* What an instruction with a result does to the registers.                *)
LEMMA ComputeFacts ==
  ASSUME MachineInv, IrInv, Compute
  PROVE  /\ DOMAIN mreg' = DOMAIN mreg
         /\ \A m \in DOMAIN mreg : m # tmp[machine] =>
              mreg'[m] = IF \E d \in IrDefines(Here) : OnMachine(d) = m THEN Program
                         ELSE IF SwapsX0(Here) /\ m = ResultReg[machine] THEN Memory ELSE mreg[m]
<1> DEFINE base == [r \in DOMAIN mreg |->
              IF \E d \in IrDefines(Here) : OnMachine(d) = r THEN Program
              ELSE IF SwapsX0(Here) /\ r = ResultReg[machine] THEN Memory ELSE mreg[r]]
<1>1. mreg' = base \/ mreg' = [base EXCEPT ![tmp[machine]] = Program]
  BY DEF Compute, ScratchWritten
<1>2. /\ DOMAIN base = DOMAIN mreg
      /\ \A m \in DOMAIN mreg :
           base[m] = IF \E d \in IrDefines(Here) : OnMachine(d) = m THEN Program
                     ELSE IF SwapsX0(Here) /\ m = ResultReg[machine] THEN Memory ELSE mreg[m]
  OBVIOUS
<1> HIDE DEF base
<1> QED
  BY <1>1, <1>2

(* Each step of a program keeps the machine in order: a computation,       *)
LEMMA ComputeStep == IrInv /\ MachineStateInv /\ Compute => MachineStateInv'
<1> SUFFICES ASSUME IrInv, MachineStateInv, Compute PROVE MachineStateInv'
  OBVIOUS
<1>1. /\ machine \in Targets /\ DOMAIN mreg = MachineRegs(machine) /\ MachineInv
      /\ Straight /\ irs = "running" /\ Here.op \notin {"prologue", "epilogue", "ret", "call"}
      /\ UNCHANGED <<machine, sp, slots>>
  BY DEF MachineStateInv, MachineInv, Compute, Straight
<1>2. /\ DOMAIN mreg' = DOMAIN mreg
      /\ \A m \in DOMAIN mreg : m # tmp[machine] =>
           mreg'[m] = IF \E d \in IrDefines(Here) : OnMachine(d) = m THEN Program
                      ELSE IF SwapsX0(Here) /\ m = ResultReg[machine] THEN Memory ELSE mreg[m]
  BY <1>1, ComputeFacts
<1>3. \A r \in Regs : /\ MapOf(r) \in DOMAIN mreg /\ MapOf(r) # tmp[machine]
                      /\ mreg'[MapOf(r)] =
                           IF Phys(r) \in IrDefines(Here) THEN Program
                           ELSE IF SwapsX0(Here) /\ MapOf(r) = ResultReg[machine] THEN Memory
                           ELSE mreg[MapOf(r)]
  <2> TAKE r \in Regs
  <2>1. MapOf(r) \in DOMAIN mreg /\ MapOf(r) # tmp[machine]
    BY <1>1, MapFacts
  <2>2. (\E d \in IrDefines(Here) : OnMachine(d) = MapOf(r)) <=> Phys(r) \in IrDefines(Here)
    <3>1. \A d \in IrDefines(Here) : \E s \in Regs : d = Phys(s) /\ OnMachine(d) = MapOf(s)
      BY <1>1, WrittenFacts, OnMachineFacts
    <3>2. OnMachine(Phys(r)) = MapOf(r) /\ \A s \in Regs : MapOf(s) = MapOf(r) => s = r
      BY <1>1, OnMachineFacts, MapFacts
    <3> QED
      BY <3>1, <3>2
  <2> QED
    BY <1>2, <2>1, <2>2
<1>4. \A r \in PROTECTED : mreg'[MapOf(r)] \in {mreg[MapOf(r)], Program}
  <2>1. \A r \in PROTECTED : r \in Regs /\ MapOf(r) # ResultReg[machine]
    BY <1>1, MapFacts, ConventionFacts
  <2> QED
    BY <1>3, <2>1
<1>5. \A r \in Regs : SwapsX0(Here) /\ MapOf(r) = ResultReg[machine] => Memory \in OtherValues(r)
  <2>1. SwapsX0(Here) => machine = "aarch64"
    BY DEF SwapsX0
  <2>2. \A r \in Regs : machine = "aarch64" /\ MapOf(r) = ResultReg[machine] => r = R1 /\ r # R0
    BY <1>1, MapFacts, ConventionFacts
  <2> QED
    BY <2>1, <2>2 DEF OtherValues
<1>6. frameSize = 0 => \A m \in SavedRegs[machine] : mreg'[m] = mreg[m]
  <2> SUFFICES ASSUME frameSize = 0, NEW m \in SavedRegs[machine] PROVE mreg'[m] = mreg[m]
    OBVIOUS
  <2>1. m \in DOMAIN mreg /\ m # tmp[machine] /\ m # ResultReg[machine]
    BY <1>1, ConventionFacts
  <2>2. \A d \in IrDefines(Here) : OnMachine(d) # m
    <3>1. IrDefines(Here) \subseteq {Phys(r) : r \in Regs \ PROTECTED}
      BY <1>1, WrittenFacts
    <3>2. \A r \in Regs \ PROTECTED : OnMachine(Phys(r)) # m
      BY <1>1, OnMachineFacts, MapFacts
    <3> QED
      BY <3>1, <3>2
  <2> QED
    BY <1>2, <2>1, <2>2
<1>7. irs' = "running" => \A r \in Regs : Phys(r) \in defined' =>
        \/ mreg'[MapOf(r)] \in {Program} \cup OtherValues(r)
        \/ Phys(r) \in defined /\ mreg'[MapOf(r)] = mreg[MapOf(r)]
  <2> SUFFICES ASSUME irs' = "running", NEW r \in Regs, Phys(r) \in defined',
                      mreg'[MapOf(r)] \notin {Program} \cup OtherValues(r)
               PROVE  Phys(r) \in defined /\ mreg'[MapOf(r)] = mreg[MapOf(r)]
    OBVIOUS
  <2>1. Phys(r) \in defined \/ Phys(r) \in IrDefines(Here)
    BY <1>1 DEF Straight
  <2> QED
    BY <1>3, <1>5, <2>1
<1> QED
  BY <1>1, <1>2, <1>4, <1>6, <1>7, BodyStep

(* a branch,                                                               *)
LEMMA DecideStep == IrInv /\ MachineStateInv /\ Decide => MachineStateInv'
<1> SUFFICES ASSUME IrInv, MachineStateInv, Decide PROVE MachineStateInv'
  OBVIOUS
<1>1. /\ machine \in Targets /\ DOMAIN mreg = MachineRegs(machine)
      /\ BranchNotTaken \/ BranchTaken
      /\ UNCHANGED <<machine, sp, slots>>
  BY DEF MachineStateInv, MachineInv, Decide
<1>2. mreg' = mreg \/ mreg' = [mreg EXCEPT ![tmp[machine]] = Program]
  BY DEF Decide, ScratchWritten
<1>3. DOMAIN mreg' = DOMAIN mreg /\ \A m \in DOMAIN mreg : m # tmp[machine] => mreg'[m] = mreg[m]
  BY <1>2
<1>4. \A r \in Regs : mreg'[MapOf(r)] = mreg[MapOf(r)]
  BY <1>1, <1>3, MapFacts
<1>5. \A r \in PROTECTED : mreg'[MapOf(r)] \in {mreg[MapOf(r)], Program}
  BY <1>1, <1>4, MapFacts
<1>6. \A m \in SavedRegs[machine] : mreg'[m] = mreg[m]
  BY <1>1, <1>3, ConventionFacts
<1>7. defined' = defined
  BY <1>1 DEF BranchNotTaken, BranchTaken
<1> QED
  BY <1>1, <1>3, <1>4, <1>5, <1>6, <1>7, BodyStep

(* A helper keeps the registers of R6 to R10; R0's holds its result on     *)
(* RISC-V only; R1 to R5 are no longer defined.                            *)
LEMMA CallStep == IrInv /\ MachineStateInv /\ CallHelper => MachineStateInv'
<1> SUFFICES ASSUME IrInv, MachineStateInv, CallHelper PROVE MachineStateInv'
  OBVIOUS
<1>1. /\ machine \in Targets /\ DOMAIN mreg = MachineRegs(machine)
      /\ Straight /\ irs = "running" /\ Here.op = "call"
      /\ UNCHANGED <<machine, sp, slots>>
  BY DEF MachineStateInv, MachineInv, CallHelper, Straight
<1>2. /\ DOMAIN mreg' = DOMAIN mreg
      /\ \A m \in DOMAIN mreg : mreg'[m] =
           IF m \in CalleeSaved[machine] THEN mreg[m]
           ELSE IF m = ResultReg[machine] THEN Helper ELSE Lost
  BY DEF CallHelper
<1>3. \A r \in PROTECTED : mreg'[MapOf(r)] = mreg[MapOf(r)]
  <2>1. \A r \in PROTECTED : MapOf(r) \in DOMAIN mreg /\ MapOf(r) \in CalleeSaved[machine]
    BY <1>1, MapFacts
  <2> QED
    BY <1>2, <2>1
<1>4. \A r \in PROTECTED : mreg'[MapOf(r)] \in {mreg[MapOf(r)], Program}
  BY <1>3
<1>6. frameSize # 0
  BY <1>1, WrittenFacts
<1>7. mreg'[MapOf(R0)] \in OtherValues(R0)
  <2>1. MapOf(R0) \in DOMAIN mreg /\ MapOf(R0) \notin CalleeSaved[machine]
        /\ (machine = "aarch64" <=> MapOf(R0) # ResultReg[machine])
    BY <1>1, MapFacts, ConventionFacts
  <2> QED
    BY <1>2, <2>1 DEF OtherValues
<1>8. irs' = "running" => \A r \in Regs : Phys(r) \in defined' =>
        r = R0 \/ (r \in PROTECTED /\ Phys(r) \in defined)
  <2> SUFFICES ASSUME irs' = "running", NEW r \in Regs, Phys(r) \in defined', r # R0
               PROVE  r \in PROTECTED /\ Phys(r) \in defined
    OBVIOUS
  <2>1. Phys(r) \in {Phys(R0)} \/ (Phys(r) \in defined /\ Phys(r) \notin {Phys(s) : s \in ArgRegs})
    BY <1>1 DEF Straight, IrDefines, IrClobbers
  <2>2. r \in ArgRegs \/ r \in PROTECTED
    BY DEF ArgRegs, Regs, NUM_REGS, PROTECTED, R0
  <2> QED
    BY <2>1, <2>2, PhysFacts
<1>9. irs' = "running" => \A r \in Regs : Phys(r) \in defined' =>
        \/ mreg'[MapOf(r)] \in {Program} \cup OtherValues(r)
        \/ Phys(r) \in defined /\ mreg'[MapOf(r)] = mreg[MapOf(r)]
  BY <1>3, <1>7, <1>8
<1> QED
  BY <1>1, <1>2, <1>4, <1>6, <1>9, BodyStep

(* The offset of a pair holds the frame going down, and all but the        *)
(* largest going up.                                                       *)
LEMMA PairOffsets ==
  ASSUME NEW f \in Nat, f % 16 = 0, f <= 512
  PROVE  Imm7(-f) = -f /\ Imm7(f) = IF f = 512 THEN -512 ELSE f
<1>1. PICK k \in 0 .. 32 : f = 16 * k
  BY Z3
<1>2. (-f) \div 8 = -(2 * k) /\ f \div 8 = 2 * k
  BY <1>1
<1>3. \A j \in 0 .. 64 : (-j) % 128 = (IF j = 0 THEN 0 ELSE 128 - j) /\ j % 128 = j
  OBVIOUS
<1>4. (-(2 * k)) % 128 = (IF k = 0 THEN 0 ELSE 128 - 2 * k) /\ (2 * k) % 128 = 2 * k
  <2>1. 2 * k \in 0 .. 64
    OBVIOUS
  <2> QED
    BY <1>3, <2>1
<1>5. Imm7(-f) = 8 * (IF k = 0 THEN 0 ELSE -(2 * k))
  BY <1>2, <1>4 DEF Imm7
<1>6. Imm7(f) = 8 * (IF k = 32 THEN -64 ELSE 2 * k)
  BY <1>2, <1>4 DEF Imm7
<1> QED
  BY <1>1, <1>5, <1>6

(* The prologue stores the saved registers and moves the C frame pointer.  *)
LEMMA PrologueFacts ==
  ASSUME MachineInv, frameSize \in Nat, frameSize % 16 = 0, frameSize <= 512, Prologue
  PROVE  /\ DOMAIN mreg' = DOMAIN mreg
         /\ \A m \in DOMAIN mreg : m # FrameReg[machine] => mreg'[m] = mreg[m]
         /\ Pushed = sp - frameSize /\ Pushed \in Int
         /\ \A s \in Saved(Pushed) : s[2] \in DOMAIN slots' /\ slots'[s[2]] = mreg[s[1]]
<1>1. Pushed = sp - frameSize /\ Pushed \in Int
  <2>1. Imm7(-frameSize) = -frameSize
    BY PairOffsets
  <2> QED
    BY <2>1 DEF Pushed, MachineInv
<1>2. \A s, t \in Saved(Pushed) : s[2] = t[2] => s = t
  BY <1>1, SavedFacts DEF MachineInv
<1>3. ASSUME NEW s \in Saved(Pushed)
      PROVE  s[2] \in DOMAIN slots' /\ slots'[s[2]] = mreg[s[1]]
  <2> DEFINE A == {t[2] : t \in Saved(Pushed)} \cup DOMAIN slots
             V(a) == IF \E t \in Saved(Pushed) : t[2] = a
                     THEN mreg[(CHOOSE t \in Saved(Pushed) : t[2] = a)[1]]
                     ELSE slots[a]
  <2>1. slots' = [a \in A |-> V(a)]
    BY DEF Prologue
  <2>2. s[2] \in A
    OBVIOUS
  <2>3. (CHOOSE t \in Saved(Pushed) : t[2] = s[2]) = s
    BY <1>2
  <2>4. V(s[2]) = mreg[s[1]]
    BY <2>3
  <2> HIDE DEF A, V
  <2> QED
    BY <2>1, <2>2, <2>4
<1>4. /\ DOMAIN mreg' = DOMAIN mreg
      /\ \A m \in DOMAIN mreg : m # FrameReg[machine] => mreg'[m] = mreg[m]
  BY DEF Prologue
<1> QED
  BY <1>1, <1>3, <1>4

(* The epilogue loads the saved registers.                                 *)
LEMMA EpilogueFacts ==
  ASSUME MachineInv, frameSize \in Nat, frameSize % 16 = 0, frameSize <= 512, Epilogue
  PROVE  /\ DOMAIN mreg' = DOMAIN mreg
         /\ \A m \in DOMAIN mreg \ SavedRegs[machine] : mreg'[m] = mreg[m]
         /\ \A s \in Saved(sp) : s[2] \in DOMAIN slots => mreg'[s[1]] = slots[s[2]]
         /\ sp' = IF EpilogueWraps THEN sp - 512 ELSE sp + frameSize
<1>1. /\ machine \in Targets /\ sp \in Int /\ DOMAIN mreg = MachineRegs(machine)
      /\ \A s \in Saved(sp) : s[1] \in SavedRegs[machine] /\ s[1] \in DOMAIN mreg
      /\ \A s, t \in Saved(sp) : s[1] = t[1] => s = t
  BY SavedFacts, ConventionFacts DEF MachineInv
<1> DEFINE V(r) == IF \E s \in Saved(sp) : s[1] = r
                   THEN LET a == (CHOOSE s \in Saved(sp) : s[1] = r)[2]
                        IN  IF a \in DOMAIN slots THEN slots[a] ELSE Lost
                   ELSE mreg[r]
<1>2. mreg' = [r \in DOMAIN mreg |-> V(r)]
  BY DEF Epilogue
<1>3. \A m \in DOMAIN mreg \ SavedRegs[machine] : V(m) = mreg[m]
  BY <1>1
<1>4. \A s \in Saved(sp) : s[2] \in DOMAIN slots => V(s[1]) = slots[s[2]]
  <2> TAKE s \in Saved(sp)
  <2>1. (CHOOSE t \in Saved(sp) : t[1] = s[1]) = s
    BY <1>1
  <2> QED
    BY <2>1
<1> HIDE DEF V
<1>5. sp' = IF EpilogueWraps THEN sp - 512 ELSE sp + frameSize
  <2>1. Imm7(frameSize) = IF frameSize = 512 THEN -512 ELSE frameSize
    BY PairOffsets
  <2> QED
    BY <1>1, <2>1 DEF Epilogue, Popped, EpilogueWraps
<1> QED
  BY <1>1, <1>2, <1>3, <1>4, <1>5

(* the prologue, which saves what the caller left,                         *)
LEMMA PrologueStep == IrInv /\ MachineStateInv /\ Prologue => MachineStateInv'
<1> SUFFICES ASSUME IrInv, MachineStateInv, Prologue PROVE MachineStateInv'
  OBVIOUS
<1> USE DEF MachineStateInv
<1>1. /\ machine \in Targets /\ DOMAIN mreg = MachineRegs(machine) /\ sp \in Int
      /\ PushFrame /\ irs = "running" /\ UNCHANGED <<vvars, lvars, defined, machine>>
      /\ stage = "lowered"
  BY DEF MachineInv, Prologue, PushFrame, IrInv, ActiveInv
<1>2. /\ irs' = "running" /\ frameSize > 0 /\ frameSize' = frameSize
      /\ ~ InFrame /\ InFrame' /\ Here.op = "prologue"
  BY <1>1, FrameSwitch
<1>3. frameSize \in Nat /\ frameSize % 16 = 0 /\ frameSize <= 512
  BY <1>1, FrameFacts DEF IrInv
<1>4. PICK b : b = Pushed
  OBVIOUS
<1>5. /\ DOMAIN mreg' = DOMAIN mreg
      /\ \A m \in DOMAIN mreg : m # FrameReg[machine] => mreg'[m] = mreg[m]
      /\ b = sp - frameSize /\ b \in Int /\ sp' = b
      /\ \A s \in Saved(b) : s[2] \in DOMAIN slots' /\ slots'[s[2]] = mreg[s[1]]
  <2>1. sp' = Pushed
    BY DEF Prologue
  <2> QED
    BY <1>3, <1>4, <2>1, PrologueFacts
<1>6. Saved(sp)' = Saved(b) /\ \A s \in Saved(b) : s[1] \in SavedRegs[machine]
  BY <1>1, <1>2, <1>3, <1>5, SavedStays, SavedFacts
<1>7. /\ \A r : MapOf(r)' = MapOf(r)
      /\ \A r \in Regs : mreg'[MapOf(r)] = mreg[MapOf(r)]
      /\ PROTECTED \subseteq Regs
      /\ EntryIsNotATarget' = EntryIsNotATarget
  BY <1>1, <1>5, MapFacts DEF MapOf, EntryIsNotATarget, vvars
<1>8. MachineInv'
  BY <1>1, <1>5 DEF MachineInv, MachineRegs
<1>9. ProtectedInv'
  <2>1. \A r \in PROTECTED : mreg[MapOf(r)] \in OwnOrCaller(MapOf(r))
    BY <1>1 DEF ProtectedInv
  <2>2. \A r \in PROTECTED : mreg'[MapOf(r)] \in OwnOrCaller(MapOf(r))
    BY <1>7, <2>1
  <2>3. \A s \in Saved(b) :
          /\ s[2] \in DOMAIN slots'
          /\ \A r \in PROTECTED : s[1] = MapOf(r) => slots'[s[2]] \in OwnOrCaller(s[1])
    BY <1>5, <2>1
  <2> QED
    BY <1>6, <1>7, <2>2, <2>3 DEF ProtectedInv
<1>o. OwnedInv'
  <2>1. \A r \in Regs \ EntryRegs : Phys(r) \in defined' => mreg'[MapOf(r)] \in {Program} \cup OtherValues(r)
    BY <1>1, <1>2, <1>7 DEF OwnedInv
  <2>2. \A r : OtherValues(r)' = OtherValues(r)
    BY <1>1 DEF OtherValues
  <2> QED
    BY <1>1, <1>7, <2>1, <2>2 DEF OwnedInv, Phys
<1>10. ValuesSurviveCalls'
  <2>1. \A r \in Regs : Phys(r) \in defined =>
          mreg[MapOf(r)] \in {Program, Caller(MapOf(r))} \cup OtherValues(r)
    BY <1>1 DEF ValuesSurviveCalls, MapOf
  <2>2. \A r \in Regs : Phys(r) \in defined' =>
          mreg'[MapOf(r)] \in {Program, Caller(MapOf(r))} \cup OtherValues(r)
    BY <1>1, <1>7, <2>1
  <2>3. \A r : OtherValues(r)' = OtherValues(r)
    BY <1>1 DEF OtherValues
  <2> QED
    BY <1>1, <1>2, <2>2, <2>3 DEF ValuesSurviveCalls, MapOf
<1>11. RestoreInv'
  <2> SUFFICES ASSUME EntryIsNotATarget PROVE RestoreInv'
    BY <1>2, <1>7 DEF RestoreInv
  <2>1. (\A m \in SavedRegs[machine] : mreg[m] = Caller(m)) /\ sp = 0
    BY <1>1, <1>2 DEF RestoreInv
  <2>2. sp' = -frameSize'
    BY <1>2, <1>3, <1>5, <2>1
  <2>3. \A s \in Saved(b) : slots'[s[2]] = Caller(s[1])
    BY <1>5, <1>6, <2>1
  <2> QED
    BY <1>2, <1>6, <2>2, <2>3 DEF RestoreInv
<1> QED
  BY <1>8, <1>9, <1>o, <1>10, <1>11

(* and the epilogue, which takes it back.                                  *)
LEMMA EpilogueStep == IrInv /\ MachineStateInv /\ Epilogue => MachineStateInv'
<1> SUFFICES ASSUME IrInv, MachineStateInv, Epilogue PROVE MachineStateInv'
  OBVIOUS
<1> USE DEF MachineStateInv
<1>1. /\ machine \in Targets /\ DOMAIN mreg = MachineRegs(machine) /\ sp \in Int
      /\ PopFrame /\ irs = "running" /\ UNCHANGED <<vvars, lvars, defined, machine, slots>>
      /\ stage = "lowered"
  BY DEF MachineInv, Epilogue, PopFrame, IrInv, ActiveInv
<1>2. /\ irs' = "running" /\ frameSize > 0 /\ frameSize' = frameSize
      /\ InFrame /\ ~ InFrame' /\ Here'.op = "ret"
  BY <1>1, FrameSwitch
<1>3. frameSize \in Nat /\ frameSize % 16 = 0 /\ frameSize <= 512
  BY <1>1, FrameFacts DEF IrInv
<1>4. /\ DOMAIN mreg' = DOMAIN mreg
      /\ \A m \in DOMAIN mreg \ SavedRegs[machine] : mreg'[m] = mreg[m]
      /\ \A s \in Saved(sp) : s[2] \in DOMAIN slots => mreg'[s[1]] = slots[s[2]]
      /\ sp' = IF EpilogueWraps THEN sp - 512 ELSE sp + frameSize
  BY <1>3, EpilogueFacts
<1>5. /\ \A s \in Saved(sp) : s[2] \in DOMAIN slots
      /\ \A m \in SavedRegs[machine] : \E s \in Saved(sp) : s[1] = m /\ mreg'[m] = slots[s[2]]
  <2>1. \A s \in Saved(sp) : s[2] \in DOMAIN slots
    BY <1>1, <1>2 DEF ProtectedInv
  <2>2. \A m \in SavedRegs[machine] : \E s \in Saved(sp) : s[1] = m
    BY <1>1, <1>3, SavedFacts
  <2> QED
    BY <1>4, <2>1, <2>2
<1>6. /\ \A r : MapOf(r)' = MapOf(r)
      /\ EntryIsNotATarget' = EntryIsNotATarget
      /\ EpilogueWraps' = EpilogueWraps
      /\ PROTECTED \subseteq Regs
      /\ \A r \in PROTECTED : MapOf(r) \in SavedRegs[machine]
      /\ \A r \in Regs \ PROTECTED : MapOf(r) \in DOMAIN mreg \ SavedRegs[machine]
  BY <1>1, <1>2, MapFacts DEF MapOf, EntryIsNotATarget, vvars, EpilogueWraps
<1>7. MachineInv'
  <2>1. sp' \in Int
    BY <1>1, <1>3, <1>4
  <2> QED
    BY <1>1, <1>4, <2>1 DEF MachineInv, MachineRegs
<1>8. \A r \in PROTECTED : mreg'[MapOf(r)] \in OwnOrCaller(MapOf(r))
  <2> TAKE r \in PROTECTED
  <2>1. PICK s \in Saved(sp) : s[1] = MapOf(r) /\ mreg'[MapOf(r)] = slots[s[2]]
    BY <1>5, <1>6
  <2> QED
    BY <1>1, <1>2, <2>1 DEF ProtectedInv
<1>9. ProtectedInv'
  BY <1>2, <1>6, <1>8 DEF ProtectedInv, OwnOrCaller
<1>10. OwnedInv'
  <2>1. R0 \in Regs \ PROTECTED /\ mreg'[MapOf(R0)] = mreg[MapOf(R0)]
    BY <1>1, <1>4, <1>6, MapFacts
  <2>2. R0 \in Regs \ EntryRegs => (Phys(R0) \in defined => mreg[MapOf(R0)] \in {Program} \cup OtherValues(R0))
    BY <1>1 DEF OwnedInv
  <2>3. \A r : OtherValues(r)' = OtherValues(r) /\ Phys(r)' = Phys(r)
    BY <1>1 DEF OtherValues, Phys
  <2> QED
    BY <1>1, <1>2, <1>6, <2>1, <2>2, <2>3 DEF OwnedInv
<1>11. ValuesSurviveCalls'
  <2>1. \A r \in Regs : Phys(r) \in defined =>
          mreg[MapOf(r)] \in {Program, Caller(MapOf(r))} \cup OtherValues(r)
    BY <1>1 DEF ValuesSurviveCalls, MapOf
  <2>2. \A r \in Regs : Phys(r) \in defined' =>
          mreg'[MapOf(r)] \in {Program, Caller(MapOf(r))} \cup OtherValues(r)
    <3> TAKE r \in Regs
    <3>1. CASE r \in PROTECTED
      BY <1>8, <3>1 DEF OwnOrCaller
    <3>2. CASE r \notin PROTECTED
      <4>1. mreg'[MapOf(r)] = mreg[MapOf(r)]
        BY <1>4, <1>6, <3>2
      <4> QED
        BY <1>1, <2>1, <4>1
    <3> QED
      BY <3>1, <3>2
  <2>3. \A r : OtherValues(r)' = OtherValues(r)
    BY <1>1 DEF OtherValues
  <2> QED
    BY <1>1, <1>2, <2>2, <2>3 DEF ValuesSurviveCalls, MapOf
<1>12. RestoreInv'
  <2> SUFFICES ASSUME EntryIsNotATarget PROVE RestoreInv'
    BY <1>2, <1>6 DEF RestoreInv
  <2>1. sp = -frameSize /\ \A s \in Saved(sp) : slots[s[2]] = Caller(s[1])
    BY <1>1, <1>2 DEF RestoreInv
  <2>2. \A m \in SavedRegs[machine] : mreg'[m] = Caller(m)
    BY <1>5, <2>1
  <2>3. sp' = IF EpilogueWraps THEN -1024 ELSE 0
    <3>1. EpilogueWraps => frameSize = 512
      BY DEF EpilogueWraps
    <3> QED
      BY <1>3, <1>4, <2>1, <3>1
  <2> QED
    BY <1>1, <1>2, <1>6, <2>2, <2>3 DEF RestoreInv
<1> QED
  BY <1>7, <1>9, <1>10, <1>11, <1>12

(* The return moves R0's register to the result's.                         *)
LEMMA ReturnStep == IrInv /\ MachineStateInv /\ Return => MachineStateInv'
<1> SUFFICES ASSUME IrInv, MachineStateInv, Return PROVE MachineStateInv'
  OBVIOUS
<1> USE DEF MachineStateInv
<1>1. /\ machine \in Targets /\ DOMAIN mreg = MachineRegs(machine) /\ sp \in Int
      /\ irs = "running" /\ irs' = "halted" /\ Here.op = "ret"
      /\ UNCHANGED <<vvars, lvars, blk, idx, machine, sp, slots>>
  BY DEF MachineInv, Return, Ret
<1>2. /\ Here' = Here /\ ~ InFrame /\ ~ InFrame' /\ EpilogueWraps' = EpilogueWraps
      /\ EntryIsNotATarget' = EntryIsNotATarget
  BY <1>1 DEF Here, NodeAt, lvars, vvars, InFrame, EpilogueWraps, EntryIsNotATarget
<1>3. /\ DOMAIN mreg' = DOMAIN mreg
      /\ \A m \in DOMAIN mreg : mreg'[m] = IF m = ResultReg[machine] THEN mreg[MapOf(R0)] ELSE mreg[m]
  BY DEF Return, MapOf
<1>4. MachineInv' /\ ProtectedInv' /\ OwnedInv'
  BY <1>1, <1>3 DEF MachineInv, MachineRegs, ProtectedInv, OwnedInv
<1>5. ValuesSurviveCalls'
  <2>1. MapOf(R0) \in DOMAIN mreg /\ ResultReg[machine] \in DOMAIN mreg
    BY <1>1, MapFacts, ConventionFacts
  <2>2. mreg'[ResultReg[machine]] = mreg'[MapOf(R0)]
    BY <1>3, <2>1
  <2> QED
    BY <1>1, <2>2 DEF ValuesSurviveCalls, MapOf
<1>6. RestoreInv'
  <2>1. \A m \in SavedRegs[machine] : mreg'[m] = mreg[m]
    BY <1>1, <1>3, ConventionFacts
  <2> QED
    BY <1>1, <1>2, <2>1 DEF RestoreInv
<1> QED
  BY <1>4, <1>5, <1>6

(* At the entry every register holds what the caller left in it.           *)
LEMMA EnterStep == IrInv /\ MachineStateInv /\ EnterCode => MachineStateInv'
<1> SUFFICES ASSUME IrInv, MachineStateInv, EnterCode PROVE MachineStateInv'
  OBVIOUS
<1> USE DEF MachineStateInv
<1>1. /\ irs = "idle" /\ StartIr /\ UNCHANGED <<vvars, lvars, sp>> /\ sp \in Int /\ sp = 0
      /\ machine' \in Targets
  BY DEF MachineInv, EnterCode, StartIr, RestoreInv
<1>2. /\ irs' = "running" /\ ~ InFrame' /\ frameSize' = frameSize
      /\ frameSize > 0 => Here'.op = "prologue"
  BY <1>1, FrameEntry
<1>3. PICK t \in Targets : machine' = t /\ mreg' = [m \in MachineRegs(t) |-> Caller(m)]
  BY <1>1 DEF EnterCode
<1>4. DOMAIN mreg' = MachineRegs(t) /\ \A m \in MachineRegs(t) : mreg'[m] = Caller(m)
  BY <1>3
<1>5. MachineInv'
  BY <1>1, <1>3, <1>4 DEF MachineInv, MachineRegs
<1>6. /\ \A r \in Regs : MapOf(r)' \in MachineRegs(t)
      /\ PROTECTED \subseteq Regs
      /\ SavedRegs[t] \subseteq MachineRegs(t)
  <2>1. \A r \in Regs : regmap[t][r] \in MachineRegs(t)
    BY DEF MachineRegs
  <2>2. \A r : MapOf(r)' = regmap[t][r]
    BY <1>3 DEF MapOf
  <2> QED
    BY <2>1, <2>2 DEF MachineRegs, PROTECTED, Regs, NUM_REGS
<1>o. OwnedInv'
  <2>1. defined' = {Phys(r) : r \in EntryRegs} /\ EntryRegs \subseteq Regs
    BY <1>1 DEF StartIr, EntryRegs, R1, R10, Regs, NUM_REGS
  <2>2. \A r \in Regs \ EntryRegs : Phys(r)' \notin defined'
    BY <2>1, PhysFacts DEF Phys
  <2> QED
    BY <2>2 DEF OwnedInv
<1>7. ProtectedInv'
  BY <1>2, <1>4, <1>6 DEF ProtectedInv, OwnOrCaller
<1>8. ValuesSurviveCalls'
  <2>1. \A r \in Regs : mreg'[MapOf(r)'] = Caller(MapOf(r)')
    BY <1>4, <1>6
  <2> QED
    BY <1>2, <2>1 DEF ValuesSurviveCalls, MapOf
<1>9. RestoreInv'
  <2>1. ~ (Here'.op = "ret" /\ EpilogueWraps')
    BY <1>2 DEF EpilogueWraps
  <2>2. \A m \in SavedRegs[machine'] : mreg'[m] = Caller(m)
    BY <1>3, <1>4, <1>6
  <2> QED
    BY <1>1, <1>2, <2>1, <2>2 DEF RestoreInv
<1> QED
  BY <1>5, <1>o, <1>7, <1>8, <1>9

----------------------------------------------------------------------------
(* The invariant holds, and what follows from it.                          *)

(* The invariant holds before the first call,                              *)
LEMMA FrameStart == FrameInit => IrInv /\ MachineStateInv
<1> SUFFICES ASSUME FrameInit PROVE IrInv /\ MachineStateInv
  OBVIOUS
<1>1. IrInv /\ irs = "idle"
  BY IrStart DEF FrameInit, IrInit
<1>2. DOMAIN mreg = MachineRegs(machine) /\ machine \in Targets /\ sp = 0
  BY DEF FrameInit, Targets
<1> QED
  BY <1>1, <1>2 DEF MachineStateInv, MachineInv, ProtectedInv, OwnedInv, ValuesSurviveCalls, RestoreInv

(* every step of the call frame keeps it,                                  *)
LEMMA FrameStep ==
  IrInv /\ MachineStateInv /\ [FrameNext]_<<irvars, fvars>> => IrInv' /\ MachineStateInv'
<1> SUFFICES ASSUME IrInv, MachineStateInv, [FrameNext]_<<irvars, fvars>>
             PROVE  IrInv' /\ MachineStateInv'
  OBVIOUS
<1>1. [IrNext]_irvars
  BY DEF FrameNext, IrNext, EnterCode, Compute, Decide, CallHelper, Prologue, Epilogue, Return
<1>2. IrInv'
  BY <1>1, IrStep
<1>3. CASE LowerNext /\ UNCHANGED <<mvars, fvars>>
  <2>1. irs = "idle" /\ irs' = "idle" /\ UNCHANGED <<machine, mreg, sp>>
    BY <1>3, LoweredStays DEF mvars, fvars, IrInv
  <2> QED
    BY <1>2, <2>1 DEF MachineStateInv, MachineInv, MachineRegs, ProtectedInv, OwnedInv,
      ValuesSurviveCalls, RestoreInv
<1>4. CASE UNCHANGED <<irvars, fvars>>
  <2>1. UNCHANGED <<irs, blocks, blk, idx, defined, frameSize, prog, machine, mreg, sp, slots>>
    BY <1>4 DEF irvars, vvars, lvars, mvars, fvars
  <2>2. /\ Here' = Here /\ InFrame' = InFrame /\ Saved(sp)' = Saved(sp)
        /\ EpilogueWraps' = EpilogueWraps /\ \A r : OtherValues(r)' = OtherValues(r)
        /\ EntryIsNotATarget' = EntryIsNotATarget /\ \A r : MapOf(r)' = MapOf(r)
    BY <2>1 DEF Here, NodeAt, InFrame, Saved, SaveArea, EpilogueWraps, OtherValues,
      EntryIsNotATarget, MapOf
  <2>3. MachineInv' /\ ProtectedInv' /\ OwnedInv'
    BY <2>1, <2>2 DEF MachineStateInv, MachineInv, MachineRegs, ProtectedInv, OwnedInv
  <2>4. ValuesSurviveCalls'
    BY <2>1, <2>2 DEF MachineStateInv, ValuesSurviveCalls
  <2>5. RestoreInv'
    BY <2>1, <2>2 DEF MachineStateInv, RestoreInv
  <2> QED
    BY <1>2, <2>3, <2>4, <2>5 DEF MachineStateInv
<1> QED
  BY <1>2, <1>3, <1>4, EnterStep, ComputeStep, DecideStep, CallStep, PrologueStep, EpilogueStep,
     ReturnStep DEF FrameNext

(* so it always holds.                                                     *)
LEMMA FrameInvariant == FrameSpec => [](IrInv /\ MachineStateInv)
BY FrameStart, FrameStep, PTL DEF FrameSpec

(* The machine registers of a node's operands hold what the program        *)
(* computed, or in R1 and R10 what its caller passed; R0's may have missed *)
(* a helper's result, and R1's been overwritten by a compare-exchange, on  *)
(* AArch64.                                                                *)
THEOREM OperandsAreTheirs == FrameSpec => []OperandsHoldTheirValues
<1>1. IrInv /\ MachineStateInv => OperandsHoldTheirValues
  <2> SUFFICES ASSUME IrInv, MachineStateInv, irs = "running", NEW r \in Regs, Phys(r) \in NodeOperands(Here)
               PROVE  /\ Phys(r) \in defined
                      /\ mreg[MapOf(r)] \in {Program} \cup OtherValues(r)
                           \cup (IF r \in EntryRegs THEN {Caller(MapOf(r))} ELSE {})
    BY DEF OperandsHoldTheirValues, MapOf
  <2>1. Phys(r) \in defined
    BY NodeOperandsDefined
  <2>2. CASE r \in EntryRegs
    BY <2>1, <2>2 DEF MachineStateInv, ValuesSurviveCalls, MapOf
  <2>3. CASE r \notin EntryRegs
    <3>1. Here.op = "ret" => r = R0
      <4>1. Here.op = "ret" => Phys(r) = Phys(R0)
        BY DEF NodeOperands
      <4> QED
        BY <4>1, PhysFacts
    <3> QED
      BY <2>1, <2>3, <3>1 DEF MachineStateInv, OwnedInv
  <2> QED
    BY <2>1, <2>2, <2>3
<1> QED
  BY <1>1, FrameInvariant, PTL

(* What a program has put in a register is there until the program puts    *)
(* something else there, whatever frames it enters and helpers it calls,   *)
(* but for the result of a helper and a compare-exchange's old contents on *)
(* AArch64; the function returns what R0's register holds.                 *)
THEOREM RegistersSurvive == FrameSpec => []ValuesSurviveCalls
<1>1. MachineStateInv => ValuesSurviveCalls
  BY DEF MachineStateInv
<1> QED
  BY <1>1, FrameInvariant, PTL

(* A program that does not branch to its first instruction returns to its  *)
(* caller with the stack pointer and every register the convention         *)
(* protects as they were, but for the 512-byte frame on AArch64, which     *)
(* moves the stack pointer, and s7 on RISC-V.                              *)
THEOREM CallerRestored == FrameSpec => []ReturnRestoresCaller
<1>1. MachineStateInv => ReturnRestoresCaller
  <2> SUFFICES ASSUME MachineStateInv, irs = "halted", EntryIsNotATarget
               PROVE  ReturnRestoresCaller
    BY DEF ReturnRestoresCaller
  <2>1. (\A m \in SavedRegs[machine] : mreg[m] = Caller(m)) /\ sp = IF EpilogueWraps THEN -1024 ELSE 0
    BY DEF MachineStateInv, RestoreInv, InFrame
  <2>2. /\ LinkReg[machine] \in SavedRegs[machine]
        /\ (DOMAIN mreg \cap CalleeSaved[machine]) \ {tmp["riscv64"]} \subseteq SavedRegs[machine]
    BY ConventionFacts DEF MachineStateInv, MachineInv
  <2> QED
    BY <2>1, <2>2 DEF ReturnRestoresCaller
<1> QED
  BY <1>1, FrameInvariant, PTL
=============================================================================

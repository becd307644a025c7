---------------------------- MODULE IrRunProofs -----------------------------
(***************************************************************************)
(* A lowered program runs as the program it was lowered from, for every    *)
(* program, every register map and every frame: each step of IrRun is a    *)
(* step of VerifiedRun or is not seen there.  The proof rests on the       *)
(* layout of the nodes (LayoutInv): the node executed next comes from the  *)
(* instruction executed next.                                              *)
(***************************************************************************)
EXTENDS IrRun, LoweringProofs

----------------------------------------------------------------------------
(* The abstract specification's verifier is the verifier: an instance has  *)
(* definitions of its own, which say the same.                             *)

(* The abstract run reads the program with the operators of the concrete   *)
(* one.                                                                    *)
LEMMA SourceOperators ==
  /\ Source!EntryRegs = EntryRegs
  /\ \A p : Source!Pcs(p) = Pcs(p)
  /\ \A p, q : Source!At(p, q) = At(p, q) /\ Source!ExecSuccessors(p, q) = ExecSuccessors(p, q)
  /\ Source!vvars = vvars
<1>1. \A p, q : Source!At(p, q) = At(p, q) /\ Source!ExecSuccessors(p, q) = ExecSuccessors(p, q)
  BY DEF Source!At, At, Source!ExecSuccessors, ExecSuccessors, Source!Target, Target
<1> QED
  BY <1>1 DEF Source!EntryRegs, EntryRegs, Source!R1, R1, Source!R10, R10, Source!Pcs, Pcs,
    Source!vvars, vvars

(* The verifier of the abstract run is the verifier of the concrete one,   *)
(* in its initial states                                                   *)
LEMMA SourceInit == Init => Source!Init
BY DEF Init, Source!Init, Unverified, Source!Unverified, Pcs, Source!Pcs, Pending, Source!Pending, Verdict, Source!Verdict,
  Imm, Source!Imm, NUM_REGS, Source!NUM_REGS

(* and in its steps.                                                       *)
LEMMA SourceNext == Next => Source!Next
<1> SUFFICES ASSUME Next PROVE Source!Next
  OBVIOUS
<1> USE DEF Pcs, Source!Pcs, At, Source!At, Target, Source!Target, IsBranch, Source!IsBranch,
            N, Source!N, NUM_REGS, Source!NUM_REGS, Imm, Source!Imm, R0, Source!R0, R10, Source!R10,
            Verdict, Source!Verdict, Reject, Source!Reject, cfgVars, Source!cfgVars,
            flowVars, Source!flowVars, history, Source!history,
            BlockEnd, Source!BlockEnd, InsnToBb, Source!InsnToBb, Successors, Source!Successors
<1>1. CASE EmptyProgram
  BY <1>1 DEF Source!Next, EmptyProgram, Source!EmptyProgram
<1>2. CASE BranchOutOfBounds
  BY <1>2 DEF Source!Next, BranchOutOfBounds, Source!BranchOutOfBounds, BadBranches, Source!BadBranches
<1>3. CASE BuildCfg
  BY <1>3 DEF Source!Next, BuildCfg, Source!BuildCfg, BadBranches, Source!BadBranches,
    BbStarts, Source!BbStarts, EndsBlock, Source!EndsBlock, EntryRegs, Source!EntryRegs, R1, Source!R1
<1>4. CASE StartSweep
  BY <1>4 DEF Source!Next, StartSweep, Source!StartSweep, BudgetSpent, Source!BudgetSpent
<1>5. CASE BackEdgeBudgetExceeded
  BY <1>5 DEF Source!Next, BackEdgeBudgetExceeded, Source!BackEdgeBudgetExceeded,
    BudgetSpent, Source!BudgetSpent
<1>6. CASE SkipUnreachable
  BY <1>6 DEF Source!Next, SkipUnreachable, Source!SkipUnreachable
<1>7. CASE EnterBlock
  BY <1>7 DEF Source!Next, EnterBlock, Source!EnterBlock
<1>8. CASE RejectWriteToR10
  BY <1>8 DEF Source!Next, RejectWriteToR10, Source!RejectWriteToR10,
    WritesFramePointer, Source!WritesFramePointer, WritesDst, Source!WritesDst
<1>9. CASE RejectUninitRead
  BY <1>9 DEF Source!Next, RejectUninitRead, Source!RejectUninitRead, UninitRead, Source!UninitRead,
    WritesFramePointer, Source!WritesFramePointer, WritesDst, Source!WritesDst,
    Reads, Source!Reads, ReadsSrc, Source!ReadsSrc, ReadsDst, Source!ReadsDst,
    FirstUninit, Source!FirstUninit
<1>10. CASE RejectStackOffset
  BY <1>10 DEF Source!Next, RejectStackOffset, Source!RejectStackOffset,
    WritesFramePointer, Source!WritesFramePointer, WritesDst, Source!WritesDst,
    Reads, Source!Reads, ReadsSrc, Source!ReadsSrc, ReadsDst, Source!ReadsDst,
    StackOffsetBad, Source!StackOffsetBad, IsMemAccess, Source!IsMemAccess, MemBase, Source!MemBase
<1>11. CASE CheckInsn
  BY <1>11 DEF Source!Next, CheckInsn, Source!CheckInsn, Passes, Source!Passes,
    WritesFramePointer, Source!WritesFramePointer, WritesDst, Source!WritesDst,
    Reads, Source!Reads, ReadsSrc, Source!ReadsSrc, ReadsDst, Source!ReadsDst,
    StackOffsetBad, Source!StackOffsetBad, IsMemAccess, Source!IsMemAccess, MemBase, Source!MemBase,
    Post, Source!Post, ArgRegs, Source!ArgRegs
<1>12. CASE Propagate
  BY <1>12 DEF Source!Next, Propagate, Source!Propagate, FlowChanges, Source!FlowChanges,
    Flow, Source!Flow, RegFileMerge, Source!RegFileMerge
<1>13. CASE EndSweep
  BY <1>13 DEF Source!Next, EndSweep, Source!EndSweep
<1>14. CASE Converged
  BY <1>14 DEF Source!Next, Converged, Source!Converged
<1>15. CASE RejectBlock
  BY <1>15 DEF Source!Next, RejectBlock, Source!RejectBlock, BadBlocks, Source!BadBlocks,
    DeadEnd, Source!DeadEnd
<1>16. CASE NoExitInstruction
  BY <1>16 DEF Source!Next, NoExitInstruction, Source!NoExitInstruction, BadBlocks, Source!BadBlocks,
    DeadEnd, Source!DeadEnd, HasExit, Source!HasExit
<1>17. CASE Accept
  BY <1>17 DEF Source!Next, Accept, Source!Accept, BadBlocks, Source!BadBlocks,
    DeadEnd, Source!DeadEnd, HasExit, Source!HasExit
<1> QED
  BY <1>1, <1>2, <1>3, <1>4, <1>5, <1>6, <1>7, <1>8, <1>9, <1>10, <1>11, <1>12, <1>13, <1>14,
    <1>15, <1>16, <1>17 DEF Next

(* What a node reads, defines and clobbers is what its instruction does,   *)
(* seen through the register map.                                          *)
Unmapped(d) == {r \in Regs : Phys(r) \in d}

(* Distinct eBPF registers have distinct machine registers.                *)
LEMMA PhysFacts ==
  /\ \A r \in Regs : Phys(r) \in Nat /\ Phys(r) # NoReg
  /\ \A r, s \in Regs : Phys(r) = Phys(s) => r = s
  /\ Phys(Imm) = NoReg
  /\ R0 \in Regs /\ ArgRegs \subseteq Regs
BY RegMapAssumption DEF Phys, NoReg, Regs, Imm, NUM_REGS, R0, ArgRegs

(* A node defines the images of what its instruction writes, and names     *)
(* images of what the verifier checks of it.                               *)
LEMMA TranslatedFacts ==
  ASSUME NEW i \in Insn, i.kind \notin {"exit", "tailcall"}, NEW p, NEW d
  PROVE  LET x == Translated(i, p) IN
         /\ x.pc = p /\ x.op \notin {"prologue", "epilogue", "ret"}
         /\ x.op = "branch" <=> i.kind = "jcond"
         /\ x.op = "jump" <=> i.kind = "ja"
         /\ NodeOperands(x) \subseteq {Phys(r) : r \in Reads(i) \cap Regs}
         /\ Unmapped((d \ IrClobbers(x)) \cup IrDefines(x))
              = (Unmapped(d) \ Source!Clobbers(i)) \cup Source!Defines(i)
         /\ Source!Defines(i) = IF WritesDst(i) THEN {i.dst} ELSE IF i.kind = "call" THEN {R0} ELSE {}
<1> DEFINE x == Translated(i, p)
<1>1. /\ i.kind \in Kinds /\ i.dst \in Regs /\ i.src \in Regs \cup {Imm}
      /\ x.op = IrOp(i.kind) /\ x.dst = Phys(i.dst) /\ x.src = Phys(i.src) /\ x.pc = p
  BY DEF Insn, Translated, Node
<1> HIDE DEF x
<1>2. /\ x.op \notin {"prologue", "epilogue", "ret"}
      /\ x.op = "branch" <=> i.kind = "jcond"
      /\ x.op = "jump" <=> i.kind = "ja"
      /\ x.op = "call" <=> i.kind = "call"
      /\ x.op \in {"mov", "alu", "load", "ldimm", "endian"} <=> WritesDst(i)
  BY <1>1 DEF IrOp, Kinds, WritesDst
<1>3. NodeOperands(x) \subseteq {Phys(r) : r \in Reads(i) \cap Regs}
  <2>1. /\ x.src # NoReg => i.src \in Regs /\ i.src # Imm
        /\ i.src # Imm <=> i.src \in Regs
    BY <1>1, PhysFacts DEF Imm, Regs, NUM_REGS
  <2>2. ASSUME NEW u \in NodeOperands(x)
        PROVE  \/ u = x.src /\ u # NoReg /\ i.kind \in {"mov", "load", "alu", "jcond", "storereg", "atomic", "cmpxchg"}
               \/ u = x.dst /\ i.kind \in {"alu", "jcond", "storereg", "atomic", "cmpxchg", "storeimm", "endian"}
    BY <2>2, <1>1 DEF NodeOperands, IrOp, Kinds
  <2>3. ASSUME NEW u \in NodeOperands(x)
        PROVE  \E r \in Reads(i) \cap Regs : u = Phys(r)
    <3>1. CASE u = x.src /\ u # NoReg /\ i.kind \in {"mov", "load", "alu", "jcond", "storereg", "atomic", "cmpxchg"}
      <4>1. i.src \in Reads(i) /\ i.src \in Regs
        BY <3>1, <2>1 DEF Reads, ReadsSrc
      <4> QED
        BY <4>1, <3>1, <1>1
    <3>2. CASE u = x.dst /\ i.kind \in {"alu", "jcond", "storereg", "atomic", "cmpxchg", "storeimm", "endian"}
      <4>1. i.dst \in Reads(i) /\ i.dst \in Regs
        BY <3>2, <1>1 DEF Reads, ReadsDst
      <4> QED
        BY <4>1, <3>2, <1>1
    <3> QED
      BY <2>2, <3>1, <3>2
  <2> QED
    BY <2>3
<1>4. /\ Source!Defines(i) = IF WritesDst(i) THEN {i.dst} ELSE IF i.kind = "call" THEN {R0} ELSE {}
      /\ Source!Clobbers(i) = IF i.kind = "call" THEN ArgRegs ELSE {}
  BY DEF Source!Defines, Source!Clobbers, WritesDst, Source!R0, R0, Source!ArgRegs, ArgRegs
<1>5. /\ IrDefines(x) = {Phys(r) : r \in Source!Defines(i)}
      /\ IrClobbers(x) = {Phys(r) : r \in Source!Clobbers(i)}
      /\ Source!Defines(i) \subseteq Regs /\ Source!Clobbers(i) \subseteq Regs
  BY <1>1, <1>2, <1>4, PhysFacts DEF IrDefines, IrClobbers
<1>6. Unmapped((d \ IrClobbers(x)) \cup IrDefines(x))
        = (Unmapped(d) \ Source!Clobbers(i)) \cup Source!Defines(i)
  <2>1. \A r \in Regs : /\ Phys(r) \in IrDefines(x) <=> r \in Source!Defines(i)
                        /\ Phys(r) \in IrClobbers(x) <=> r \in Source!Clobbers(i)
    BY <1>5, PhysFacts
  <2> QED
    BY <2>1, <1>5 DEF Unmapped
<1> QED
  BY <1>1, <1>2, <1>3, <1>4, <1>6 DEF x

----------------------------------------------------------------------------
(* Where control goes.                                                     *)

(* While a program runs its lowering is complete and control is at a node. *)
ActiveInv ==
  /\ irs \in {"idle", "running", "halted", "left"}
  /\ irs # "idle" => stage = "lowered" /\ blk \in DOMAIN blocks /\ idx \in DOMAIN blocks[blk].nodes

(* The finished program, and the node at a position.                       *)
LEMMA LoweredFacts ==
  ASSUME LoweringInv, stage = "lowered"
  PROVE  /\ result.verdict = "Ok" /\ phase = "done" /\ N \in Nat /\ N > 0
         /\ Pcs(prog) = 0 .. N - 1 /\ LeadersRight
         /\ Segments = Len(blocks) /\ Len(blocks) \in Nat /\ Len(blocks) > 0
         /\ DOMAIN blocks = 1 .. Len(blocks)
         /\ \A k \in DOMAIN blocks :
              /\ Segment(k) = blocks[k].nodes
              /\ Len(blocks[k].nodes) \in Nat /\ Len(blocks[k].nodes) > 0
              /\ DOMAIN blocks[k].nodes = 1 .. Len(blocks[k].nodes)
<1> USE DEF LoweringInv, VerifierInv, StructInv, LowerInv
<1>1. /\ result.verdict = "Ok" /\ leaders = Leaders /\ lpc = N /\ current = <<>>
      /\ Len(blocks) = Cardinality(leaders)
  BY DEF StageInv
<1>2. phase = "done" /\ N \in Nat /\ N > 0 /\ Pcs(prog) = 0 .. N - 1 /\ LeadersRight
  BY <1>1, AcceptedLeaders, ProgFacts DEF CfgInv, LeadersRight
<1> DEFINE B == [id : Nat, nodes : Seq(IrNodes) \ {<<>>}]
<1>3. blocks \in Seq(B)
  BY DEF LoweringTypeOK
<1>4. ASSUME NEW k \in DOMAIN blocks
      PROVE  blocks[k].nodes \in Seq(IrNodes) /\ blocks[k].nodes # <<>>
  <2>1. blocks[k] \in B
    <3> HIDE DEF B
    <3> QED BY <1>3
  <2> QED
    BY <2>1
<1>5. ASSUME NEW k \in DOMAIN blocks
      PROVE  /\ Len(blocks[k].nodes) \in Nat /\ Len(blocks[k].nodes) > 0
             /\ DOMAIN blocks[k].nodes = 1 .. Len(blocks[k].nodes)
  <2> DEFINE s == blocks[k].nodes
  <2>1. s \in Seq(IrNodes) /\ s # <<>>
    BY <1>4
  <2> HIDE DEF s
  <2>2. Len(s) \in Nat /\ Len(s) > 0 /\ DOMAIN s = 1 .. Len(s)
    BY <2>1
  <2> QED
    BY <2>2 DEF s
<1>6. Len(blocks) \in Nat /\ DOMAIN blocks = 1 .. Len(blocks)
  <2> HIDE DEF B
  <2> QED BY <1>3
<1>7. Len(blocks) > 0
  <2>1. \A l \in leaders : l < lpc
    BY <1>1, <1>2 DEF LeadersRight
  <2>2. \E k \in DOMAIN blocks : First(k) = 0
    BY <1>1, <1>2, <2>1 DEF RankInv, LeadersRight
  <2> QED
    BY <2>2, <1>6
<1>8. Segments = Len(blocks) /\ \A k \in DOMAIN blocks : Segment(k) = blocks[k].nodes
  BY <1>1, <1>6 DEF Segments, Segment
<1> QED
  BY <1>1, <1>2, <1>5, <1>6, <1>7, <1>8

(* The node control is at comes from an instruction.                       *)
LEMMA HereFacts ==
  ASSUME LoweringInv, ActiveInv, irs # "idle"
  PROVE  /\ stage = "lowered" /\ FromInsn(Here) /\ Here.pc \in Pcs(prog) /\ Here.pc \in Nat
         /\ At(prog, Here.pc) \in Insn /\ At(prog, Here.pc).kind # "tailcall"
<1>1. stage = "lowered" /\ blk \in 1 .. Segments /\ Segment(blk) = blocks[blk].nodes
      /\ idx \in DOMAIN Segment(blk)
  BY LoweredFacts DEF ActiveInv
<1>2. FromInsn(Here)
  BY <1>1 DEF LoweringInv, LayoutInv, Laid, Here, NodeAt
<1>3. Here.pc \in Pcs(prog)
  BY <1>2 DEF FromInsn
<1> QED
  BY <1>1, <1>2, <1>3, LoweredFacts, ProgFacts
     DEF LoweringInv, VerifierInv, StructInv, LeadersRight, TailCallFree

(* The four kinds of node.                                                 *)
LEMMA NodeKinds ==
  ASSUME LoweringInv, ActiveInv, irs # "idle"
  PROVE  /\ Here.op = "prologue" => Here.pc = 0 /\ frameSize > 0
         /\ Here.op = "epilogue" => At(prog, Here.pc).kind = "exit" /\ frameSize > 0
         /\ Here.op = "ret" => At(prog, Here.pc).kind = "exit"
         /\ Here.op \notin {"prologue", "epilogue", "ret"} =>
              Here = Translated(At(prog, Here.pc), Here.pc) /\ At(prog, Here.pc).kind # "exit"
<1>1. FromInsn(Here) /\ At(prog, Here.pc) \in Insn /\ At(prog, Here.pc).kind # "tailcall"
  BY HereFacts
<1>2. \A op, p : Bare(op, p).op = op
  BY DEF Bare, Node
<1>3. At(prog, Here.pc).kind # "exit" =>
        Translated(At(prog, Here.pc), Here.pc).op \notin {"prologue", "epilogue", "ret"}
  BY <1>1, TranslatedFacts
<1> QED
  BY <1>1, <1>2, <1>3 DEF FromInsn

(* Going on to the next node: it is linked to this one, or this one is the *)
(* last of the program.                                                    *)
LEMMA FollowingFacts ==
  ASSUME LoweringInv, ActiveInv, irs = "running", GoTo(Following[1], Following[2]),
         UNCHANGED <<vvars, lvars>>
  PROVE  \/ irs' = "running" /\ ActiveInv' /\ Linked(Here, Here') /\ FromInsn(Here')
         \/ irs' = "left" /\ UNCHANGED <<blk, idx>> /\ Completes(Here) /\ Here.pc = N - 1
<1> DEFINE last == idx = Len(blocks[blk].nodes)
<1>1. /\ stage = "lowered" /\ blk \in 1 .. Segments /\ Segment(blk) = blocks[blk].nodes
      /\ Segments = Len(blocks) /\ Len(blocks) \in Nat /\ DOMAIN blocks = 1 .. Len(blocks)
      /\ Len(Segment(blk)) \in Nat /\ DOMAIN Segment(blk) = 1 .. Len(Segment(blk))
      /\ idx \in 1 .. Len(Segment(blk)) /\ Here = Segment(blk)[idx]
  BY LoweredFacts DEF ActiveInv, Here, NodeAt
<1>2. blocks' = blocks /\ stage' = stage /\ \A k, n : NodeAt(k, n)' = NodeAt(k, n)
  BY DEF lvars, NodeAt
<1>3. CASE idx < Len(Segment(blk))
  <2>1. Following = <<blk, idx + 1>> /\ idx + 1 \in DOMAIN Segment(blk)
    BY <1>1, <1>3 DEF Following
  <2>2. blk' = blk /\ idx' = idx + 1 /\ irs' = irs
    BY <1>1, <2>1 DEF GoTo
  <2>3. Here' = Segment(blk)[idx + 1] /\ ActiveInv'
    BY <1>1, <1>2, <2>1, <2>2 DEF Here, NodeAt, ActiveInv
  <2>4. Linked(Here, Segment(blk)[idx + 1]) /\ FromInsn(Segment(blk)[idx + 1])
    BY <1>1, <1>3, <2>1 DEF LoweringInv, LayoutInv, Laid
  <2> QED
    BY <2>2, <2>3, <2>4
<1>4. CASE ~ (idx < Len(Segment(blk))) /\ blk + 1 \in DOMAIN blocks
  <2>1. Following = <<blk + 1, 1>> /\ Here = Final(Segment(blk)) /\ blk < Segments
    BY <1>1, <1>4 DEF Following, Final
  <2>2. blk' = blk + 1 /\ idx' = 1 /\ irs' = irs
    BY <1>4, <2>1 DEF GoTo
  <2>3. Segment(blk + 1) = blocks[blk + 1].nodes /\ 1 \in DOMAIN blocks[blk + 1].nodes
    BY <1>1, <1>4, LoweredFacts
  <2>4. Here' = Segment(blk + 1)[1] /\ ActiveInv'
    BY <1>1, <1>2, <1>4, <2>2, <2>3 DEF Here, NodeAt, ActiveInv
  <2>5. Linked(Final(Segment(blk)), Segment(blk + 1)[1]) /\ FromInsn(Segment(blk + 1)[1])
    BY <1>1, <1>4, <2>1, <2>3 DEF LoweringInv, LayoutInv, Laid
  <2> QED
    BY <2>1, <2>2, <2>4, <2>5
<1>5. CASE ~ (idx < Len(Segment(blk))) /\ blk + 1 \notin DOMAIN blocks
  <2>1. Following = <<blk + 1, 1>> /\ Here = Final(Segment(blk)) /\ blk = Segments
    BY <1>1, <1>5 DEF Following, Final
  <2>2. irs' = "left" /\ UNCHANGED <<blk, idx>>
    BY <1>5, <2>1 DEF GoTo
  <2>3. Completes(Final(Segment(blk))) /\ Final(Segment(Segments)).pc = lpc - 1
    BY <1>1 DEF LoweringInv, LayoutInv, Laid
  <2>4. lpc = N
    BY <1>1 DEF LoweringInv, LowerInv, StageInv
  <2> QED
    BY <2>1, <2>2, <2>3, <2>4
<1> QED
  BY <1>3, <1>4, <1>5

(* A branch that is taken goes to the first node of its target.            *)
LEMMA BranchFacts ==
  ASSUME LoweringInv, ActiveInv, irs = "running", Here.op \in {"branch", "jump"},
         GoTo(LabelOf(Here.target), 1), UNCHANGED <<vvars, lvars>>
  PROVE  /\ irs' = "running" /\ ActiveInv' /\ idx' = 1
         /\ Here'.pc = Target(prog, Here.pc) /\ Target(prog, Here.pc) \in Pcs(prog)
<1>1. /\ stage = "lowered" /\ blk \in DOMAIN blocks /\ idx \in DOMAIN blocks[blk].nodes
      /\ Here = blocks[blk].nodes[idx]
  BY DEF ActiveInv, Here, NodeAt
<1> DEFINE t == Here.target
<1>2. /\ t + 1 \in DOMAIN blocks /\ blocks[t + 1].id = t
      /\ blocks[t + 1].nodes[1].pc = Target(prog, Here.pc)
  BY <1>1, LoweredBranches DEF BranchesReachTheirTarget, LoweringInv, VerifierInv
<1>3. \A k \in DOMAIN blocks : k \in Nat /\ blocks[k].id = k - 1
  BY <1>1, LoweredFacts, SMTT(20) DEF LoweringInv, LowerInv, LoweringTypeOK
<1>4. t \in Nat
  <2>1. PICK k \in DOMAIN blocks : k = t + 1
    BY <1>2
  <2>2. k \in Nat /\ k > 0 /\ t = k - 1
    BY <1>1, <1>2, <1>3, <2>1, LoweredFacts
  <2> QED
    BY <2>2
<1>5. LabelOf(t) = t + 1
  BY <1>2, <1>3, <1>4 DEF LabelOf
<1>6. blk' = t + 1 /\ idx' = 1 /\ irs' = irs
  BY <1>2, <1>5 DEF GoTo
<1>7. 1 \in DOMAIN blocks[t + 1].nodes
  BY <1>1, <1>2, LoweredFacts
<1>8. blocks' = blocks /\ stage' = stage
  BY DEF lvars
<1>9. Here' = blocks[t + 1].nodes[1] /\ ActiveInv'
  BY <1>1, <1>2, <1>6, <1>7, <1>8 DEF Here, NodeAt, ActiveInv
<1>10. Target(prog, Here.pc) \in Pcs(prog)
  <2>1. IsBranch(At(prog, Here.pc))
    <3>1. TargetsBlock(Here)
      BY <1>1 DEF LoweringInv, LowerInv, TargetsInv
    <3> QED
      BY <3>1 DEF TargetsBlock
  <2> QED
    BY <2>1, <1>1, LoweredFacts, HereFacts DEF LeadersRight
<1> QED
  BY <1>2, <1>6, <1>9, <1>10

----------------------------------------------------------------------------
(* The invariant.                                                          *)

(* The verifier's solution holds of the machine: at the instruction whose  *)
(* nodes are executing, the registers its last sweep took to be            *)
(* initialised are defined.                                                *)
SolutionInv == irs = "running" => In(Here.pc) \subseteq Unmapped(defined)

IrInv == LoweringInv /\ ActiveInv /\ SolutionInv

(* No step changes a lowered program.                                      *)
LEMMA LoweredStays ==
  ASSUME LoweringInv, ActiveInv, irs # "idle"
  PROVE  ~ LowerNext
<1>1. stage = "lowered" /\ phase = "done"
  BY LoweredFacts DEF ActiveInv
<1>2. ~ Next
  BY <1>1, WaitsForVerdict DEF LoweringInv, VerifierInv
<1> QED
  BY <1>1, <1>2 DEF LowerNext, FindLeaders, LowerLeader, LowerInBlock, Flush

(* The first node executed.                                                *)
LEMMA EntryFacts ==
  ASSUME LoweringInv, StartIr
  PROVE  ActiveInv' /\ irs' = "running" /\ Here' = NewNodes(0)[1] /\ Here'.pc = 0
<1>1. /\ stage = "lowered" /\ 1 \in DOMAIN blocks /\ 1 \in DOMAIN blocks[1].nodes
      /\ Segments > 0 /\ Segment(1) = blocks[1].nodes /\ 0 \in Pcs(prog) /\ LeadersRight
  BY LoweredFacts DEF StartIr
<1>2. blocks[1].nodes[1] = NewNodes(0)[1]
  BY <1>1 DEF LoweringInv, LayoutInv
<1>3. NewNodes(0)[1].pc = 0
  BY <1>1, NewNodesFacts
     DEF LoweringInv, VerifierInv, StructInv, LowerInv, LoweringTypeOK
<1>4. irs' = "running" /\ blk' = 1 /\ idx' = 1 /\ stage' = stage /\ blocks' = blocks
  BY DEF StartIr, lvars
<1> QED
  BY <1>1, <1>2, <1>3, <1>4 DEF ActiveInv, Here, NodeAt

(* What the execution of an instruction leaves is what its successors were *)
(* checked by, or more.                                                    *)
LEMMA SolutionPropagates ==
  ASSUME IrInv, irs = "running", Here.op \notin {"prologue", "epilogue", "ret"},
         NEW q \in Pcs(prog), q \in ExecSuccessors(prog, Here.pc)
  PROVE  In(q) \subseteq Unmapped((defined \ IrClobbers(Here)) \cup IrDefines(Here))
<1> DEFINE p == Here.pc
           i == At(prog, p)
<1>1. /\ i \in Insn /\ i.kind \notin {"exit", "tailcall"} /\ Here = Translated(i, p) /\ p \in Pcs(prog)
      /\ In(p) \subseteq Unmapped(defined) /\ VerifierInv /\ result.verdict = "Ok"
  BY HereFacts, NodeKinds, LoweredFacts DEF IrInv, SolutionInv, LoweringInv
<1>2. In(q) \subseteq Post(i, In(p))
  <2>1. TailCallFree(prog)
    BY HereFacts, LoweredFacts DEF IrInv, LeadersRight
  <2> QED
    BY <1>1, <2>1, AcceptedAllChecked, AcceptedIsClosed DEF VerifierInv
<1> HIDE DEF p, i
<1>3. Post(i, In(p)) \subseteq (Unmapped(defined) \ Source!Clobbers(i)) \cup Source!Defines(i)
  <2>1. Source!Clobbers(i) = IF i.kind = "call" THEN ArgRegs ELSE {}
    BY DEF Source!Clobbers, Source!ArgRegs, ArgRegs
  <2>2. Source!Defines(i) = IF WritesDst(i) THEN {i.dst} ELSE IF i.kind = "call" THEN {R0} ELSE {}
    BY <1>1, TranslatedFacts
  <2> QED
    BY <1>1, <2>1, <2>2 DEF Post, WritesDst
<1>4. Unmapped((defined \ IrClobbers(Here)) \cup IrDefines(Here))
        = (Unmapped(defined) \ Source!Clobbers(i)) \cup Source!Defines(i)
  <2> DEFINE x == Translated(i, p)
  <2>0. i \in Insn /\ i.kind \notin {"exit", "tailcall"}
    BY <1>1
  <2>1. Unmapped((defined \ IrClobbers(x)) \cup IrDefines(x))
          = (Unmapped(defined) \ Source!Clobbers(i)) \cup Source!Defines(i)
    BY <2>0, TranslatedFacts
  <2>2. Here = x
    BY <1>1
  <2> QED
    BY <2>1, <2>2
<1> QED
  BY <1>2, <1>3, <1>4

(* A branch defines and clobbers nothing.                                  *)
LEMMA BranchKeepsRegisters ==
  ASSUME Here.op \in {"branch", "jump"}
  PROVE  (defined \ IrClobbers(Here)) \cup IrDefines(Here) = defined
BY DEF IrClobbers, IrDefines

(* Which instructions the machine's steps go on to.                        *)
LEMMA StepSuccessors ==
  ASSUME LoweringInv, ActiveInv, irs = "running", Here.op \notin {"prologue", "epilogue", "ret"}
  PROVE  /\ Here.op # "jump" => Here.pc + 1 \in ExecSuccessors(prog, Here.pc)
         /\ Here.op \in {"branch", "jump"} => Target(prog, Here.pc) \in ExecSuccessors(prog, Here.pc)
<1>1. /\ At(prog, Here.pc) \in Insn /\ At(prog, Here.pc).kind \notin {"exit", "tailcall"}
      /\ Here = Translated(At(prog, Here.pc), Here.pc)
  BY HereFacts, NodeKinds
<1>2. /\ Here.op = "branch" <=> At(prog, Here.pc).kind = "jcond"
      /\ Here.op = "jump" <=> At(prog, Here.pc).kind = "ja"
  <2> DEFINE i == At(prog, Here.pc)
             x == Translated(i, Here.pc)
  <2>1. i \in Insn /\ i.kind \notin {"exit", "tailcall"} /\ Here = x
    BY <1>1
  <2> HIDE DEF i
  <2>2. (x.op = "branch" <=> i.kind = "jcond") /\ (x.op = "jump" <=> i.kind = "ja")
    BY <2>1, TranslatedFacts
  <2> QED
    BY <2>1, <2>2 DEF i
<1> QED
  BY <1>1, <1>2 DEF ExecSuccessors

(* The invariant holds before the program is verified,                     *)
LEMMA IrStart == IrInit => IrInv
BY LoweringStart DEF IrInit, IrInv, ActiveInv, SolutionInv

(* every step keeps it,                                                    *)
LEMMA IrStep == IrInv /\ [IrNext]_irvars => IrInv'
<1> SUFFICES ASSUME IrInv, [IrNext]_irvars PROVE IrInv'
  OBVIOUS
<1> USE DEF IrInv
<1>1. [LowerNext]_lowerVars
  BY DEF IrNext, irvars, lowerVars, StartIr, Straight, BranchNotTaken, BranchTaken, PushFrame,
    PopFrame, Ret
<1>2. LoweringInv'
  BY <1>1, LoweringStep
<1>3. \A p : UNCHANGED vvars => In(p)' = In(p)
  BY DEF vvars, In
<1>4. CASE LowerNext /\ UNCHANGED mvars
  <2>1. irs = "idle" /\ irs' = "idle"
    BY <1>4, LoweredStays DEF mvars
  <2> QED
    BY <1>2, <2>1 DEF ActiveInv, SolutionInv
<1>5. CASE StartIr
  <2>1. ActiveInv' /\ Here'.pc = 0
    BY <1>5, EntryFacts
  <2>2. In(0) \subseteq EntryRegs
    BY <1>5, LoweredFacts, AcceptedIsClosed DEF StartIr, LoweringInv, VerifierInv
  <2>3. EntryRegs \subseteq Unmapped(defined')
    BY <1>5 DEF StartIr, Unmapped, EntryRegs, R1, R10, Regs, NUM_REGS
  <2>4. UNCHANGED vvars
    BY <1>5 DEF StartIr
  <2> QED
    BY <1>2, <1>3, <2>1, <2>2, <2>3, <2>4 DEF SolutionInv, Unmapped
<1>6. CASE Straight
  <2>1. /\ irs = "running" /\ GoTo(Following[1], Following[2]) /\ UNCHANGED <<vvars, lvars>>
        /\ Here.op \notin {"prologue", "epilogue", "ret", "jump"}
        /\ irs' # "left" => defined' = (defined \ IrClobbers(Here)) \cup IrDefines(Here)
    BY <1>6 DEF Straight
  <2>2. CASE irs' = "left" /\ UNCHANGED <<blk, idx>>
    BY <1>2, <2>1, <2>2 DEF ActiveInv, SolutionInv, lvars
  <2>3. CASE irs' = "running" /\ ActiveInv' /\ Linked(Here, Here') /\ FromInsn(Here')
    <3>1. Here'.pc = Here.pc + 1 /\ Here'.pc \in Pcs(prog)
      BY <2>1, <2>3 DEF Linked, Completes, FromInsn
    <3> QED
      BY <1>2, <1>3, <2>1, <2>3, <3>1, StepSuccessors, SolutionPropagates
         DEF SolutionInv, Unmapped
  <2> QED
    BY <2>1, <2>2, <2>3, FollowingFacts
<1>7. CASE BranchNotTaken
  <2>1. /\ irs = "running" /\ GoTo(Following[1], Following[2]) /\ UNCHANGED <<vvars, lvars>>
        /\ Here.op = "branch" /\ defined' = defined
    BY <1>7 DEF BranchNotTaken
  <2>2. CASE irs' = "left" /\ UNCHANGED <<blk, idx>>
    BY <1>2, <2>1, <2>2 DEF ActiveInv, SolutionInv, lvars
  <2>3. CASE irs' = "running" /\ ActiveInv' /\ Linked(Here, Here') /\ FromInsn(Here')
    <3>1. Here'.pc = Here.pc + 1 /\ Here'.pc \in Pcs(prog)
      BY <2>1, <2>3 DEF Linked, Completes, FromInsn
    <3> QED
      BY <1>2, <1>3, <2>1, <2>3, <3>1, StepSuccessors, SolutionPropagates, BranchKeepsRegisters
         DEF SolutionInv, Unmapped
  <2> QED
    BY <2>1, <2>2, <2>3, FollowingFacts
<1>8. CASE BranchTaken
  <2>1. /\ irs = "running" /\ GoTo(LabelOf(Here.target), 1) /\ UNCHANGED <<vvars, lvars>>
        /\ Here.op \in {"branch", "jump"} /\ defined' = defined
    BY <1>8 DEF BranchTaken
  <2>2. /\ irs' = "running" /\ ActiveInv'
        /\ Here'.pc = Target(prog, Here.pc) /\ Target(prog, Here.pc) \in Pcs(prog)
    BY <2>1, BranchFacts
  <2> QED
    BY <1>2, <1>3, <2>1, <2>2, StepSuccessors, SolutionPropagates, BranchKeepsRegisters
       DEF SolutionInv, Unmapped
<1>9. CASE PushFrame \/ PopFrame
  <2>1. /\ irs = "running" /\ GoTo(Following[1], Following[2]) /\ UNCHANGED <<vvars, lvars>>
        /\ Here.op \in {"prologue", "epilogue"} /\ defined' = defined
    BY <1>9 DEF PushFrame, PopFrame
  <2>2. irs' = "running" /\ ActiveInv' /\ Linked(Here, Here')
    BY <2>1, FollowingFacts DEF Completes
  <2>3. Here'.pc = Here.pc
    BY <2>1, <2>2 DEF Linked
  <2> QED
    BY <1>2, <1>3, <2>1, <2>2, <2>3 DEF SolutionInv, Unmapped
<1>10. CASE Ret
  BY <1>2, <1>10 DEF Ret, ActiveInv, SolutionInv, lvars
<1>11. CASE UNCHANGED irvars
  <2>1. Here' = Here /\ UNCHANGED <<vvars, lvars, mvars>>
    BY <1>11 DEF irvars, mvars, lvars, Here, NodeAt
  <2> QED
    BY <1>2, <1>3, <2>1 DEF ActiveInv, SolutionInv, Unmapped, mvars, lvars
<1> QED
  BY <1>4, <1>5, <1>6, <1>7, <1>8, <1>9, <1>10, <1>11 DEF IrNext

(* so it always holds.                                                     *)
LEMMA IrInvariant == IrSpec => []IrInv
BY IrStart, IrStep, PTL DEF IrSpec

(* The operands a node names have been given values: what the verifier     *)
(* checks of an eBPF register is true of its image.                        *)
LEMMA NodeOperandsDefined == IrInv => (irs = "running" => NodeOperands(Here) \subseteq defined)
<1> SUFFICES ASSUME IrInv, irs = "running" PROVE NodeOperands(Here) \subseteq defined
  OBVIOUS
<1> DEFINE p == Here.pc
           i == At(prog, p)
<1>1. /\ i \in Insn /\ i.kind # "tailcall" /\ p \in Pcs(prog) /\ In(p) \subseteq Unmapped(defined)
      /\ VerifierInv /\ TailCallFree(prog) /\ result.verdict = "Ok"
  BY HereFacts, LoweredFacts DEF IrInv, SolutionInv, LoweringInv, LeadersRight
<1>2. Reads(i) \subseteq In(p)
  BY <1>1, AcceptedAllChecked DEF Passes
<1>3. \A r \in Reads(i) : r \in Regs /\ Phys(r) \in defined
  BY <1>1, <1>2 DEF Unmapped
<1>4. CASE Here.op \in {"prologue", "epilogue"}
  BY <1>4 DEF NodeOperands
<1>5. CASE Here.op = "ret"
  <2>1. i.kind = "exit"
    BY <1>5, NodeKinds DEF IrInv
  <2>2. Phys(R0) \in defined
    BY <1>3, <2>1 DEF Reads
  <2> QED
    BY <1>5, <2>2 DEF NodeOperands
<1>6. CASE Here.op \notin {"prologue", "epilogue", "ret"}
  <2>1. i.kind # "exit" /\ Here = Translated(i, p)
    BY <1>6, NodeKinds DEF IrInv
  <2> HIDE DEF p, i
  <2>2. NodeOperands(Here) \subseteq {Phys(r) : r \in Reads(i) \cap Regs}
    <3> DEFINE x == Translated(i, p)
    <3>1. NodeOperands(x) \subseteq {Phys(r) : r \in Reads(i) \cap Regs}
      BY <1>1, <2>1, TranslatedFacts
    <3>2. Here = x
      BY <2>1
    <3> QED
      BY <3>1, <3>2
  <2> QED
    BY <1>3, <2>2
<1> QED
  BY <1>4, <1>5, <1>6

----------------------------------------------------------------------------
(* The lowered program implements the verified one.                        *)

(* Where the abstract run is, and what is defined there.                   *)
SeenPc == IF irs = "idle" THEN 0 ELSE Here.pc

(* Initial states of the lowered run are initial states of the eBPF run.   *)
LEMMA RefinesInit == IrInit => Source!RunInit
<1> SUFFICES ASSUME IrInit PROVE Source!RunInit
  OBVIOUS
<1>1. Source!Init
  BY SourceInit DEF IrInit, LowerInit
<1> QED
  BY <1>1 DEF IrInit, Source!RunInit

(* Every step of the lowered run is a step of the eBPF run, or none.       *)
LEMMA RefinesStep ==
  ASSUME IrInv, [IrNext]_irvars
  PROVE  [Source!RunNext]_(Source!allvars)
<1> USE DEF IrInv
<1>u. ASSUME UNCHANGED <<vvars, irs, defined>>, SeenPc' = SeenPc
      PROVE  UNCHANGED Source!allvars
  BY <1>u, SourceOperators DEF SeenPc, Source!allvars, Source!evars, Source!vvars, vvars
<1>1. CASE LowerNext /\ UNCHANGED mvars
  <2>1. irs = "idle" /\ irs' = "idle" /\ UNCHANGED <<irs, defined>> /\ SeenPc' = SeenPc
    BY <1>1, LoweredStays DEF mvars, SeenPc
  <2>2. CASE Next
    BY <2>1, <2>2, SourceNext DEF Source!RunNext, Source!Verify, Source!evars
  <2>3. CASE FindLeaders \/ LowerLeader \/ LowerInBlock \/ Flush
    <3>1. UNCHANGED vvars
      BY <2>3 DEF FindLeaders, LowerLeader, LowerInBlock, Flush
    <3> QED
      BY <1>u, <2>1, <3>1
  <2> QED
    BY <1>1, <2>2, <2>3 DEF LowerNext
<1>2. CASE StartIr
  <2>1. Here'.pc = 0 /\ result.verdict = "Ok" /\ phase = "done"
    BY <1>2, EntryFacts, LoweredFacts DEF StartIr
  <2>2. {r \in Regs : Phys(r) \in defined'} = EntryRegs
    BY <1>2, PhysFacts DEF StartIr, EntryRegs, R1, R10, Regs, NUM_REGS
  <2>3. irs = "idle" /\ irs' = "running" /\ UNCHANGED Source!vvars
    BY <1>2, SourceOperators DEF StartIr, vvars, Source!vvars
  <2>4. Source!StartRun
    BY <2>1, <2>2, <2>3, SourceOperators DEF Source!StartRun
  <2> QED
    BY <2>4 DEF Source!RunNext
<1>3. ASSUME irs = "running", irs' = "running", UNCHANGED <<vvars, lvars>>,
             Here.op \notin {"prologue", "epilogue", "ret"},
             Here'.pc \in ExecSuccessors(prog, Here.pc), Here'.pc \in Pcs(prog),
             defined' = (defined \ IrClobbers(Here)) \cup IrDefines(Here)
      PROVE  Source!Step
  <2> DEFINE i == At(prog, Here.pc)
             x == Translated(i, Here.pc)
  <2>1. i \in Insn /\ i.kind \notin {"exit", "tailcall"} /\ Here = x
    BY <1>3, HereFacts, NodeKinds
  <2> HIDE DEF i, x
  <2>2. Unmapped((defined \ IrClobbers(x)) \cup IrDefines(x))
          = (Unmapped(defined) \ Source!Clobbers(i)) \cup Source!Defines(i)
    BY <2>1, TranslatedFacts DEF x
  <2>3. Unmapped(defined') = (Unmapped(defined) \ Source!Clobbers(i)) \cup Source!Defines(i)
    BY <1>3, <2>1, <2>2
  <2>4. UNCHANGED Source!vvars /\ irs' = irs
    BY <1>3, SourceOperators DEF vvars, Source!vvars
  <2>5. Source!At(prog, Here.pc) = i
    BY SourceOperators DEF i
  <2>6. Here'.pc \in Source!ExecSuccessors(prog, Here.pc) /\ Here'.pc \in Source!Pcs(prog)
    BY <1>3, SourceOperators
  <2>7. {r \in Regs : Phys(r) \in defined'}
          = ({r \in Regs : Phys(r) \in defined} \ Source!Clobbers(i)) \cup Source!Defines(i)
    BY <2>3 DEF Unmapped
  <2> QED
    BY <1>3, <2>4, <2>5, <2>6, <2>7 DEF Source!Step
<1>4. ASSUME irs = "running", irs' = "left", UNCHANGED <<vvars, lvars, blk, idx, defined>>,
             Here.pc + 1 \in ExecSuccessors(prog, Here.pc), Here.pc = N - 1
      PROVE  Source!Leave
  <2>1. Here' = Here /\ UNCHANGED Source!vvars
    BY <1>4, SourceOperators DEF vvars, lvars, Source!vvars, Here, NodeAt
  <2>2. Here.pc + 1 \notin Pcs(prog)
    BY <1>4, ProgFacts DEF LoweringInv, VerifierInv, StructInv
  <2>3. Here.pc + 1 \in Source!ExecSuccessors(prog, Here.pc) /\ Here.pc + 1 \notin Source!Pcs(prog)
    BY <1>4, <2>2, SourceOperators
  <2> QED
    BY <1>4, <2>1, <2>3 DEF Source!Leave
<1>5. CASE Straight \/ BranchNotTaken
  <2>1. /\ irs = "running" /\ GoTo(Following[1], Following[2]) /\ UNCHANGED <<vvars, lvars>>
        /\ Here.op \notin {"prologue", "epilogue", "ret", "jump"}
        /\ irs' # "left" => defined' = (defined \ IrClobbers(Here)) \cup IrDefines(Here)
        /\ irs' = "left" => defined' = defined
    BY <1>5, BranchKeepsRegisters DEF Straight, BranchNotTaken
  <2>2. Here.pc + 1 \in ExecSuccessors(prog, Here.pc)
    BY <2>1, StepSuccessors
  <2>3. CASE irs' = "left" /\ UNCHANGED <<blk, idx>> /\ Completes(Here) /\ Here.pc = N - 1
    BY <1>4, <2>1, <2>2, <2>3 DEF Source!RunNext
  <2>4. CASE irs' = "running" /\ ActiveInv' /\ Linked(Here, Here') /\ FromInsn(Here')
    <3>1. Here'.pc = Here.pc + 1 /\ Here'.pc \in Pcs(prog)
      BY <2>1, <2>4 DEF Linked, Completes, FromInsn
    <3> QED
      BY <1>3, <2>1, <2>2, <2>4, <3>1 DEF Source!RunNext
  <2> QED
    BY <2>1, <2>3, <2>4, FollowingFacts
<1>6. CASE BranchTaken
  <2>1. /\ irs = "running" /\ GoTo(LabelOf(Here.target), 1) /\ UNCHANGED <<vvars, lvars>>
        /\ Here.op \in {"branch", "jump"}
        /\ defined' = (defined \ IrClobbers(Here)) \cup IrDefines(Here)
    BY <1>6, BranchKeepsRegisters DEF BranchTaken
  <2>2. /\ irs' = "running" /\ Here'.pc = Target(prog, Here.pc) /\ Target(prog, Here.pc) \in Pcs(prog)
    BY <2>1, BranchFacts
  <2> QED
    BY <1>3, <2>1, <2>2, StepSuccessors DEF Source!RunNext
<1>7. CASE PushFrame \/ PopFrame
  <2>1. /\ irs = "running" /\ GoTo(Following[1], Following[2]) /\ UNCHANGED <<vvars, lvars>>
        /\ Here.op \in {"prologue", "epilogue"} /\ defined' = defined
    BY <1>7 DEF PushFrame, PopFrame
  <2>2. irs' = "running" /\ Linked(Here, Here')
    BY <2>1, FollowingFacts DEF Completes
  <2>3. SeenPc' = SeenPc
    BY <2>1, <2>2 DEF Linked, SeenPc
  <2> QED
    BY <1>u, <2>1, <2>2, <2>3
<1>8. CASE Ret
  <2>1. irs = "running" /\ irs' = "halted" /\ UNCHANGED <<vvars, lvars, blk, idx, defined>>
        /\ Here.op = "ret"
    BY <1>8 DEF Ret
  <2>2. At(prog, Here.pc).kind = "exit"
    BY <2>1, NodeKinds
  <2>3. Here' = Here /\ UNCHANGED Source!vvars
    BY <2>1, SourceOperators DEF vvars, lvars, Source!vvars, Here, NodeAt
  <2>4. Source!ExecSuccessors(prog, Here.pc) = {}
    BY <2>2, SourceOperators DEF ExecSuccessors
  <2> QED
    BY <2>1, <2>3, <2>4 DEF Source!Halt, Source!RunNext
<1>9. CASE UNCHANGED irvars
  <2>1. Here' = Here /\ UNCHANGED <<vvars, irs, defined>>
    BY <1>9 DEF irvars, mvars, lvars, Here, NodeAt
  <2>2. SeenPc' = SeenPc
    BY <2>1 DEF SeenPc
  <2> QED
    BY <1>u, <2>1, <2>2
<1> QED
  BY <1>1, <1>2, <1>5, <1>6, <1>7, <1>8, <1>9 DEF IrNext

(* A run of the lowered program, seen through the register map and the     *)
(* nodes' origins, is a run of the verified eBPF program.                  *)
THEOREM LoweredRunsAsVerified == IrSpec => ImplementsVerifiedRun
<1>1. IrInit => Source!RunInit
  BY RefinesInit
<1>2. IrInv /\ [IrNext]_irvars => [Source!RunNext]_(Source!allvars)
  BY RefinesStep
<1> QED
  BY <1>1, <1>2, IrInvariant, PTL DEF IrSpec, ImplementsVerifiedRun, Source!RunSpec

----------------------------------------------------------------------------
(* One frame, and none left.                                               *)

(* The first node of an instruction, when the program has a frame.         *)
LEMMA FirstNodeFacts ==
  ASSUME TypeOK, LeadersRight, frameSize \in Nat, frameSize > 0, NEW p \in Pcs(prog)
  PROVE  /\ Lowered(p)[1].op \notin {"prologue", "ret"}
         /\ p # 0 => NewNodes(p)[1] = Lowered(p)[1]
         /\ p = 0 => NewNodes(p)[1] = Bare("prologue", p)
<1> DEFINE i == At(prog, p)
           t == Translated(i, p)
           e == Bare("epilogue", p)
           r == Bare("ret", p)
           a == Bare("prologue", p)
<1>1. i \in Insn /\ i.kind # "tailcall"
  BY ProgFacts DEF LeadersRight, TailCallFree
<1>2. e.op = "epilogue" /\ (i.kind # "exit" => t.op \notin {"prologue", "ret"})
  BY <1>1, TranslatedFacts DEF Bare, Node
<1>3. Lowered(p) = IF i.kind = "exit" THEN <<e, r>> ELSE <<t>>
  BY <1>1 DEF Lowered, ExitNodes
<1>4. PrologueAt(p) = IF p = 0 THEN <<a>> ELSE <<>>
  BY DEF PrologueAt
<1>5. /\ Lowered(p) \in Seq({e, r, t, a}) /\ PrologueAt(p) \in Seq({e, r, t, a})
      /\ Len(Lowered(p)) > 0
  <2> HIDE DEF e, r, t, a
  <2>1. Lowered(p) = <<e, r>> \/ Lowered(p) = <<t>>
    BY <1>3
  <2>2. PrologueAt(p) = <<a>> \/ PrologueAt(p) = <<>>
    BY <1>4
  <2>3. <<e, r>> \in Seq({e, r, t, a}) /\ <<t>> \in Seq({e, r, t, a}) /\ <<a>> \in Seq({e, r, t, a})
    OBVIOUS
  <2>4. <<>> \in Seq({e, r, t, a})
    BY EmptySeq
  <2>5. Len(<<e, r>>) = 2 /\ Len(<<t>>) = 1
    OBVIOUS
  <2>6. Lowered(p) \in Seq({e, r, t, a})
    BY <2>1, <2>3, Zenon
  <2>7. PrologueAt(p) \in Seq({e, r, t, a})
    BY <2>2, <2>3, <2>4, Zenon
  <2>8. Len(Lowered(p)) = 2 \/ Len(Lowered(p)) = 1
    BY <2>1, <2>5, Zenon
  <2> QED
    BY <2>6, <2>7, <2>8, SMTT(20)
<1>6. p # 0 => NewNodes(p)[1] = Lowered(p)[1]
  BY <1>4, <1>5, ConcatEmptySeq DEF NewNodes
<1>7. p = 0 => NewNodes(p)[1] = a
  <2> SUFFICES ASSUME p = 0 PROVE NewNodes(p)[1] = a
    OBVIOUS
  <2>1. Len(PrologueAt(p)) = 1 /\ PrologueAt(p)[1] = a
    BY <1>4
  <2>2. (PrologueAt(p) \o Lowered(p))[1] = PrologueAt(p)[1]
    BY <1>5, <2>1
  <2> QED
    BY <2>1, <2>2 DEF NewNodes
<1>8. Lowered(p)[1] = IF i.kind = "exit" THEN e ELSE t
  BY <1>3
<1> QED
  BY <1>2, <1>6, <1>7, <1>8

(* A block begins with all the nodes of an instruction.                    *)
LEMMA BlockStarts ==
  ASSUME LoweringInv, stage = "lowered", NEW k \in DOMAIN blocks
  PROVE  blocks[k].nodes[1] = NewNodes(blocks[k].nodes[1].pc)[1]
<1>1. k \in 1 .. Segments /\ Segments \in Nat /\ Segment(k) = blocks[k].nodes
  BY LoweredFacts
<1>2. CASE k = 1
  <2>1. Segment(1)[1] = NewNodes(0)[1]
    BY <1>1, <1>2 DEF LoweringInv, LayoutInv
  <2>2. NewNodes(0)[1].pc = 0
    <3>1. TypeOK /\ LeadersRight /\ frameSize \in Nat /\ 0 \in Pcs(prog)
      BY LoweredFacts DEF LoweringInv, VerifierInv, StructInv, LowerInv, LoweringTypeOK
    <3> QED
      BY <3>1, NewNodesFacts
  <2> QED
    BY <1>1, <1>2, <2>1, <2>2
<1>3. CASE k # 1
  <2>1. k - 1 \in 1 .. Segments /\ k - 1 < Segments /\ (k - 1) + 1 = k
    BY <1>1, <1>3
  <2>2. Linked(Final(Segment(k - 1)), Segment(k)[1]) /\ Completes(Final(Segment(k - 1)))
    BY <2>1 DEF LoweringInv, LayoutInv, Laid
  <2> QED
    BY <1>1, <2>2 DEF Linked, Completes
<1> QED
  BY <1>2, <1>3

(* The frames pushed, while the program runs and before.                   *)
DepthInv == BodyRunsInOneFrame /\ (irs = "idle" => depth = 0)

(* The frame between prologue and epilogue is open exactly once.           *)
LEMMA DepthStep == IrInv /\ DepthInv /\ [IrNext]_irvars => DepthInv'
<1> SUFFICES ASSUME IrInv, DepthInv, [IrNext]_irvars PROVE DepthInv'
  OBVIOUS
<1> USE DEF IrInv
<1>a. UNCHANGED vvars => EntryIsNotATarget' = EntryIsNotATarget
  BY DEF vvars, EntryIsNotATarget
<1>b. frameSize \in Nat /\ TypeOK /\ (stage = "lowered" => LeadersRight)
  BY LoweredFacts DEF LoweringInv, LowerInv, LoweringTypeOK, VerifierInv, StructInv
<1>c. ASSUME UNCHANGED <<vvars, lvars>>, irs' = "running", EntryIsNotATarget, stage = "lowered",
             Here' = NewNodes(Here'.pc)[1], Here'.pc \in Pcs(prog), Here'.pc # 0,
             depth = IF frameSize > 0 THEN 1 ELSE 0, depth' = depth
      PROVE  depth' = IF frameSize' > 0 /\ Here'.op \notin {"prologue", "ret"} THEN 1 ELSE 0
  <2>1. CASE frameSize > 0
    <3>1. Here'.op \notin {"prologue", "ret"}
      BY <1>b, <1>c, <2>1, FirstNodeFacts
    <3> QED
      BY <1>c, <2>1, <3>1 DEF lvars
  <2> QED
    BY <1>c, <2>1 DEF lvars
<1>d. ASSUME UNCHANGED vvars, EntryIsNotATarget =>
               depth' = IF frameSize' > 0 /\ Here'.op \notin {"prologue", "ret"} THEN 1 ELSE 0,
             irs' # "idle"
      PROVE  DepthInv'
  BY <1>a, <1>d DEF DepthInv, BodyRunsInOneFrame
<1>e. irs = "running" /\ EntryIsNotATarget =>
        depth = IF frameSize > 0 /\ Here.op \notin {"prologue", "ret"} THEN 1 ELSE 0
  BY DEF DepthInv, BodyRunsInOneFrame
<1>1. CASE LowerNext /\ UNCHANGED mvars
  <2>1. irs = "idle" /\ irs' = "idle" /\ depth' = depth
    BY <1>1, LoweredStays DEF mvars
  <2> QED
    BY <2>1 DEF DepthInv, BodyRunsInOneFrame
<1>2. CASE StartIr
  <2>1. /\ Here' = NewNodes(0)[1] /\ depth = 0 /\ depth' = 0 /\ stage = "lowered"
        /\ UNCHANGED <<vvars, lvars>> /\ irs' = "running"
    BY <1>2, EntryFacts DEF StartIr, DepthInv
  <2>2. 0 \in Pcs(prog)
    BY <2>1, LoweredFacts
  <2>3. frameSize > 0 => Here'.op = "prologue"
    <3>1. Bare("prologue", 0).op = "prologue"
      BY DEF Bare, Node
    <3>2. frameSize > 0 => NewNodes(0)[1] = Bare("prologue", 0)
      BY <1>b, <2>1, <2>2, FirstNodeFacts
    <3> QED
      BY <2>1, <3>1, <3>2
  <2> QED
    BY <1>d, <2>1, <2>3 DEF lvars
<1>3. CASE Straight \/ BranchNotTaken
  <2>1. /\ irs = "running" /\ GoTo(Following[1], Following[2]) /\ UNCHANGED <<vvars, lvars>>
        /\ Here.op \notin {"prologue", "epilogue", "ret"} /\ depth' = depth
    BY <1>3 DEF Straight, BranchNotTaken
  <2>2. CASE irs' = "left" /\ UNCHANGED <<blk, idx>>
    BY <1>a, <2>1, <2>2 DEF DepthInv, BodyRunsInOneFrame
  <2>3. CASE irs' = "running" /\ ActiveInv' /\ Linked(Here, Here') /\ FromInsn(Here')
    <3>1. /\ Here' = NewNodes(Here'.pc)[1] /\ Here'.pc \in Pcs(prog) /\ Here'.pc # 0
          /\ stage = "lowered"
      <4>1. Here'.pc = Here.pc + 1 /\ Here.pc \in Nat /\ stage = "lowered"
        BY <2>1, <2>3, HereFacts DEF Linked, Completes
      <4> QED
        BY <2>1, <2>3, <4>1 DEF Linked, Completes, FromInsn
    <3> QED
      BY <1>c, <1>d, <1>e, <2>1, <2>3, <3>1
  <2> QED
    BY <2>1, <2>2, <2>3, FollowingFacts
<1>4. CASE BranchTaken
  <2>1. /\ irs = "running" /\ GoTo(LabelOf(Here.target), 1) /\ UNCHANGED <<vvars, lvars>>
        /\ Here.op \in {"branch", "jump"} /\ depth' = depth
    BY <1>4 DEF BranchTaken
  <2>2. /\ irs' = "running" /\ ActiveInv' /\ idx' = 1
        /\ Here'.pc = Target(prog, Here.pc) /\ Target(prog, Here.pc) \in Pcs(prog)
    BY <2>1, BranchFacts
  <2>3. Here' = NewNodes(Here'.pc)[1] /\ stage = "lowered"
    <3>1. stage = "lowered" /\ blk' \in DOMAIN blocks /\ Here' = blocks[blk'].nodes[1]
      BY <2>1, <2>2 DEF ActiveInv, Here, NodeAt, lvars
    <3> QED
      BY <3>1, BlockStarts
  <2>4. EntryIsNotATarget => Target(prog, Here.pc) # 0
    <3>1. IsBranch(At(prog, Here.pc)) /\ Here.pc \in Pcs(prog)
      <4>1. /\ At(prog, Here.pc) \in Insn /\ At(prog, Here.pc).kind \notin {"exit", "tailcall"}
            /\ Here.pc \in Pcs(prog) /\ Here = Translated(At(prog, Here.pc), Here.pc)
        BY <2>1, HereFacts, NodeKinds
      <4>2. TargetsBlock(Here)
        BY <2>1 DEF LoweringInv, LowerInv, TargetsInv, Here, NodeAt, ActiveInv
      <4> QED
        BY <2>1, <4>1, <4>2 DEF TargetsBlock
    <3> QED
      BY <3>1 DEF EntryIsNotATarget
  <2> QED
    BY <1>c, <1>d, <1>e, <2>1, <2>2, <2>3, <2>4
<1>5. CASE PushFrame
  <2>1. /\ irs = "running" /\ GoTo(Following[1], Following[2]) /\ UNCHANGED <<vvars, lvars>>
        /\ Here.op = "prologue" /\ depth' = depth + 1
    BY <1>5 DEF PushFrame
  <2>2. irs' = "running" /\ Linked(Here, Here') /\ stage = "lowered"
    BY <2>1, FollowingFacts DEF Completes, ActiveInv
  <2>3. Here' = Lowered(0)[1] /\ frameSize > 0 /\ 0 \in Pcs(prog)
    BY <2>1, <2>2, NodeKinds, HereFacts DEF Linked
  <2>4. Here'.op \notin {"prologue", "ret"}
    BY <1>b, <2>2, <2>3, FirstNodeFacts
  <2>5. EntryIsNotATarget => depth' = 1
    BY <1>e, <2>1
  <2> QED
    BY <1>d, <2>1, <2>2, <2>3, <2>4, <2>5 DEF lvars
<1>6. CASE PopFrame
  <2>1. /\ irs = "running" /\ GoTo(Following[1], Following[2]) /\ UNCHANGED <<vvars, lvars>>
        /\ Here.op = "epilogue" /\ depth' = depth - 1
    BY <1>6 DEF PopFrame
  <2>2. irs' = "running" /\ Linked(Here, Here')
    BY <2>1, FollowingFacts DEF Completes
  <2>3. Here'.op = "ret" /\ frameSize > 0
    BY <2>1, <2>2, NodeKinds DEF Linked, Bare, Node
  <2>4. EntryIsNotATarget => depth' = 0
    BY <1>e, <2>1, <2>3
  <2> QED
    BY <1>d, <2>1, <2>2, <2>3, <2>4
<1>7. CASE Ret
  <2>1. /\ irs = "running" /\ irs' = "halted" /\ Here.op = "ret" /\ depth' = depth
        /\ UNCHANGED <<vvars, lvars, blk, idx>>
    BY <1>7 DEF Ret
  <2>2. Here' = Here
    BY <2>1 DEF Here, NodeAt, lvars
  <2> QED
    BY <1>d, <1>e, <2>1, <2>2
<1>8. CASE UNCHANGED irvars
  BY <1>a, <1>8 DEF irvars, lvars, mvars, DepthInv, BodyRunsInOneFrame, Here, NodeAt
<1> QED
  BY <1>1, <1>2, <1>3, <1>4, <1>5, <1>6, <1>7, <1>8 DEF IrNext

(* So it is on every run.                                                  *)
LEMMA DepthInvariant == IrSpec => [](IrInv /\ DepthInv)
<1>1. IrInit => DepthInv
  BY DEF IrInit, DepthInv, BodyRunsInOneFrame
<1> QED
  BY <1>1, DepthStep, IrInvariant, PTL DEF IrSpec

(* In a program that does not branch to its first instruction the body     *)
(* runs in exactly one frame, if the program has one, and the frame is     *)
(* gone when it returns.                                                   *)
THEOREM BodyHasOneFrame == IrSpec => []BodyRunsInOneFrame
<1>1. DepthInv => BodyRunsInOneFrame
  BY DEF DepthInv
<1> QED
  BY <1>1, DepthInvariant, PTL
============================================================================

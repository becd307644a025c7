--------------------------- MODULE LoweringProofs ---------------------------
(***************************************************************************)
(* The lowering is right about its blocks, for every program: the ids that *)
(* pc_to_bb hands out in advance are those the emission loop arrives at.   *)
(* The invariant ties the counter bb_id to the leaders: the block that is  *)
(* open began at the leader whose rank is bb_id, and no leader between it  *)
(* and the next instruction was passed over.                               *)
(***************************************************************************)
EXTENDS Lowering, VerifierProofs, FiniteSetTheorems, SequenceTheorems

----------------------------------------------------------------------------
(* Lemmas about the operators.                                             *)

(* A non-empty bounded set of naturals has a greatest element.             *)
LEMMA GreatestNatural ==
  ASSUME NEW K \in Nat, NEW T, T \subseteq 0 .. K, T # {}
  PROVE  \E m \in T : \A t \in T : t <= m
<1> DEFINE U == {u \in 0 .. K : K - u \in T}
<1>1. U \subseteq Nat /\ U # {}
  <2>1. PICK t \in T : TRUE
    OBVIOUS
  <2>2. K - t \in 0 .. K /\ K - (K - t) = t
    OBVIOUS
  <2>3. K - t \in U
    BY <2>2
  <2>4. U \subseteq Nat
    OBVIOUS
  <2> HIDE DEF U
  <2> QED
    BY <2>3, <2>4
<1>2. PICK u \in U : \A w \in U : u <= w
  <2> HIDE DEF U
  <2> QED BY <1>1, LeastNatural
<1>3. K - u \in T
  BY <1>2
<1>4. ASSUME NEW t \in T PROVE t <= K - u
  <2>1. t \in 0 .. K /\ u \in 0 .. K
    BY <1>2
  <2>2. K - t \in 0 .. K /\ K - (K - t) = t
    BY <2>1
  <2>3. u <= K - t
    BY <2>2, <1>2
  <2> QED
    BY <2>1, <2>3
<1> QED
  BY <1>3, <1>4

(* The frame's size is a number.                                           *)
LEMMA FrameSizeType ==
  ASSUME TypeOK
  PROVE  FrameSize \in Nat
<1> DEFINE insns == {At(prog, p) : p \in Pcs(prog)}
           needs == {0} \cup {(-i.off) % U16 : i \in {j \in insns : FrameAccess(j)}}
<1>1. \A i \in insns : -i.off \in Int
  BY ProgFacts DEF Insn
<1>2. U16 \in Nat /\ U16 > 0
  BY DEF U16
<1>3. \A x \in Int : x % U16 \in 0 .. U16
  BY <1>2
<1>4. needs \subseteq 0 .. U16 /\ needs # {}
  <2> HIDE DEF insns
  <2>1. 0 \in 0 .. U16
    BY <1>2
  <2> QED
    BY <1>1, <1>3, <2>1
<1>5. Deepest(needs) \in Nat
  <2> HIDE DEF needs
  <2>1. \E m \in needs : \A n \in needs : n <= m
    BY <1>2, <1>4, GreatestNatural
  <2>2. Deepest(needs) \in needs
    BY <2>1 DEF Deepest
  <2>3. Deepest(needs) \in 0 .. U16
    BY <2>2, <1>4
  <2> QED
    BY <2>3, <1>2
<1>6. \A n \in Nat : Aligned(n) \in Nat
  BY DEF Aligned
<1>7. FrameSize = Aligned(IF Deepest(needs) < 64 /\ \E i \in insns : NeedsFrame(i)
                          THEN 64 ELSE Deepest(needs))
  BY DEF FrameSize
<1> HIDE DEF insns, needs
<1> QED
  BY <1>5, <1>6, <1>7

(* The id of the block a leader begins, and of the next leader.            *)
LEMMA RankFacts ==
  ASSUME leaders \subseteq Nat, NEW M \in Nat, \A l \in leaders : l < M
  PROVE  /\ IsFiniteSet(leaders)
         /\ \A p \in Int : PcToBb(p) \in Int
         /\ \A p \in Int, l \in leaders : l <= p => PcToBb(p) \in Nat
         /\ \A p \in leaders : \A m \in leaders :
              m < p /\ (\A l \in leaders : l < p => l <= m) => PcToBb(p) = PcToBb(m) + 1
         /\ 0 \in leaders => PcToBb(0) = 0
         /\ \A p \in leaders : (\A l \in leaders : l <= p) => PcToBb(p) = Cardinality(leaders) - 1
<1> DEFINE Upto(p) == {l \in leaders : l <= p}
<1>1. IsFiniteSet(leaders)
  BY FS_BoundedSetOfNaturals
<1>2. \A p : IsFiniteSet(Upto(p)) /\ Cardinality(Upto(p)) \in Nat
  BY <1>1, FS_Subset, FS_CardinalityType
<1>3. \A p : PcToBb(p) = Cardinality(Upto(p)) - 1
  BY DEF PcToBb
<1>4. ASSUME NEW p \in Int, NEW l \in leaders, l <= p
      PROVE  PcToBb(p) \in Nat
  <2>1. Upto(p) # {}
    BY <1>4
  <2>2. Cardinality(Upto(p)) # 0
    <3> HIDE DEF Upto
    <3> QED BY <2>1, <1>2, FS_EmptySet
  <2> HIDE DEF Upto
  <2> QED
    BY <2>2, <1>2, <1>3
<1>5. ASSUME NEW p \in leaders, NEW m \in leaders, m < p, \A l \in leaders : l < p => l <= m
      PROVE  PcToBb(p) = PcToBb(m) + 1
  <2>1. Upto(p) = Upto(m) \cup {p} /\ p \notin Upto(m)
    <3>1. \A l \in leaders : l <= p <=> l <= m \/ l = p
      BY <1>5
    <3>2. ~ (p <= m)
      BY <1>5
    <3> QED
      BY <1>5, <3>1, <3>2
  <2>2. Cardinality(Upto(m) \cup {p}) = Cardinality(Upto(m)) + 1
    <3> HIDE DEF Upto
    <3> QED BY <2>1, <1>2, FS_AddElement
  <2> HIDE DEF Upto
  <2> QED
    BY <2>1, <2>2, <1>2, <1>3
<1>6. ASSUME 0 \in leaders PROVE PcToBb(0) = 0
  <2>1. Upto(0) = {0}
    <3>1. \A l \in leaders : l <= 0 <=> l = 0
      OBVIOUS
    <3> QED
      BY <1>6, <3>1
  <2>2. Cardinality(Upto(0)) = 1
    <3> HIDE DEF Upto
    <3> QED BY <2>1, FS_Singleton
  <2> HIDE DEF Upto
  <2> QED
    BY <2>2, <1>3
<1>7. ASSUME NEW p \in leaders, \A l \in leaders : l <= p
      PROVE  PcToBb(p) = Cardinality(leaders) - 1
  <2>1. Upto(p) = leaders
    BY <1>7
  <2> QED
    BY <2>1, <1>3
<1>8. \A p \in Int : PcToBb(p) \in Int
  <2> HIDE DEF Upto
  <2> QED BY <1>2, <1>3
<1> QED
  BY <1>1, <1>4, <1>5, <1>6, <1>7, <1>8

(* A branch node names the block its instruction branches to.              *)
TargetsBlock(x) ==
  x.op \in {"branch", "jump"} =>
    IsBranch(At(prog, x.pc)) /\ x.target = PcToBb(Target(prog, x.pc))

(* It does so as long as the program and its leaders stay.                 *)
LEMMA TargetsFrame ==
  ASSUME UNCHANGED <<prog, leaders>>
  PROVE  \A x : TargetsBlock(x) => TargetsBlock(x)'
BY DEF TargetsBlock, PcToBb

LeadersRight ==
  /\ TailCallFree(prog)
  /\ leaders \subseteq Pcs(prog) /\ 0 \in leaders
  /\ \A p \in Pcs(prog) : IsBranch(At(prog, p)) => Target(prog, p) \in leaders

(* What one instruction adds: nodes of their type, at least one, all from  *)
(* that instruction.                                                       *)
LEMMA NewNodesFacts ==
  ASSUME TypeOK, LeadersRight, frameSize \in Nat, NEW p \in Pcs(prog)
  PROVE  /\ NewNodes(p) \in Seq(IrNodes) /\ Len(NewNodes(p)) > 0
         /\ \A n \in 1 .. Len(NewNodes(p)) : NewNodes(p)[n].pc = p /\ TargetsBlock(NewNodes(p)[n])
<1> DEFINE i == At(prog, p)
<1>1. i \in Insn /\ i.kind # "tailcall"
  BY ProgFacts DEF LeadersRight, TailCallFree
<1>2. \A r : Phys(r) \in Nat \cup {NoReg}
  BY RegMapAssumption DEF Phys
<1>3. IsBranch(i) => PcToBb(Target(prog, p)) \in Nat
  <2>1. leaders \subseteq Nat /\ N \in Nat /\ \A l \in leaders : l < N
    BY ProgFacts DEF LeadersRight
  <2>2. ASSUME IsBranch(i) PROVE Target(prog, p) \in leaders /\ Target(prog, p) \in Int
    BY <2>2, ProgFacts DEF LeadersRight
  <2>4. \A q \in Int, l \in leaders : l <= q => PcToBb(q) \in Nat
    BY <2>1, RankFacts
  <2>3. \A q \in Int : q \in leaders => PcToBb(q) \in Nat
    BY <2>4
  <2> QED
    BY <2>2, <2>3
<1>4. \A op \in IrOps \ {"branch", "jump"} :
        Bare(op, p) \in IrNodes /\ Bare(op, p).pc = p /\ TargetsBlock(Bare(op, p))
  BY DEF Bare, Node, IrNodes, TargetsBlock
<1>5. ASSUME i.kind # "exit"
      PROVE  /\ Translated(i, p) \in IrNodes /\ Translated(i, p).pc = p
             /\ TargetsBlock(Translated(i, p))
  <2>1. IrOp(i.kind) \in IrOps /\ (IrOp(i.kind) \in {"branch", "jump"} <=> IsBranch(i))
    BY <1>1, <1>5 DEF IrOp, IrOps, Insn, Kinds, IsBranch
  <2> QED
    BY <2>1, <1>2, <1>3 DEF Translated, Node, IrNodes, TargetsBlock
<1>6. /\ Lowered(p) \in Seq(IrNodes) /\ Len(Lowered(p)) > 0
      /\ \A n \in 1 .. Len(Lowered(p)) : Lowered(p)[n].pc = p /\ TargetsBlock(Lowered(p)[n])
  <2>1. CASE i.kind = "exit"
    <3> DEFINE e == Bare("epilogue", p)
               r == Bare("ret", p)
    <3>1. /\ e \in IrNodes /\ e.pc = p /\ TargetsBlock(e)
          /\ r \in IrNodes /\ r.pc = p /\ TargetsBlock(r)
      BY <1>4 DEF IrOps
    <3>2. Lowered(p) = <<e, r>> \/ Lowered(p) = <<r>>
      BY <2>1 DEF Lowered, ExitNodes
    <3> HIDE DEF e, r
    <3>3. CASE Lowered(p) = <<e, r>>
      <4>1. \A n \in 1 .. 2 : <<e, r>>[n] = IF n = 1 THEN e ELSE r
        OBVIOUS
      <4>2. <<e, r>> \in Seq(IrNodes) /\ Len(<<e, r>>) = 2
        BY <3>1
      <4> QED
        BY <3>1, <3>3, <4>1, <4>2
    <3>4. CASE Lowered(p) = <<r>>
      BY <3>1, <3>4
    <3> QED
      BY <3>2, <3>3, <3>4
  <2>2. CASE i.kind # "exit"
    <3>1. Lowered(p) = <<Translated(i, p)>>
      BY <2>2, <1>1 DEF Lowered
    <3> QED
      BY <3>1, <2>2, <1>5
  <2> QED
    BY <2>1, <2>2
<1>7. /\ PrologueAt(p) \in Seq(IrNodes)
      /\ \A n \in 1 .. Len(PrologueAt(p)) :
           PrologueAt(p)[n].pc = p /\ TargetsBlock(PrologueAt(p)[n])
  <2> DEFINE e == Bare("prologue", p)
  <2>1. e \in IrNodes /\ e.pc = p /\ TargetsBlock(e)
    BY <1>4 DEF IrOps
  <2>2. PrologueAt(p) = <<e>> \/ PrologueAt(p) = <<>>
    BY DEF PrologueAt
  <2> HIDE DEF e
  <2>3. CASE PrologueAt(p) = <<e>>
    BY <2>1, <2>3
  <2>4. CASE PrologueAt(p) = <<>>
    BY <2>4, EmptySeq
  <2> QED
    BY <2>2, <2>3, <2>4
<1> HIDE DEF i
<1>8. \A n \in 1 .. Len(NewNodes(p)) :
        \/ n \in 1 .. Len(PrologueAt(p)) /\ NewNodes(p)[n] = PrologueAt(p)[n]
        \/ /\ n - Len(PrologueAt(p)) \in 1 .. Len(Lowered(p))
           /\ NewNodes(p)[n] = Lowered(p)[n - Len(PrologueAt(p))]
  BY <1>6, <1>7 DEF NewNodes
<1>9. NewNodes(p) \in Seq(IrNodes) /\ Len(NewNodes(p)) > 0
  BY <1>6, <1>7 DEF NewNodes
<1> QED
  BY <1>6, <1>7, <1>8, <1>9

----------------------------------------------------------------------------
(* The invariant of the emission loop.                                     *)

First(k) == blocks[k].nodes[1].pc
Open     == current[1].pc

StageInv ==
  /\ stage = "waiting" => lpc = 0 /\ blocks = <<>> /\ current = <<>> /\ bbId = 0
  /\ stage # "waiting" => result.verdict = "Ok" /\ leaders = Leaders
  /\ stage = "lowering" => /\ bbId = Len(blocks)
                           /\ current = <<>> <=> lpc = 0
                           /\ lpc = 0 => blocks = <<>>
  /\ stage = "lowered" => lpc = N /\ current = <<>> /\ Len(blocks) = Cardinality(leaders)

(* Block k began at the leader of rank k, and every leader passed began a  *)
(* block.                                                                  *)
RankInv ==
  /\ \A k \in DOMAIN blocks : First(k) \in leaders /\ PcToBb(First(k)) = k - 1
  /\ current # <<>> => /\ Open \in leaders /\ Open < lpc /\ PcToBb(Open) = bbId
                       /\ \A l \in leaders : l < lpc => l <= Open
  /\ \A l \in leaders : l < lpc =>
       (current # <<>> /\ l = Open) \/ \E k \in DOMAIN blocks : First(k) = l

TargetsInv ==
  /\ \A n \in DOMAIN current : TargetsBlock(current[n])
  /\ \A k \in DOMAIN blocks : \A n \in DOMAIN blocks[k].nodes : TargetsBlock(blocks[k].nodes[n])

LowerInv == TailCallFree(prog) /\ LoweringTypeOK /\ StageInv /\ RankInv /\ TargetsInv

lowerVars == <<vvars, lvars>>

(* The invariant holds before the verdict,                                 *)
LEMMA LowerStart == LowerInit => StructInv /\ LowerInv
<1> SUFFICES ASSUME LowerInit PROVE StructInv /\ LowerInv
  OBVIOUS
<1> USE DEF LowerInit
<1>1. StructInv /\ TailCallFree(prog) /\ N \in Nat
  BY InitStruct, InitProgram, ProgFacts, DecodedAssumption DEF StructInv, Init
<1>2. LoweringTypeOK
  BY <1>1, EmptySeq DEF LoweringTypeOK
<1>3. StageInv /\ RankInv /\ TargetsInv
  BY <1>1 DEF StageInv, RankInv, TargetsInv
<1> QED
  BY <1>1, <1>2, <1>3 DEF LowerInv

(* Of an accepted program, every branch target is a leader.                *)
LEMMA AcceptedLeaders ==
  ASSUME StructInv, TailCallFree(prog), result.verdict = "Ok"
  PROVE  /\ N > 0 /\ Leaders \subseteq Pcs(prog) /\ 0 \in Leaders
         /\ \A p \in Pcs(prog) : IsBranch(At(prog, p)) => Target(prog, p) \in Leaders
         /\ Leaders = starts
<1> USE DEF StructInv
<1>1. prog # <<>> /\ BadBranches = {} /\ starts = BbStarts
  BY DEF CfgInv, Analysing
<1>2. \A p \in Pcs(prog) : IsBranch(At(prog, p)) => Target(prog, p) \in Pcs(prog)
  BY <1>1 DEF BadBranches
<1>3. \A p \in Pcs(prog) : EndsLoweredBlock(At(prog, p)) <=> EndsBlock(At(prog, p))
  BY DEF TailCallFree, EndsLoweredBlock, EndsBlock
<1>4. /\ N \in Nat /\ Pcs(prog) = 0 .. N - 1 /\ 0 \in Pcs(prog)
      /\ \A p \in Pcs(prog) : Target(prog, p) \in Int
  BY <1>1, ProgFacts
<1>5. Leaders = BbStarts
  BY <1>2, <1>3 DEF Leaders, BbStarts
<1> QED
  BY <1>1, <1>4, <1>5, StartFacts

(* The lowering starts after the verdict.                                  *)
LEMMA WaitsForVerdict ==
  ASSUME StructInv, LowerInv, Next
  PROVE  stage = "waiting"
<1>1. phase # "done"
  BY DEF Next, EmptyProgram, BranchOutOfBounds, BuildCfg, StartSweep, BackEdgeBudgetExceeded,
    SkipUnreachable, EnterBlock, RejectWriteToR10, RejectUninitRead, RejectStackOffset,
    CheckInsn, Propagate, EndSweep, Converged, RejectBlock, NoExitInstruction, Accept
<1> QED
  BY <1>1 DEF LowerInv, StageInv, StructInv, CfgInv

(* The verifier's steps leave the lowering in its initial state.           *)
LEMMA VerifyingKeepsLowering ==
  ASSUME StructInv, LowerInv, Next, UNCHANGED lvars
  PROVE  LowerInv'
<1> USE DEF StructInv, LowerInv, lvars
<1>1. stage = "waiting"
  BY WaitsForVerdict
<1>2. UNCHANGED prog
  BY DEF Next, Reject, EmptyProgram, BranchOutOfBounds, BuildCfg, StartSweep, BackEdgeBudgetExceeded,
    SkipUnreachable, EnterBlock, RejectWriteToR10, RejectUninitRead, RejectStackOffset,
    CheckInsn, Propagate, EndSweep, Converged, RejectBlock, NoExitInstruction, Accept, cfgVars
<1>3. LoweringTypeOK'
  BY <1>1, <1>2 DEF LoweringTypeOK, StageInv, IrNodes, N
<1> QED
  BY <1>1, <1>2, <1>3 DEF StageInv, RankInv, TargetsInv, First, Open, PcToBb, N

(* The leaders found, no block is open yet.                                *)
LEMMA FindLeadersStep ==
  ASSUME StructInv, LowerInv, FindLeaders
  PROVE  LowerInv'
<1> USE DEF StructInv, LowerInv, FindLeaders, vvars
<1>1. /\ lpc = 0 /\ blocks = <<>> /\ current = <<>> /\ bbId = 0 /\ result.verdict = "Ok"
      /\ N \in Nat
  BY ProgFacts DEF StageInv
<1>2. leaders' \subseteq Pcs(prog) /\ frameSize' \in Nat
  BY <1>1, AcceptedLeaders, FrameSizeType
<1>3. LoweringTypeOK'
  <2>1. \A k \in DOMAIN blocks' : FALSE
    BY <1>1
  <2>2. current' \in Seq(IrNodes)' /\ blocks' \in Seq([id : Nat, nodes : Seq(IrNodes) \ {<<>>}])'
    BY <1>1, EmptySeq
  <2> QED
    BY <1>1, <1>2, <2>1, <2>2 DEF LoweringTypeOK, N
<1>4. StageInv'
  BY <1>1 DEF StageInv, Leaders, N
<1>5. \A l \in leaders' : ~ (l < 0)
  BY <1>2, ProgFacts
<1>6. RankInv' /\ TargetsInv'
  BY <1>1, <1>5 DEF RankInv, TargetsInv
<1> QED
  BY <1>3, <1>4, <1>6

(* What every step of the loop starts from.                                *)
LEMMA LoopFacts ==
  ASSUME StructInv, LowerInv, stage = "lowering"
  PROVE  /\ N \in Nat /\ N > 0 /\ Pcs(prog) = 0 .. N - 1 /\ lpc \in 0 .. N
         /\ LeadersRight /\ leaders = starts /\ leaders \subseteq Nat /\ \A l \in leaders : l < N
         /\ Len(blocks) \in Nat /\ bbId = Len(blocks) /\ DOMAIN blocks = 1 .. Len(blocks)
         /\ current \in Seq(IrNodes) /\ DOMAIN current = 1 .. Len(current)
         /\ current # <<>> => Len(current) > 0
         /\ blocks \in Seq([id : Nat, nodes : Seq(IrNodes) \ {<<>>}])
<1> USE DEF StructInv, LowerInv
<1>1. result.verdict = "Ok" /\ leaders = Leaders
  BY DEF StageInv
<1>2. N \in Nat /\ Pcs(prog) = 0 .. N - 1 /\ N > 0 /\ LeadersRight /\ leaders = starts
  BY <1>1, AcceptedLeaders, ProgFacts DEF LeadersRight
<1>3. leaders \subseteq Nat /\ \A l \in leaders : l < N
  BY <1>2 DEF LeadersRight
<1>4. /\ lpc \in 0 .. N /\ bbId = Len(blocks)
      /\ blocks \in Seq([id : Nat, nodes : Seq(IrNodes) \ {<<>>}]) /\ current \in Seq(IrNodes)
  BY DEF LoweringTypeOK, StageInv
<1>5. Len(blocks) \in Nat /\ DOMAIN blocks = 1 .. Len(blocks)
  BY <1>4
<1>6. DOMAIN current = 1 .. Len(current) /\ (current # <<>> => Len(current) > 0)
  BY <1>4
<1> QED
  BY <1>2, <1>3, <1>4, <1>5, <1>6

Began(k) == blocks'[k].nodes[1].pc

(* Closing the open block: it gets the next number, and it began at the    *)
(* leader of that rank.                                                    *)
LEMMA CloseBlock ==
  ASSUME StructInv, LowerInv, stage = "lowering", current # <<>>, UNCHANGED <<prog, leaders>>,
         blocks' = Append(blocks, [id |-> bbId, nodes |-> current])
  PROVE  /\ blocks' \in Seq([id : Nat, nodes : Seq(IrNodes) \ {<<>>}])'
         /\ Len(blocks') = Len(blocks) + 1 /\ DOMAIN blocks' = 1 .. Len(blocks) + 1
         /\ \A k \in DOMAIN blocks' :
              /\ blocks'[k].id = k - 1
              /\ Began(k) \in leaders /\ PcToBb(Began(k)) = k - 1
              /\ \A n \in DOMAIN blocks'[k].nodes : TargetsBlock(blocks'[k].nodes[n])
         /\ \A l \in leaders : l < lpc => \E k \in DOMAIN blocks' : Began(k) = l
<1> DEFINE b == [id |-> bbId, nodes |-> current]
           B == [id : Nat, nodes : Seq(IrNodes) \ {<<>>}]
<1>1. /\ Len(blocks) \in Nat /\ bbId = Len(blocks) /\ DOMAIN blocks = 1 .. Len(blocks)
      /\ current \in Seq(IrNodes) /\ blocks \in Seq(B)
  BY LoopFacts
<1>2. b \in B /\ b.id = Len(blocks) /\ b.nodes = current
  BY <1>1
<1>3. B' = B
  BY DEF IrNodes, N
<1>4. blocks' = Append(blocks, b)
  OBVIOUS
<1> HIDE DEF b, B
<1>5. /\ blocks' \in Seq(B) /\ Len(blocks') = Len(blocks) + 1 /\ DOMAIN blocks' = 1 .. Len(blocks) + 1
      /\ \A k \in 1 .. Len(blocks) : blocks'[k] = blocks[k]
      /\ blocks'[Len(blocks) + 1] = b
  BY <1>1, <1>2, <1>4
<1>6. /\ \A k \in 1 .. Len(blocks) : Began(k) = First(k)
      /\ Began(Len(blocks) + 1) = Open
  BY <1>2, <1>5 DEF First, Open, Began
<1>7. ASSUME NEW k \in DOMAIN blocks'
      PROVE  /\ blocks'[k].id = k - 1
             /\ Began(k) \in leaders /\ PcToBb(Began(k)) = k - 1
             /\ \A n \in DOMAIN blocks'[k].nodes : TargetsBlock(blocks'[k].nodes[n])
  <2>1. CASE k \in 1 .. Len(blocks)
    BY <2>1, <1>1, <1>5, <1>6 DEF LowerInv, LoweringTypeOK, RankInv, TargetsInv
  <2>2. CASE k = Len(blocks) + 1
    <3>1. Open \in leaders /\ PcToBb(Open) = Len(blocks)
      BY <1>1 DEF LowerInv, RankInv
    <3>2. \A n \in DOMAIN current : TargetsBlock(current[n])
      BY DEF LowerInv, TargetsInv
    <3> QED
      BY <2>2, <3>1, <3>2, <1>1, <1>2, <1>5, <1>6
  <2> QED
    BY <1>1, <1>5, <2>1, <2>2
<1>8. ASSUME NEW l \in leaders, l < lpc
      PROVE  \E k \in DOMAIN blocks' : Began(k) = l
  <2>1. CASE l = Open
    BY <2>1, <1>1, <1>5, <1>6
  <2>2. ASSUME NEW k \in DOMAIN blocks, First(k) = l
        PROVE  k \in DOMAIN blocks' /\ Began(k) = l
    BY <2>2, <1>1, <1>5, <1>6
  <2> QED
    BY <1>8, <2>1, <2>2 DEF LowerInv, RankInv
<1> QED
  BY <1>3, <1>5, <1>7, <1>8 DEF B

(* an instruction that begins a block keeps it,                            *)
LEMMA LowerLeaderStep ==
  ASSUME StructInv, LowerInv, LowerLeader
  PROVE  LowerInv'
<1> USE DEF LowerLeader, vvars
<1> DEFINE s == NewNodes(lpc)
<1>1. /\ stage = "lowering" /\ lpc \in leaders /\ current # <<>> /\ lpc \in Pcs(prog) /\ lpc \in Nat
      /\ N \in Nat /\ lpc < N /\ Len(blocks) \in Nat /\ bbId = Len(blocks)
      /\ LeadersRight /\ leaders \subseteq Nat /\ \A l \in leaders : l < N
  BY LoopFacts
<1>2. /\ s \in Seq(IrNodes) /\ Len(s) > 0 /\ DOMAIN s = 1 .. Len(s)
      /\ \A n \in 1 .. Len(s) : s[n].pc = lpc /\ TargetsBlock(s[n])
  BY <1>1, NewNodesFacts DEF StructInv, LowerInv, LoweringTypeOK
<1>3. /\ blocks' \in Seq([id : Nat, nodes : Seq(IrNodes) \ {<<>>}])'
      /\ Len(blocks') = Len(blocks) + 1 /\ DOMAIN blocks' = 1 .. Len(blocks) + 1
      /\ \A k \in DOMAIN blocks' :
           /\ blocks'[k].id = k - 1
           /\ Began(k) \in leaders /\ PcToBb(Began(k)) = k - 1
           /\ \A n \in DOMAIN blocks'[k].nodes : TargetsBlock(blocks'[k].nodes[n])
      /\ \A l \in leaders : l < lpc => \E k \in DOMAIN blocks' : Began(k) = l
  BY <1>1, CloseBlock
<1>4. current' = s /\ s # <<>> /\ s[1].pc = lpc
  BY <1>2
<1>5. PcToBb(lpc) = bbId + 1
  <2>1. Open \in leaders /\ Open < lpc /\ PcToBb(Open) = bbId /\ \A l \in leaders : l < lpc => l <= Open
    BY <1>1 DEF LowerInv, RankInv
  <2>2. \A p \in leaders : \A m \in leaders :
          m < p /\ (\A l \in leaders : l < p => l <= m) => PcToBb(p) = PcToBb(m) + 1
    BY <1>1, RankFacts
  <2> QED
    BY <1>1, <2>1, <2>2
<1> HIDE DEF s
<1>6. LoweringTypeOK'
  <2>1. IrNodes' = IrNodes /\ N' = N /\ Pcs(prog)' = Pcs(prog)
    BY DEF IrNodes, N
  <2> QED
    BY <2>1, <1>1, <1>2, <1>3, <1>4 DEF LowerInv, LoweringTypeOK
<1>7. StageInv'
  <2>1. Leaders' = Leaders /\ N' = N
    BY DEF Leaders, EndsLoweredBlock, N
  <2>2. lpc' # 0 /\ current' # <<>> /\ stage' = "lowering" /\ bbId' = Len(blocks')
    BY <1>1, <1>3, <1>4
  <2> QED
    BY <1>1, <2>1, <2>2 DEF LowerInv, StageInv
<1>8. RankInv'
  <2>1. \A p : PcToBb(p)' = PcToBb(p)
    BY DEF PcToBb
  <2>2. \A l \in leaders : l < lpc + 1 => l <= lpc /\ (l = lpc \/ l < lpc)
    BY <1>1
  <2>3. Open' = lpc /\ Open' < lpc' /\ PcToBb(Open') = bbId'
    BY <1>1, <1>4, <1>5 DEF Open
  <2> QED
    BY <1>1, <1>3, <1>4, <2>1, <2>2, <2>3 DEF RankInv, First, Began, PcToBb, Open
<1>9. TargetsInv'
  <2>1. \A n \in DOMAIN current' : TargetsBlock(current'[n])
    BY <1>2, <1>4
  <2>2. ASSUME NEW n \in DOMAIN current' PROVE TargetsBlock(current[n])'
    BY <2>1, TargetsFrame
  <2>3. ASSUME NEW k \in DOMAIN blocks', NEW n \in DOMAIN blocks'[k].nodes
        PROVE  TargetsBlock(blocks[k].nodes[n])'
    BY <1>3, TargetsFrame
  <2> QED
    BY <2>2, <2>3 DEF TargetsInv
<1> QED
  BY <1>6, <1>7, <1>8, <1>9 DEF LowerInv
(* one inside a block does,                                                *)
LEMMA LowerInBlockStep ==
  ASSUME StructInv, LowerInv, LowerInBlock
  PROVE  LowerInv'
<1> USE DEF LowerInBlock, vvars
<1> DEFINE s == NewNodes(lpc)
<1>1. /\ stage = "lowering" /\ (lpc \notin leaders \/ current = <<>>) /\ lpc \in Pcs(prog) /\ lpc \in Nat
      /\ N \in Nat /\ lpc < N /\ Len(blocks) \in Nat /\ bbId = Len(blocks)
      /\ LeadersRight /\ leaders \subseteq Nat /\ \A l \in leaders : l < N
      /\ current \in Seq(IrNodes) /\ (current # <<>> => Len(current) > 0)
      /\ DOMAIN current = 1 .. Len(current)
  BY LoopFacts
<1>2. /\ s \in Seq(IrNodes) /\ Len(s) > 0 /\ DOMAIN s = 1 .. Len(s)
      /\ \A n \in 1 .. Len(s) : s[n].pc = lpc /\ TargetsBlock(s[n])
  BY <1>1, NewNodesFacts DEF StructInv, LowerInv, LoweringTypeOK
<1>3. current = <<>> <=> lpc = 0
  BY <1>1 DEF LowerInv, StageInv
<1>4. current' = current \o s
  OBVIOUS
<1> HIDE DEF s
<1>5. /\ current' \in Seq(IrNodes) /\ Len(current') > 0 /\ current' # <<>>
      /\ \A n \in DOMAIN current' : TargetsBlock(current'[n])
      /\ current # <<>> => current'[1] = current[1]
      /\ current = <<>> => current' = s
  <2>1. /\ Len(current') = Len(current) + Len(s) /\ current' \in Seq(IrNodes)
        /\ DOMAIN current' = 1 .. Len(current) + Len(s)
        /\ \A n \in 1 .. Len(current) : current'[n] = current[n]
        /\ \A n \in Len(current) + 1 .. Len(current) + Len(s) : current'[n] = s[n - Len(current)]
    BY <1>1, <1>2, <1>4
  <2>2. \A n \in DOMAIN current : TargetsBlock(current[n])
    BY DEF LowerInv, TargetsInv
  <2>3. \A n \in Len(current) + 1 .. Len(current) + Len(s) : n - Len(current) \in 1 .. Len(s)
    BY <1>1, <1>2
  <2>4. \A n \in DOMAIN current' :
          n \in 1 .. Len(current) \/ n \in Len(current) + 1 .. Len(current) + Len(s)
    BY <1>1, <1>2, <2>1
  <2>5. \A n \in DOMAIN current' : TargetsBlock(current'[n])
    BY <1>1, <1>2, <2>1, <2>2, <2>3, <2>4
  <2>6. Len(current') > 0 /\ current' # <<>>
    BY <1>1, <1>2, <2>1
  <2>7. current # <<>> => current'[1] = current[1]
    BY <1>1, <2>1
  <2>8. current = <<>> => current' = s
    BY <1>2, <1>4, ConcatEmptySeq
  <2> QED
    BY <2>1, <2>5, <2>6, <2>7, <2>8
<1>6. LoweringTypeOK'
  <2>1. IrNodes' = IrNodes /\ N' = N /\ Pcs(prog)' = Pcs(prog)
    BY DEF IrNodes, N
  <2> QED
    BY <2>1, <1>1, <1>5 DEF LowerInv, LoweringTypeOK
<1>7. StageInv'
  <2>1. Leaders' = Leaders /\ N' = N
    BY DEF Leaders, EndsLoweredBlock, N
  <2>2. lpc' # 0 /\ stage' = "lowering" /\ bbId' = Len(blocks')
    BY <1>1
  <2> QED
    BY <1>1, <1>5, <2>1, <2>2 DEF LowerInv, StageInv
<1>8. RankInv'
  <2>1. Open' \in leaders /\ Open' < lpc + 1 /\ PcToBb(Open') = bbId
        /\ \A l \in leaders : l < lpc + 1 => l <= Open'
    <3>1. CASE current = <<>>
      <4>1. Open' = lpc /\ lpc = 0
        BY <3>1, <1>2, <1>3, <1>5 DEF Open
      <4>2. 0 \in leaders /\ PcToBb(0) = 0
        BY <1>1, RankFacts DEF LeadersRight
      <4>3. blocks = <<>> /\ bbId = 0
        BY <4>1, <1>1 DEF LowerInv, StageInv
      <4>4. \A l \in leaders : l < 1 => l <= 0
        BY <1>1
      <4> QED
        BY <4>1, <4>2, <4>3, <4>4
    <3>2. CASE current # <<>>
      <4>1. Open' = Open /\ Open \in leaders /\ Open < lpc /\ PcToBb(Open) = bbId
            /\ \A l \in leaders : l < lpc => l <= Open
        BY <3>2, <1>5 DEF Open, LowerInv, RankInv
      <4>2. \A l \in leaders : l < lpc + 1 => l < lpc
        BY <3>2, <1>1
      <4> QED
        BY <4>1, <4>2, <1>1
    <3> QED
      BY <3>1, <3>2
  <2>2. \A k \in DOMAIN blocks : First(k) \in leaders /\ PcToBb(First(k)) = k - 1
    BY DEF LowerInv, RankInv
  <2>3. \A l \in leaders : l < lpc + 1 => l = Open' \/ \E k \in DOMAIN blocks : First(k) = l
    <3>1. CASE current = <<>>
      BY <3>1, <1>1, <1>2, <1>3, <1>5 DEF Open
    <3>2. CASE current # <<>>
      <4>1. \A l \in leaders : l < lpc + 1 => l < lpc
        BY <3>2, <1>1
      <4> QED
        BY <3>2, <4>1, <1>5 DEF Open, LowerInv, RankInv
    <3> QED
      BY <3>1, <3>2
  <2> QED
    BY <1>5, <2>1, <2>2, <2>3 DEF RankInv, First, PcToBb, Open
<1>9. TargetsInv'
  <2>1. ASSUME NEW n \in DOMAIN current' PROVE TargetsBlock(current[n])'
    BY <1>5, TargetsFrame
  <2>2. ASSUME NEW k \in DOMAIN blocks', NEW n \in DOMAIN blocks'[k].nodes
        PROVE  TargetsBlock(blocks[k].nodes[n])'
    BY TargetsFrame DEF LowerInv, TargetsInv
  <2> QED
    BY <2>1, <2>2 DEF TargetsInv
<1> QED
  BY <1>6, <1>7, <1>8, <1>9 DEF LowerInv

(* and so does the end of the loop;                                        *)
LEMMA FlushStep ==
  ASSUME StructInv, LowerInv, Flush
  PROVE  LowerInv'
<1> USE DEF Flush, vvars
<1>1. /\ stage = "lowering" /\ lpc = N /\ N \in Nat /\ N > 0 /\ Len(blocks) \in Nat
      /\ bbId = Len(blocks) /\ leaders \subseteq Nat /\ \A l \in leaders : l < N
  BY LoopFacts
<1>2. current # <<>>
  BY <1>1 DEF LowerInv, StageInv
<1>3. /\ blocks' \in Seq([id : Nat, nodes : Seq(IrNodes) \ {<<>>}])'
      /\ Len(blocks') = Len(blocks) + 1 /\ DOMAIN blocks' = 1 .. Len(blocks) + 1
      /\ \A k \in DOMAIN blocks' :
           /\ blocks'[k].id = k - 1
           /\ Began(k) \in leaders /\ PcToBb(Began(k)) = k - 1
           /\ \A n \in DOMAIN blocks'[k].nodes : TargetsBlock(blocks'[k].nodes[n])
      /\ \A l \in leaders : l < lpc => \E k \in DOMAIN blocks' : Began(k) = l
  BY <1>1, <1>2, CloseBlock
<1>4. Len(blocks') = Cardinality(leaders)
  <2>1. Open \in leaders /\ PcToBb(Open) = bbId /\ \A l \in leaders : l <= Open
    BY <1>1, <1>2 DEF LowerInv, RankInv
  <2>2. PcToBb(Open) = Cardinality(leaders) - 1 /\ IsFiniteSet(leaders)
    BY <1>1, <2>1, RankFacts
  <2>3. Cardinality(leaders) \in Nat
    BY <2>2, FS_CardinalityType
  <2> QED
    BY <1>1, <1>3, <2>1, <2>2, <2>3
<1>5. LoweringTypeOK'
  <2>1. IrNodes' = IrNodes /\ N' = N /\ Pcs(prog)' = Pcs(prog)
    BY DEF IrNodes, N
  <2>2. current' \in Seq(IrNodes)
    BY EmptySeq
  <2> QED
    BY <2>1, <2>2, <1>3 DEF LowerInv, LoweringTypeOK
<1>6. StageInv'
  <2>1. Leaders' = Leaders /\ N' = N
    BY DEF Leaders, EndsLoweredBlock, N
  <2> QED
    BY <1>1, <1>4, <2>1 DEF LowerInv, StageInv
<1>7. RankInv'
  BY <1>3 DEF RankInv, First, Began, PcToBb
<1>8. TargetsInv'
  <2>1. ASSUME NEW k \in DOMAIN blocks', NEW n \in DOMAIN blocks'[k].nodes
        PROVE  TargetsBlock(blocks[k].nodes[n])'
    BY <1>3, TargetsFrame
  <2> QED
    BY <2>1 DEF TargetsInv
<1> QED
  BY <1>5, <1>6, <1>7, <1>8 DEF LowerInv

(* every step keeps it,                                                    *)
LEMMA LowerStep ==
  StructInv /\ LowerInv /\ [LowerNext]_lowerVars => (StructInv /\ LowerInv)'
<1> SUFFICES ASSUME StructInv, LowerInv, [LowerNext]_lowerVars PROVE (StructInv /\ LowerInv)'
  OBVIOUS
<1>1. [Next]_vvars
  BY DEF LowerNext, lowerVars, FindLeaders, LowerLeader, LowerInBlock, Flush
<1>2. StructInv'
  BY <1>1, StructStep
<1>3. CASE UNCHANGED lowerVars
  <2> USE <1>3 DEF lowerVars, lvars, vvars
  <2>1. LoweringTypeOK'
    BY DEF LowerInv, LoweringTypeOK, IrNodes, N
  <2>2. StageInv'
    BY DEF LowerInv, StageInv, Leaders, EndsLoweredBlock, N
  <2>3. RankInv'
    BY DEF LowerInv, RankInv, First, Open, PcToBb
  <2>4. TargetsInv'
    BY TargetsFrame DEF LowerInv, TargetsInv
  <2> QED
    BY <1>2, <2>1, <2>2, <2>3, <2>4 DEF LowerInv
<1>4. CASE LowerNext
  <2>1. CASE Next /\ UNCHANGED lvars
    BY <1>2, <2>1, VerifyingKeepsLowering
  <2>2. CASE FindLeaders
    BY <1>2, <2>2, FindLeadersStep
  <2>3. CASE LowerLeader
    BY <1>2, <2>3, LowerLeaderStep
  <2>4. CASE LowerInBlock
    BY <1>2, <2>4, LowerInBlockStep
  <2>5. CASE Flush
    BY <1>2, <2>5, FlushStep
  <2> QED
    BY <1>2, <1>4, <2>1, <2>2, <2>3, <2>4, <2>5 DEF LowerNext
<1> QED
  BY <1>2, <1>3, <1>4

(* so it always holds.                                                     *)
LEMMA LowerInvariant == LowerSpec => [](StructInv /\ LowerInv)
<1> QED
  BY LowerStart, LowerStep, PTL DEF LowerSpec, lowerVars

(* What the invariant says of branches once the program is lowered.        *)
LEMMA LoweredBranches == StructInv /\ LowerInv => BranchesReachTheirTarget
<1> SUFFICES ASSUME StructInv, LowerInv, stage = "lowered",
                    NEW k \in DOMAIN blocks, NEW n \in DOMAIN blocks[k].nodes,
                    blocks[k].nodes[n].op \in {"branch", "jump"}
             PROVE  LET x == blocks[k].nodes[n] IN
                      /\ x.target + 1 \in DOMAIN blocks
                      /\ blocks[x.target + 1].id = x.target
                      /\ blocks[x.target + 1].nodes[1].pc = Target(prog, x.pc)
  BY DEF BranchesReachTheirTarget
<1> DEFINE x == blocks[k].nodes[n]
           q == Target(prog, x.pc)
<1>1. IsBranch(At(prog, x.pc)) /\ x.target = PcToBb(q)
  BY DEF LowerInv, TargetsInv, TargetsBlock
<1>2. /\ blocks \in Seq([id : Nat, nodes : Seq(IrNodes) \ {<<>>}])
      /\ \A j \in DOMAIN blocks : blocks[j].id = j - 1
  BY DEF LowerInv, LoweringTypeOK
<1>3. x \in IrNodes
  <2> DEFINE B == [id : Nat, nodes : Seq(IrNodes) \ {<<>>}]
             s == blocks[k].nodes
  <2>1. blocks[k] \in B
    <3>1. blocks \in Seq(B)
      BY <1>2
    <3> HIDE DEF B
    <3> QED BY <3>1
  <2>2. s \in Seq(IrNodes) /\ n \in DOMAIN s
    BY <2>1
  <2> HIDE DEF s
  <2>3. s[n] \in IrNodes
    BY <2>2
  <2> QED
    BY <2>3 DEF s
<1>4. x.pc \in Pcs(prog) /\ x.target \in Nat
  BY <1>3 DEF IrNodes
<1>5. q \in leaders /\ q < lpc
  <2>1. result.verdict = "Ok" /\ leaders = Leaders /\ lpc = N
    BY DEF LowerInv, StageInv
  <2> QED
    BY <1>1, <1>4, <2>1, AcceptedLeaders, ProgFacts DEF StructInv, LowerInv
<1>6. PICK j \in DOMAIN blocks : First(j) = q
  BY <1>5 DEF LowerInv, StageInv, RankInv
<1>7. j = x.target + 1
  <2>1. PcToBb(q) = j - 1 /\ j \in Nat
    BY <1>2, <1>6 DEF LowerInv, RankInv
  <2> QED
    BY <1>1, <1>4, <2>1
<1>8. blocks[j].id = j - 1 /\ j \in Nat
  BY <1>2, <1>6
<1>9. /\ x.target + 1 \in DOMAIN blocks
      /\ blocks[x.target + 1].id = x.target
      /\ blocks[x.target + 1].nodes[1].pc = q
  BY <1>4, <1>6, <1>7, <1>8 DEF First
<1> QED
  BY <1>9

----------------------------------------------------------------------------
(* The lowering's state keeps its shape; above all, finished blocks are    *)
(* numbered by their position and none is empty.                           *)
THEOREM LoweringTypeCorrect == LowerSpec => []LoweringTypeOK
<1>1. LowerInv => LoweringTypeOK
  BY DEF LowerInv
<1> QED
  BY <1>1, LowerInvariant, PTL

(* Every branch of a lowered program, of any length, names the block that  *)
(* begins with the instruction the eBPF branch goes to.                    *)
THEOREM LoweredBranchesCorrect == LowerSpec => []BranchesReachTheirTarget
<1> QED
  BY LoweredBranches, LowerInvariant, PTL

(* The two analyses of a program count the same blocks.                    *)
THEOREM BlockCountsCorrect == LowerSpec => []BlockCountsAgree
<1>1. StructInv /\ LowerInv => BlockCountsAgree
  BY AcceptedLeaders DEF BlockCountsAgree, LowerInv, StageInv
<1> QED
  BY <1>1, LowerInvariant, PTL

----------------------------------------------------------------------------
(* How the nodes lie one after the other: the segments are the finished    *)
(* blocks and, behind them, the open one.                                  *)

Segments   == Len(blocks) + (IF current = <<>> THEN 0 ELSE 1)
Segment(k) == IF k <= Len(blocks) THEN blocks[k].nodes ELSE current
Final(s)   == s[Len(s)]

(* The last node of its instruction.                                       *)
Completes(x) == x.op \notin {"prologue", "epilogue"}

(* A node is what its instruction becomes.                                 *)
FromInsn(x) ==
  /\ x.pc \in Pcs(prog)
  /\ LET i == At(prog, x.pc) IN
     \/ x = Bare("prologue", x.pc) /\ x.pc = 0 /\ frameSize > 0
     \/ x = Bare("epilogue", x.pc) /\ i.kind = "exit" /\ frameSize > 0
     \/ x = Bare("ret", x.pc) /\ i.kind = "exit"
     \/ x = Translated(i, x.pc) /\ i.kind # "exit"

(* Node y is the one to come after x.                                      *)
Linked(x, y) ==
  /\ x.op = "prologue" => y.pc = x.pc /\ y = Lowered(x.pc)[1]
  /\ x.op = "epilogue" => y.pc = x.pc /\ y = Bare("ret", x.pc)
  /\ Completes(x) => y.pc = x.pc + 1 /\ y = NewNodes(x.pc + 1)[1]

Laid(s) ==
  /\ \A n \in DOMAIN s : FromInsn(s[n])
  /\ \A n \in DOMAIN s : n < Len(s) => Linked(s[n], s[n + 1])
  /\ Completes(Final(s))

(* The nodes of the program lie in the order of their instructions, within *)
(* the segments and from each to the next, and end with the instruction    *)
(* before lpc.                                                             *)
LayoutInv ==
  /\ \A k \in 1 .. Segments : Laid(Segment(k))
  /\ \A k \in 1 .. Segments : k < Segments => Linked(Final(Segment(k)), Segment(k + 1)[1])
  /\ Segments > 0 => Segment(1)[1] = NewNodes(0)[1] /\ Final(Segment(Segments)).pc = lpc - 1

(* The nodes of one instruction are laid.                                  *)
LEMMA NewNodesLaid ==
  ASSUME TypeOK, LeadersRight, frameSize \in Nat, NEW p \in Pcs(prog)
  PROVE  Laid(NewNodes(p)) /\ Final(NewNodes(p)).pc = p
<1> DEFINE i == At(prog, p)
           s == NewNodes(p)
           t == Translated(i, p)
           e == Bare("epilogue", p)
           r == Bare("ret", p)
           a == Bare("prologue", p)
<1>1. i \in Insn /\ i.kind # "tailcall"
  BY ProgFacts DEF LeadersRight, TailCallFree
<1>2. /\ a.op = "prologue" /\ e.op = "epilogue" /\ r.op = "ret"
      /\ a.pc = p /\ e.pc = p /\ r.pc = p /\ t.pc = p
  BY DEF Bare, Node, Translated
<1>3. i.kind # "exit" => t.op \notin {"prologue", "epilogue"}
  BY <1>1 DEF Translated, Node, IrOp, Insn, Kinds
<1>4. /\ i.kind = "exit" => FromInsn(r) /\ (frameSize > 0 => FromInsn(e))
      /\ i.kind # "exit" => FromInsn(t)
      /\ p = 0 /\ frameSize > 0 => FromInsn(a)
  BY <1>2 DEF FromInsn
<1>5. Linked(e, r)
  BY <1>2 DEF Linked, Completes
<1>6. /\ Lowered(p) = IF i.kind = "exit" THEN (IF frameSize > 0 THEN <<e, r>> ELSE <<r>>) ELSE <<t>>
      /\ Linked(a, Lowered(p)[1])
  <2>1. Lowered(p) = IF i.kind = "exit" THEN (IF frameSize > 0 THEN <<e, r>> ELSE <<r>>) ELSE <<t>>
    BY <1>1 DEF Lowered, ExitNodes
  <2>2. Lowered(p)[1].pc = p
    BY <2>1, <1>2
  <2>3. Linked(a, Lowered(a.pc)[1])
    BY <2>2, <1>2 DEF Linked, Completes
  <2> QED
    BY <2>1, <2>3, <1>2
<1>7. s = (IF p = 0 /\ frameSize > 0 THEN <<a>> ELSE <<>>) \o Lowered(p)
  BY DEF NewNodes, PrologueAt
<1> HIDE DEF i, s, t, e, r, a
<1>8. CASE p = 0 /\ frameSize > 0 /\ i.kind = "exit"
  <2> DEFINE v == <<a>>
             w == <<e, r>>
             S == {a, e, r}
  <2>1. /\ v \in Seq(S) /\ Len(v) = 1 /\ v[1] = a
        /\ w \in Seq(S) /\ Len(w) = 2 /\ w[1] = e /\ w[2] = r
        /\ s = v \o w
    BY <1>8, <1>6, <1>7
  <2> HIDE DEF v, w, S
  <2>a. v \in Seq(S) /\ w \in Seq(S)
    BY <2>1
  <2>b. /\ Len(v \o w) = Len(v) + Len(w) /\ DOMAIN (v \o w) = 1 .. Len(v) + Len(w)
        /\ \A n \in 1 .. Len(v) : (v \o w)[n] = v[n]
        /\ \A n \in Len(v) + 1 .. Len(v) + Len(w) : (v \o w)[n] = w[n - Len(v)]
    BY <2>a
  <2>c. /\ Len(v \o w) = 3 /\ DOMAIN (v \o w) = 1 .. 3
        /\ (v \o w)[1] = a /\ (v \o w)[2] = e /\ (v \o w)[3] = r
    BY <2>1, <2>b
  <2>2. Len(s) = 3 /\ DOMAIN s = 1 .. 3 /\ s[1] = a /\ s[2] = e /\ s[3] = r
    BY <2>1, <2>c
  <2>3. Linked(a, e) /\ FromInsn(a) /\ FromInsn(e) /\ FromInsn(r)
    BY <1>8, <1>4, <1>6
  <2>4. \A n \in DOMAIN s : n = 1 \/ n = 2 \/ n = 3
    BY <2>2
  <2>5. \A n \in DOMAIN s : FromInsn(s[n]) /\ (n < Len(s) => Linked(s[n], s[n + 1]))
    BY <2>2, <2>3, <2>4, <1>5
  <2> QED
    BY <2>2, <2>5, <1>2 DEF Laid, Final, Completes, s
<1>9. CASE p = 0 /\ frameSize > 0 /\ i.kind # "exit"
  <2> DEFINE v == <<a>>
             w == <<t>>
             S == {a, t}
  <2>1. /\ v \in Seq(S) /\ Len(v) = 1 /\ v[1] = a
        /\ w \in Seq(S) /\ Len(w) = 1 /\ w[1] = t
        /\ s = v \o w
    BY <1>9, <1>6, <1>7
  <2> HIDE DEF v, w, S
  <2>a. v \in Seq(S) /\ w \in Seq(S)
    BY <2>1
  <2>b. /\ Len(v \o w) = Len(v) + Len(w) /\ DOMAIN (v \o w) = 1 .. Len(v) + Len(w)
        /\ \A n \in 1 .. Len(v) : (v \o w)[n] = v[n]
        /\ \A n \in Len(v) + 1 .. Len(v) + Len(w) : (v \o w)[n] = w[n - Len(v)]
    BY <2>a
  <2>c. /\ Len(v \o w) = 2 /\ DOMAIN (v \o w) = 1 .. 2
        /\ (v \o w)[1] = a /\ (v \o w)[2] = t
    BY <2>1, <2>b
  <2>2. Len(s) = 2 /\ DOMAIN s = 1 .. 2 /\ s[1] = a /\ s[2] = t
    BY <2>1, <2>c
  <2>3. Linked(a, t) /\ FromInsn(a) /\ FromInsn(t)
    BY <1>9, <1>4, <1>6
  <2>4. \A n \in DOMAIN s : n = 1 \/ n = 2
    BY <2>2
  <2>5. \A n \in DOMAIN s : FromInsn(s[n]) /\ (n < Len(s) => Linked(s[n], s[n + 1]))
    BY <2>2, <2>3, <2>4
  <2> QED
    BY <1>9, <2>2, <2>5, <1>2, <1>3 DEF Laid, Final, Completes, s
<1>10. CASE ~ (p = 0 /\ frameSize > 0)
  <2>1. s = Lowered(p)
    BY <1>10, <1>6, <1>7
  <2>2. CASE i.kind = "exit" /\ frameSize > 0
    <3>1. s = <<e, r>>
      BY <2>1, <2>2, <1>6
    <3> QED
      BY <3>1, <2>2, <1>2, <1>4, <1>5 DEF Laid, Final, Completes, s
  <2>3. CASE i.kind = "exit" /\ ~ (frameSize > 0)
    <3>1. s = <<r>>
      BY <2>1, <2>3, <1>6
    <3> QED
      BY <3>1, <2>3, <1>2, <1>4 DEF Laid, Final, Completes, s
  <2>4. CASE i.kind # "exit"
    <3>1. s = <<t>>
      BY <2>1, <2>4, <1>6
    <3> QED
      BY <3>1, <2>4, <1>2, <1>3, <1>4 DEF Laid, Final, Completes, s
  <2> QED
    BY <2>2, <2>3, <2>4
<1> QED
  BY <1>8, <1>9, <1>10

(* Two segments with a link between them make one.                         *)
LEMMA LaidConcat ==
  ASSUME NEW S, NEW s \in Seq(S), NEW t \in Seq(S), Len(s) > 0, Len(t) > 0,
         Laid(s), Laid(t), Linked(Final(s), t[1])
  PROVE  Laid(s \o t) /\ (s \o t)[1] = s[1] /\ Final(s \o t) = Final(t)
<1> DEFINE u == s \o t
<1>1. /\ Len(s) \in Nat /\ Len(t) \in Nat /\ Len(u) = Len(s) + Len(t)
      /\ DOMAIN s = 1 .. Len(s) /\ DOMAIN t = 1 .. Len(t) /\ DOMAIN u = 1 .. Len(s) + Len(t)
      /\ \A n \in 1 .. Len(s) : u[n] = s[n]
      /\ \A n \in Len(s) + 1 .. Len(s) + Len(t) : u[n] = t[n - Len(s)]
  OBVIOUS
<1> HIDE DEF u
<1>2. Final(u) = Final(t) /\ u[1] = s[1]
  BY <1>1 DEF Final
<1>3. ASSUME NEW n \in DOMAIN u
      PROVE  FromInsn(u[n]) /\ (n < Len(u) => Linked(u[n], u[n + 1]))
  <2>1. CASE n < Len(s)
    <3>1. n \in DOMAIN s /\ u[n] = s[n] /\ u[n + 1] = s[n + 1]
      BY <1>1, <2>1
    <3> QED
      BY <3>1, <2>1 DEF Laid
  <2>2. CASE n = Len(s)
    <3>1. n \in DOMAIN s /\ u[n] = Final(s) /\ u[n] = s[n] /\ u[n + 1] = t[1]
      BY <1>1, <2>2 DEF Final
    <3> QED
      BY <3>1 DEF Laid
  <2>3. CASE n > Len(s)
    <3>1. /\ n - Len(s) \in DOMAIN t /\ u[n] = t[n - Len(s)]
          /\ n < Len(u) => n - Len(s) < Len(t) /\ u[n + 1] = t[(n - Len(s)) + 1]
      <4>1. \A m \in Len(s) + 1 .. Len(s) + Len(t) : m - Len(s) \in 1 .. Len(t) /\ u[m] = t[m - Len(s)]
        BY <1>1
      <4>2. n \in Len(s) + 1 .. Len(s) + Len(t) /\ (n + 1) - Len(s) = (n - Len(s)) + 1
        BY <1>1, <2>3
      <4>3. n < Len(u) => n + 1 \in Len(s) + 1 .. Len(s) + Len(t)
        BY <1>1, <4>2
      <4> QED
        BY <1>1, <4>1, <4>2, <4>3
    <3> QED
      BY <3>1 DEF Laid
  <2> QED
    BY <1>1, <2>1, <2>2, <2>3
<1> QED
  BY <1>2, <1>3 DEF Laid, u

(* The layout depends on the program, its leaders and its frame only.      *)
LEMMA LayoutFrame ==
  ASSUME UNCHANGED <<prog, leaders, frameSize>>
  PROVE  /\ \A s : Laid(s)' <=> Laid(s)
         /\ \A x, y : Linked(x, y)' <=> Linked(x, y)
         /\ \A p : NewNodes(p)' = NewNodes(p)
<1>1. \A p : PcToBb(p)' = PcToBb(p)
  BY DEF PcToBb
<1>2. \A i, p : Translated(i, p)' = Translated(i, p)
  BY <1>1 DEF Translated
<1>3. \A p : Lowered(p)' = Lowered(p) /\ NewNodes(p)' = NewNodes(p)
  BY <1>2 DEF Lowered, ExitNodes, NewNodes, PrologueAt
<1>4. \A x, y : Linked(x, y)' <=> Linked(x, y)
  BY <1>3 DEF Linked
<1>5. \A x : FromInsn(x)' <=> FromInsn(x)
  BY <1>2 DEF FromInsn
<1> QED
  BY <1>3, <1>4, <1>5 DEF Laid

(* What the three steps of the loop do to the segments.                    *)
LEMMA SegmentFacts ==
  ASSUME StructInv, LowerInv, stage = "lowering"
  PROVE  /\ Segments \in Nat /\ (Segments = 0 <=> current = <<>>)
         /\ current = <<>> => blocks = <<>>
         /\ current # <<>> => Segments = Len(blocks) + 1 /\ Segment(Segments) = current
         /\ lpc = 0 <=> current = <<>>
<1>1. Len(blocks) \in Nat /\ (current = <<>> => blocks = <<>>) /\ (current = <<>> <=> lpc = 0)
  BY LoopFacts DEF LowerInv, StageInv
<1> QED
  BY <1>1 DEF Segments, Segment

(* The nodes of the next instruction follow those laid so far.             *)
LEMMA NextFollows ==
  ASSUME StructInv, LowerInv, LayoutInv, stage = "lowering", lpc < N
  PROVE  /\ NewNodes(lpc) \in Seq(IrNodes) /\ Len(NewNodes(lpc)) > 0
         /\ Laid(NewNodes(lpc)) /\ Final(NewNodes(lpc)).pc = lpc
         /\ current # <<>> => Laid(current) /\ Linked(Final(current), NewNodes(lpc)[1])
<1>1. lpc \in Pcs(prog) /\ LeadersRight /\ frameSize \in Nat /\ TypeOK /\ lpc \in Nat
  BY LoopFacts DEF LowerInv, LoweringTypeOK, StructInv
<1>2. ASSUME current # <<>> PROVE Laid(current) /\ Linked(Final(current), NewNodes(lpc)[1])
  <2>1. Segments \in Nat /\ Segments > 0 /\ Segment(Segments) = current
    BY <1>2, SegmentFacts
  <2>2. Laid(current) /\ Final(current).pc = lpc - 1
    BY <2>1 DEF LayoutInv
  <2>3. FromInsn(Final(current)) /\ Completes(Final(current))
    <3>1. Len(current) \in DOMAIN current
      BY <1>2, LoopFacts
    <3> QED
      BY <2>2, <3>1 DEF Laid, Final
  <2>4. (lpc - 1) + 1 = lpc /\ NewNodes(lpc)[1].pc = lpc
    BY <1>1, NewNodesFacts
  <2> QED
    BY <2>2, <2>3, <2>4 DEF Linked, Completes
<1> QED
  BY <1>1, <1>2, NewNodesFacts, NewNodesLaid

(* The layout invariant is inductive.                                      *)
LEMMA LayoutStep ==
  ASSUME StructInv, LowerInv, LayoutInv, [LowerNext]_lowerVars
  PROVE  LayoutInv'
<1>1. CASE LowerLeader
  <2> USE <1>1 DEF LowerLeader, vvars
  <2>1. /\ stage = "lowering" /\ lpc < N /\ current # <<>> /\ lpc \in Nat
        /\ Segments = Len(blocks) + 1 /\ Segments \in Nat /\ Segment(Segments) = current
        /\ Len(blocks) \in Nat
    BY LoopFacts, SegmentFacts
  <2>2. /\ NewNodes(lpc) \in Seq(IrNodes) /\ Len(NewNodes(lpc)) > 0
        /\ Laid(NewNodes(lpc)) /\ Final(NewNodes(lpc)).pc = lpc
        /\ Laid(current) /\ Linked(Final(current), NewNodes(lpc)[1])
    BY <2>1, NextFollows
  <2>3. /\ Len(blocks') = Len(blocks) + 1
        /\ \A k \in 1 .. Len(blocks) : blocks'[k] = blocks[k]
        /\ blocks'[Len(blocks) + 1].nodes = current
    BY <2>1, LoopFacts
  <2>4. current' = NewNodes(lpc) /\ current' # <<>>
    BY <2>2
  <2>m. PICK m \in Nat : m = Segments
    BY <2>1
  <2>5. /\ Segments' = m + 1 /\ Segment(m + 1)' = NewNodes(lpc)
        /\ \A k \in 1 .. m : Segment(k)' = Segment(k)
    BY <2>m, <2>1, <2>3, <2>4 DEF Segments, Segment
  <2>6. ASSUME NEW k \in 1 .. m + 1
        PROVE  /\ Laid(Segment(k)')
               /\ k < m + 1 => Linked(Final(Segment(k)'), Segment(k + 1)'[1])
    <3>1. CASE k = m + 1
      BY <3>1, <2>m, <2>1, <2>2, <2>5
    <3>2. CASE k = m
      <4>1. Segment(k)' = current /\ Segment(k + 1)' = NewNodes(lpc)
        BY <3>2, <2>m, <2>1, <2>5
      <4> QED
        BY <4>1, <2>2
    <3>3. CASE k \in 1 .. m - 1
      <4>1. /\ k \in 1 .. m /\ k + 1 \in 1 .. m /\ k < m
            /\ Segment(k)' = Segment(k) /\ Segment(k + 1)' = Segment(k + 1)
        BY <3>3, <2>m, <2>1, <2>5
      <4> QED
        BY <4>1, <2>m DEF LayoutInv
    <3> QED
      BY <2>m, <2>1, <3>1, <3>2, <3>3
  <2>7. Segment(1)'[1] = NewNodes(0)[1] /\ Final(Segment(m + 1)').pc = lpc
    <3>1. 1 \in 1 .. m /\ Segment(1)' = Segment(1)
      BY <2>m, <2>1, <2>5
    <3> QED
      BY <3>1, <2>m, <2>1, <2>2, <2>5 DEF LayoutInv
  <2> QED
    BY <2>m, <2>1, <2>5, <2>6, <2>7, LayoutFrame DEF LayoutInv
<1>2. CASE LowerInBlock
  <2> USE <1>2 DEF LowerInBlock, vvars
  <2>1. /\ stage = "lowering" /\ lpc < N /\ lpc \in Nat /\ Segments \in Nat /\ Len(blocks) \in Nat
        /\ current \in Seq(IrNodes) /\ (current # <<>> => Len(current) > 0)
    BY LoopFacts, SegmentFacts
  <2>2. /\ NewNodes(lpc) \in Seq(IrNodes) /\ Len(NewNodes(lpc)) > 0
        /\ Laid(NewNodes(lpc)) /\ Final(NewNodes(lpc)).pc = lpc
    BY <2>1, NextFollows
  <2>3. CASE current = <<>>
    <3>1. blocks = <<>> /\ lpc = 0 /\ current' = NewNodes(0) /\ current' # <<>>
      BY <2>1, <2>2, <2>3, SegmentFacts, ConcatEmptySeq
    <3>2. Segments' = 1 /\ Segment(1)' = NewNodes(0)
      BY <3>1 DEF Segments, Segment
    <3> QED
      BY <2>2, <3>1, <3>2, LayoutFrame DEF LayoutInv
  <2>4. CASE current # <<>>
    <3>1. /\ Segments = Len(blocks) + 1 /\ Segment(Segments) = current
          /\ Laid(current) /\ Linked(Final(current), NewNodes(lpc)[1])
      BY <2>1, <2>4, SegmentFacts, NextFollows
    <3>2. Laid(current') /\ current'[1] = current[1] /\ Final(current') = Final(NewNodes(lpc))
      BY <2>1, <2>2, <2>4, <3>1, LaidConcat
    <3>3. current' # <<>>
      BY <2>1, <2>2
    <3>4. /\ Segments' = Segments /\ Segment(Segments)' = current'
          /\ \A k \in 1 .. Segments : k < Segments => Segment(k)' = Segment(k)
      BY <2>1, <2>4, <3>1, <3>3 DEF Segments, Segment
    <3>5. ASSUME NEW k \in 1 .. Segments
          PROVE  /\ Laid(Segment(k)') /\ Segment(k)'[1] = Segment(k)[1]
                 /\ k < Segments => Final(Segment(k)') = Final(Segment(k))
      <4>1. k = Segments \/ k < Segments
        BY <2>1, <3>1
      <4>2. Laid(Segment(k))
        BY DEF LayoutInv
      <4> QED
        BY <4>1, <4>2, <3>1, <3>2, <3>4
    <3>6. ASSUME NEW k \in 1 .. Segments, k < Segments
          PROVE  Linked(Final(Segment(k)'), Segment(k + 1)'[1])
      <4>1. k + 1 \in 1 .. Segments /\ Linked(Final(Segment(k)), Segment(k + 1)[1])
        BY <2>1, <3>6 DEF LayoutInv
      <4> QED
        BY <4>1, <3>5, <3>6
    <3>7. Segment(1)'[1] = NewNodes(0)[1] /\ Final(Segment(Segments)').pc = lpc
      <4>1. 1 \in 1 .. Segments /\ Segment(1)[1] = NewNodes(0)[1]
        BY <2>1, <3>1 DEF LayoutInv
      <4> QED
        BY <4>1, <2>2, <3>2, <3>4, <3>5
    <3>8. \A k \in 1 .. Segments' : Laid(Segment(k))'
      BY <3>4, <3>5, LayoutFrame
    <3>9. \A k \in 1 .. Segments' : k < Segments' =>
            Linked(Final(Segment(k)), Segment(k + 1)[1])'
      BY <3>4, <3>6, LayoutFrame DEF Final
    <3>10. Segments' > 0 =>
             (Segment(1)[1] = NewNodes(0)[1] /\ Final(Segment(Segments)).pc = lpc - 1)'
      BY <2>1, <3>4, <3>7, LayoutFrame
    <3> QED
      BY <3>8, <3>9, <3>10 DEF LayoutInv
  <2> QED
    BY <2>3, <2>4
<1>3. CASE Flush
  <2> USE <1>3 DEF Flush, vvars
  <2>1. /\ stage = "lowering" /\ lpc = N /\ N > 0 /\ Len(blocks) \in Nat
        /\ Segments = Len(blocks) + 1 /\ Segment(Segments) = current /\ current # <<>>
    BY LoopFacts, SegmentFacts
  <2>2. /\ Len(blocks') = Len(blocks) + 1
        /\ \A k \in 1 .. Len(blocks) : blocks'[k] = blocks[k]
        /\ blocks'[Len(blocks) + 1].nodes = current
    BY <2>1, LoopFacts
  <2>3. Segments' = Segments /\ \A k \in 1 .. Segments : Segment(k)' = Segment(k)
    BY <2>1, <2>2 DEF Segments, Segment
  <2> QED
    BY <2>1, <2>3, LayoutFrame DEF LayoutInv
<1>4. CASE FindLeaders \/ (Next /\ UNCHANGED lvars)
  <2>1. stage = "waiting" /\ UNCHANGED <<lpc, blocks, current, bbId>>
    BY <1>4, WaitsForVerdict DEF FindLeaders, lvars
  <2>2. Segments = 0 /\ Segments' = 0
    BY <2>1 DEF LowerInv, StageInv, Segments
  <2> QED
    BY <2>2 DEF LayoutInv
<1>5. CASE UNCHANGED lowerVars
  <2>1. Segments' = Segments /\ (\A k : Segment(k)' = Segment(k)) /\ lpc' = lpc
    BY <1>5 DEF lowerVars, lvars, Segments, Segment
  <2> QED
    BY <1>5, <2>1, LayoutFrame DEF LayoutInv, lowerVars, lvars, vvars
<1> QED
  BY <1>1, <1>2, <1>3, <1>4, <1>5 DEF LowerNext

----------------------------------------------------------------------------
(* The frame.                                                              *)

(* The last sweep checked every instruction of an accepted program.        *)
LEMMA AcceptedAllChecked ==
  ASSUME VerifierInv, TailCallFree(prog), result.verdict = "Ok"
  PROVE  \A p \in Pcs(prog) : p \in checked /\ Passes(At(prog, p), In(p))
<1> USE DEF VerifierInv, StructInv
<1> DEFINE U == Pcs(prog) \ checked
<1>1. /\ Analysing /\ ~ changed /\ starts # {} /\ bb = N /\ BadBlocks = {}
      /\ starts \subseteq Pcs(prog) /\ 0 \in starts
  BY DEF Analysing, CfgInv, CursorInv, NoBadBlocks, TypeOK
<1>2. N \in Nat /\ Pcs(prog) = 0 .. N - 1
  BY ProgFacts
<1>3. \A b \in starts : b \in checked
  <2>1. \A b \in starts : b \in reachable /\ b < bb
    BY <1>1, <1>2 DEF BadBlocks
  <2> QED
    BY <1>1, <2>1 DEF QuietSweepIsConsistent
<1>4. ASSUME U # {} PROVE FALSE
  <2>1. U \subseteq Nat
    BY <1>2
  <2>2. PICK p \in U : \A q \in U : p <= q
    <3> HIDE DEF U
    <3> QED BY <1>4, <2>1, LeastNatural
  <2>3. p \in Pcs(prog) /\ p \notin checked /\ p \notin starts /\ p # 0
    BY <1>1, <1>3, <2>2
  <2>4. p - 1 \in Pcs(prog) /\ p - 1 \in checked /\ (p - 1) + 1 = p
    <3>1. p \in Nat /\ p - 1 \in Pcs(prog) /\ ~ (p <= p - 1)
      BY <1>2, <2>3
    <3> QED
      BY <2>2, <3>1
  <2>5. ~ EndsBlock(At(prog, p - 1))
    <3>1. p < N /\ BadBranches = {} /\ prog # <<>> /\ starts = BbStarts
      BY <1>1, <1>2, <2>3 DEF CfgInv
    <3> QED
      BY <2>3, <2>4, <3>1, StartFacts
  <2>6. p \in ExecSuccessors(prog, p - 1)
    <3>1. At(prog, p - 1).kind # "tailcall"
      BY <2>4 DEF TailCallFree
    <3> QED
      BY <2>4, <2>5, <3>1 DEF EndsBlock, ExecSuccessors
  <2> QED
    BY <2>3, <2>4, <2>6, AcceptedIsClosed
<1>5. \A p \in Pcs(prog) : p \in checked
  BY <1>4
<1> QED
  BY <1>5, AcceptedIsClosed

(* The aligned size is enough, and no more than the alignment asks for.    *)
LEMMA AlignedFacts ==
  ASSUME NEW m \in Nat, NEW n \in Nat, m <= n
  PROVE  Aligned(n) \in Nat /\ m <= Aligned(n) /\ Aligned(m) <= Aligned(n) /\ Aligned(n) % 16 = 0
BY DEF Aligned

(* The size of the frame of an accepted program.                           *)
LEMMA FrameSizeFacts ==
  ASSUME VerifierInv, TailCallFree(prog), result.verdict = "Ok"
  PROVE  /\ \A p \in Pcs(prog) :
              /\ FrameAccess(At(prog, p)) =>
                   At(prog, p).off + FrameSize >= 0 /\ At(prog, p).off + FrameSize <= FrameSize - 1
              /\ NeedsFrame(At(prog, p)) => FrameSize >= 64
         /\ FrameSize \in Nat /\ FrameSize % 16 = 0 /\ FrameSize <= Aligned(STACK_SIZE)
<1> DEFINE insns == {At(prog, p) : p \in Pcs(prog)}
           needs == {0} \cup {(-i.off) % U16 : i \in {j \in insns : FrameAccess(j)}}
           deep  == Deepest(needs)
           least == IF deep < 64 /\ \E i \in insns : NeedsFrame(i) THEN 64 ELSE deep
<1>1. STACK_SIZE \in Nat /\ 64 <= STACK_SIZE /\ STACK_SIZE < U16 /\ U16 = 65536
  BY FrameAssumption, SMTT(20) DEF U16
<1>2. \A i \in insns : FrameAccess(i) => i.off \in Int /\ -STACK_SIZE <= i.off /\ i.off <= -1
  <2>1. \A p \in Pcs(prog) : ~ StackOffsetBad(At(prog, p)) /\ At(prog, p).off \in Int
    BY AcceptedAllChecked, ProgFacts DEF Passes, VerifierInv, StructInv, Insn
  <2> QED
    BY <1>1, <2>1 DEF StackOffsetBad, FrameAccess
<1>3. \A i \in insns : FrameAccess(i) => (-i.off) % U16 = -i.off
  <2>1. \A x \in Int : -STACK_SIZE <= x /\ x <= -1 => (-x) % U16 = -x
    BY <1>1
  <2> QED
    BY <1>2, <2>1
<1>4. needs \subseteq 0 .. STACK_SIZE /\ needs # {}
  <2>1. \A i \in insns : FrameAccess(i) => -i.off \in 0 .. STACK_SIZE
    BY <1>1, <1>2
  <2>2. 0 \in 0 .. STACK_SIZE
    BY <1>1
  <2> HIDE DEF insns
  <2> QED
    BY <1>3, <2>1, <2>2
<1>5. deep \in 0 .. STACK_SIZE /\ \A n \in needs : n <= deep
  <2> HIDE DEF needs
  <2>1. \E m \in needs : \A n \in needs : n <= m
    <3>1. STACK_SIZE \in Nat
      BY <1>1
    <3> QED
      BY <3>1, <1>4, GreatestNatural
  <2>2. Deepest(needs) \in needs /\ \A n \in needs : n <= Deepest(needs)
    BY <2>1 DEF Deepest
  <2> QED
    BY <2>2, <1>4
<1>6. \A i \in insns : FrameAccess(i) => -i.off <= deep
  <2> HIDE DEF deep
  <2>1. \A i \in insns : FrameAccess(i) => (-i.off) % U16 \in needs
    BY DEF needs
  <2> QED
    BY <2>1, <1>3, <1>5
<1>7. FrameSize = Aligned(least)
  BY DEF FrameSize
<1> HIDE DEF deep, needs
<1>8. /\ least \in Nat /\ deep <= least /\ least <= STACK_SIZE
      /\ \A i \in insns : NeedsFrame(i) => 64 <= least
  BY <1>1, <1>5
<1> HIDE DEF least
<1>9. /\ FrameSize \in Nat /\ least <= FrameSize /\ FrameSize % 16 = 0
      /\ FrameSize <= Aligned(STACK_SIZE)
  BY <1>1, <1>7, <1>8, AlignedFacts
<1>10. \A i \in insns : FrameAccess(i) =>
          i.off + FrameSize >= 0 /\ i.off + FrameSize <= FrameSize - 1
  BY <1>1, <1>2, <1>5, <1>6, <1>8, <1>9
<1>11. \A i \in insns : NeedsFrame(i) => FrameSize >= 64
  BY <1>8, <1>9
<1>12. \A p \in Pcs(prog) : At(prog, p) \in insns
  OBVIOUS
<1> HIDE DEF insns
<1> QED
  BY <1>9, <1>10, <1>11, <1>12

(* The frame has the size find_leaders' pass computed for the program.     *)
FrameSizeInv == stage # "waiting" => frameSize = FrameSize

(* The frame is sized once, when the leaders are found.                    *)
LEMMA FrameSizeStep == FrameSizeInv /\ [LowerNext]_lowerVars /\ (Next => stage = "waiting") => FrameSizeInv'
<1> SUFFICES ASSUME FrameSizeInv, [LowerNext]_lowerVars, Next => stage = "waiting" PROVE FrameSizeInv'
  OBVIOUS
<1>1. prog' = prog => FrameSize' = FrameSize
  BY DEF FrameSize
<1>2. CASE Next /\ UNCHANGED lvars
  BY <1>2 DEF lvars, FrameSizeInv
<1>3. CASE FindLeaders \/ LowerLeader \/ LowerInBlock \/ Flush \/ UNCHANGED lowerVars
  BY <1>1, <1>3 DEF FindLeaders, LowerLeader, LowerInBlock, Flush, lowerVars, lvars, vvars, FrameSizeInv
<1> QED
  BY <1>2, <1>3 DEF LowerNext

(* Everything the executions of a lowered program take from its lowering.  *)
LoweringInv == VerifierInv /\ LowerInv /\ LayoutInv /\ FrameSizeInv

(* All of it holds before the verdict,                                     *)
LEMMA LoweringStart == LowerInit => LoweringInv
<1> SUFFICES ASSUME LowerInit PROVE LoweringInv
  OBVIOUS
<1>1. VerifierInv /\ LowerInv
  BY VerifierStart, LowerStart DEF LowerInit
<1>2. Segments = 0
  BY DEF LowerInit, Segments
<1> QED
  BY <1>1, <1>2 DEF LoweringInv, LayoutInv, FrameSizeInv, LowerInit

(* every step keeps all of it,                                             *)
LEMMA LoweringStep == LoweringInv /\ [LowerNext]_lowerVars => LoweringInv'
<1> SUFFICES ASSUME LoweringInv, [LowerNext]_lowerVars PROVE LoweringInv'
  OBVIOUS
<1>1. [Next]_vvars
  BY DEF LowerNext, lowerVars, FindLeaders, LowerLeader, LowerInBlock, Flush
<1>2. VerifierInv'
  BY <1>1, VerifierStep DEF LoweringInv
<1>3. LowerInv'
  BY LowerStep DEF LoweringInv, VerifierInv
<1>4. LayoutInv'
  BY LayoutStep DEF LoweringInv, VerifierInv
<1>5. FrameSizeInv'
  BY FrameSizeStep, WaitsForVerdict DEF LoweringInv, VerifierInv
<1> QED
  BY <1>2, <1>3, <1>4, <1>5 DEF LoweringInv

(* so all of it always holds.                                              *)
LEMMA LoweringInvariant == LowerSpec => []LoweringInv
BY LoweringStart, LoweringStep, PTL DEF LowerSpec, lowerVars

(* Every access of a lowered program through R10 begins in its frame; the  *)
(* frame is there whenever something has to be saved, and is no larger     *)
(* than the eBPF stack needs.  Where an access ends is not bounded.        *)
THEOREM AccessesBegin == LowerSpec => []AccessesBeginInFrame
<1>1. LoweringInv => AccessesBeginInFrame
  <2> SUFFICES ASSUME LoweringInv, stage = "lowered" PROVE AccessesBeginInFrame
    BY DEF AccessesBeginInFrame
  <2>1. frameSize = FrameSize /\ VerifierInv /\ TailCallFree(prog) /\ result.verdict = "Ok"
    BY DEF LoweringInv, FrameSizeInv, LowerInv, StageInv
  <2>2. /\ \A p \in Pcs(prog) :
              /\ FrameAccess(At(prog, p)) =>
                   At(prog, p).off + frameSize >= 0 /\ At(prog, p).off + frameSize <= frameSize - 1
              /\ NeedsFrame(At(prog, p)) => frameSize >= 64
        /\ frameSize \in Nat /\ frameSize % 16 = 0 /\ frameSize <= Aligned(STACK_SIZE)
    BY <2>1, FrameSizeFacts
  <2>3. \A p \in Pcs(prog) : At(prog, p).off \in Int
    BY <2>1, ProgFacts DEF VerifierInv, StructInv, Insn
  <2>4. \A p \in Pcs(prog) : FrameAccess(At(prog, p)) => At(prog, p).off + frameSize \in 0 .. frameSize - 1
    BY <2>2, <2>3
  <2> QED
    BY <2>2, <2>4 DEF AccessesBeginInFrame
<1> QED
  BY <1>1, LoweringInvariant, PTL
============================================================================

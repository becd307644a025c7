--------------------------- MODULE VerifierProofs ---------------------------
(***************************************************************************)
(* Proofs about the verifier, for every set of programs, every sweep       *)
(* budget and every frame size.                                            *)
(***************************************************************************)
EXTENDS VerifierReference, FiniteSetTheorems, WellFoundedInduction, TLAPS

----------------------------------------------------------------------------
(* Lemmas about the operators.                                             *)

(* A non-empty set of naturals has a least element.                        *)
LEMMA LeastNatural ==
  ASSUME NEW T, T \subseteq Nat, T # {}
  PROVE  \E m \in T : \A t \in T : m <= t
<1>1. PICK m \in T : \A t \in T : ~ (<<t, m>> \in OpToRel(<, Nat))
  BY WFMin, NatLessThanWellFounded
<1>2. \A t \in T : ~ (t < m)
  BY <1>1 DEF OpToRel
<1> QED
  BY <1>2

(* Instructions and branch targets have their types.                       *)
LEMMA ProgFacts ==
  ASSUME TypeOK
  PROVE  /\ N \in Nat
         /\ Pcs(prog) = 0 .. N - 1
         /\ prog # <<>> => 0 \in Pcs(prog)
         /\ \A p \in Pcs(prog) : At(prog, p) \in Insn /\ Target(prog, p) \in Int
<1>1. prog \in Seq(Insn)
  BY DEF TypeOK
<1>2. \A p \in Pcs(prog) : At(prog, p) \in Insn
  BY <1>1 DEF Pcs, At
<1>3. \A p \in Pcs(prog) : Target(prog, p) \in Int
  BY <1>1, <1>2 DEF Pcs, Target, Insn
<1>4. prog # <<>> => Len(prog) > 0
  BY <1>1
<1> QED
  BY <1>1, <1>2, <1>3, <1>4 DEF N, Pcs

(* A block ends at the next start, or at the end of the program.           *)
LEMMA BlockEndFacts ==
  ASSUME TypeOK, NEW b \in Nat, b < N
  PROVE  /\ BlockEnd(b) \in starts \cup {N}
         /\ BlockEnd(b) \in Nat /\ b < BlockEnd(b) /\ BlockEnd(b) <= N
         /\ \A t \in starts : b < t => BlockEnd(b) <= t
<1> DEFINE Later == {t \in starts \cup {N} : b < t}
<1>1. N \in Nat /\ \A t \in starts : t \in Nat /\ t < N
  BY ProgFacts DEF TypeOK
<1>2. Later \subseteq Nat /\ N \in Later
  BY <1>1
<1>3. PICK e \in Later : \A t \in Later : e <= t
  <2> HIDE DEF Later
  <2> QED BY <1>2, LeastNatural
<1>4. e \in starts \cup {N} /\ b < e /\ \A t \in starts : b < t => e <= t
  BY <1>3
<1>5. /\ BlockEnd(b) \in starts \cup {N}
      /\ b < BlockEnd(b) /\ \A t \in starts : b < t => BlockEnd(b) <= t
  BY <1>4 DEF BlockEnd
<1> QED
  BY <1>1, <1>5

(* A start lies in its own block.                                          *)
LEMMA StartIsItsBlock ==
  ASSUME TypeOK, NEW q \in starts
  PROVE  InsnToBb(q) = q
<1>1. starts \subseteq Int
  BY ProgFacts DEF TypeOK
<1>2. \A s \in starts : (s <= q /\ \A t \in starts : t <= q => t <= s) <=> s = q
  BY <1>1
<1> QED
  BY <1>2 DEF InsnToBb

(* Branch targets and what follows a jump or an exit begin a block.        *)
LEMMA StartFacts ==
  ASSUME TypeOK, prog # <<>>, BadBranches = {}
  PROVE  /\ BbStarts \subseteq Pcs(prog) /\ 0 \in BbStarts
         /\ \A p \in Pcs(prog) : IsBranch(At(prog, p)) => Target(prog, p) \in BbStarts
         /\ \A p \in Pcs(prog) : EndsBlock(At(prog, p)) /\ p + 1 < N => p + 1 \in BbStarts
<1>1. \A p \in Pcs(prog) : IsBranch(At(prog, p)) => Target(prog, p) \in Pcs(prog)
  BY DEF BadBranches
<1> QED
  BY <1>1, ProgFacts DEF BbStarts

(* Where the last instruction of a block may lead, its successors cover.   *)
LEMMA SuccessorFacts ==
  ASSUME TypeOK, CfgInv, starts # {}, NEW p \in Pcs(prog), p + 1 \in starts \cup {N}
  PROVE  /\ Successors(p) \subseteq starts
         /\ ExecSuccessors(prog, p) \cap Pcs(prog) \subseteq Successors(p)
<1>1. IsBranch(At(prog, p)) => Target(prog, p) \in starts
  BY StartFacts DEF CfgInv
<1>2. p + 1 < N => p + 1 \in starts
  BY ProgFacts
<1>3. \A q \in starts : InsnToBb(q) = q
  BY StartIsItsBlock
<1>4. Successors(p) \subseteq starts
  BY <1>1, <1>2, <1>3 DEF Successors
<1>5. ASSUME NEW q \in Pcs(prog), q \in ExecSuccessors(prog, p)
      PROVE  q \in Successors(p)
  <2>1. q < N
    BY ProgFacts
  <2>2. CASE IsBranch(At(prog, p)) /\ q = Target(prog, p)
    BY <2>2, <1>1, <1>3 DEF Successors
  <2>3. CASE At(prog, p).kind \notin {"ja", "exit"} /\ q = p + 1
    BY <2>1, <2>3, <1>2, <1>3 DEF Successors
  <2> QED
    BY <1>5, <2>2, <2>3 DEF ExecSuccessors, IsBranch
<1> QED
  BY <1>4, <1>5

(* Inside a block control only moves to the next instruction.              *)
LEMMA MidBlockFacts ==
  ASSUME TypeOK, CfgInv, starts # {}, NEW p \in Pcs(prog), p + 1 \notin starts, p + 1 < N
  PROVE  ExecSuccessors(prog, p) \subseteq {p + 1}
<1>1. ~ EndsBlock(At(prog, p))
  BY StartFacts DEF CfgInv
<1> QED
  BY <1>1 DEF EndsBlock, ExecSuccessors

----------------------------------------------------------------------------
(* Type correctness, with the bookkeeping it rests on.                     *)

StructInv == TypeOK /\ CfgInv /\ CursorInv

(* A program that may be submitted is a sequence of instructions; the      *)
(* invariants below start from any such program.                           *)
LEMMA InitProgram == Init => prog \in Seq(Insn) /\ Unverified
BY ProgramsAssumption DEF Init

(* The bookkeeping holds before the first pass,                            *)
LEMMA InitStruct == prog \in Seq(Insn) /\ Unverified => StructInv
<1> SUFFICES ASSUME prog \in Seq(Insn), Unverified PROVE StructInv
  OBVIOUS
<1>1. Pcs(prog) \subseteq Nat
  BY DEF Pcs
<1>2. result = Verdict("Pending", 0, Imm) /\ R0 \in Regs
  BY DEF Unverified, Pending, R0, Regs, NUM_REGS
<1>3. TypeOK
  BY <1>1, <1>2, BudgetAssumption DEF Unverified, TypeOK, Verdict, Phases, Errors
<1>4. CfgInv /\ CursorInv
  BY <1>2 DEF Unverified, CfgInv, CursorInv, Analysing, Verdict
<1> QED
  BY <1>3, <1>4 DEF StructInv

(* A verdict leaves everything but phase and result alone.                 *)
LEMMA RejectStruct ==
  ASSUME StructInv, NEW e \in Errors, NEW p \in Nat, NEW r \in Regs \cup {Imm},
         phase # "done", Reject(e, p, r),
         UNCHANGED <<cfgVars, reachable, regIn, bb, pc, regs, history>>,
         changed' \in BOOLEAN, iterations' \in Nat
  PROVE  StructInv'
<1> USE DEF StructInv, Reject, cfgVars, history
<1>1. phase' = "done" /\ result' = Verdict(e, p, r) /\ e # "Ok"
  BY DEF Errors
<1>2. result' \in [verdict : Errors \cup {"Pending", "Ok"}, pc : Nat, reg : Regs \cup {Imm}]
  BY <1>1 DEF Verdict
<1>3. TypeOK'
  BY <1>1, <1>2 DEF TypeOK, Phases, N
<1>4. result'.verdict # "Ok"
  BY <1>1 DEF Verdict
<1>5. CfgInv' /\ CursorInv'
  BY <1>1, <1>4 DEF CfgInv, CursorInv, Analysing, BadBranches, BbStarts, N
<1> QED
  BY <1>3, <1>5

(* every step of the verifier keeps it,                                    *)
LEMMA StructStep == StructInv /\ [Next]_vvars => StructInv'
<1> SUFFICES ASSUME StructInv, [Next]_vvars PROVE StructInv'
  OBVIOUS
<1> USE DEF StructInv
<1>p. /\ N \in Nat /\ Pcs(prog) = 0 .. N - 1
      /\ \A p \in Pcs(prog) : At(prog, p) \in Insn /\ p \in Nat
  BY ProgFacts
<1>v. result.verdict # "Ok" \/ phase = "done"
  BY DEF CfgInv
<1>1. CASE EmptyProgram
  BY <1>1, RejectStruct DEF EmptyProgram, flowVars, TypeOK, Errors
<1>2. CASE BranchOutOfBounds
  BY <1>2, <1>p, RejectStruct DEF BranchOutOfBounds, flowVars, TypeOK, Errors, BadBranches
<1>3. CASE BuildCfg
  <2>1. BbStarts \subseteq Pcs(prog) /\ 0 \in BbStarts
    BY <1>3, StartFacts DEF BuildCfg
  <2>2. EntryRegs \in SUBSET Regs
    BY DEF EntryRegs, R1, R10, Regs, NUM_REGS
  <2>3. TypeOK'
    BY <1>3, <2>1, <2>2 DEF BuildCfg, TypeOK, Phases, history, N
  <2>4. CfgInv'
    BY <1>3, <1>v, <2>1 DEF BuildCfg, CfgInv, BadBranches, BbStarts, N
  <2>5. CursorInv'
    BY <1>3, <1>v DEF BuildCfg, CursorInv, N
  <2> QED
    BY <2>3, <2>4, <2>5
<1>4. CASE StartSweep
  <2>1. 0 \in starts /\ iterations + 1 <= MAX_BACK_EDGE_TRAVERSALS
    BY <1>4, BudgetAssumption DEF StartSweep, BudgetSpent, CfgInv, Analysing, TypeOK
  <2>b. changed' \in BOOLEAN
    BY <1>4 DEF StartSweep
  <2>2. TypeOK'
    BY <1>4, <2>1, <2>b DEF StartSweep, TypeOK, Phases, cfgVars, N
  <2>3. CfgInv' /\ CursorInv'
    BY <1>4, <1>v DEF StartSweep, CfgInv, CursorInv, Analysing, cfgVars, BadBranches, BbStarts, N
  <2> QED
    BY <2>2, <2>3
<1>5. CASE BackEdgeBudgetExceeded
  <2>b. changed' \in BOOLEAN
    BY <1>5 DEF BackEdgeBudgetExceeded
  <2> QED
    BY <1>5, <2>b, RejectStruct DEF BackEdgeBudgetExceeded, TypeOK, Errors
<1>6. CASE SkipUnreachable
  <2>1. BlockEnd(bb) \in starts \cup {N} /\ BlockEnd(bb) \in Nat /\ bb < BlockEnd(bb)
    BY <1>6, BlockEndFacts DEF SkipUnreachable, TypeOK
  <2>2. TypeOK'
    BY <1>6, <2>1 DEF SkipUnreachable, TypeOK, cfgVars, flowVars, history, N
  <2>3. CfgInv' /\ CursorInv'
    BY <1>6, <1>v, <1>p, <2>1 DEF SkipUnreachable, CfgInv, CursorInv, TypeOK, Analysing, cfgVars,
      flowVars, history, BadBranches, BbStarts, N
  <2> QED
    BY <2>2, <2>3
<1>7. CASE EnterBlock
  <2>1. BlockEnd(bb) \in Nat /\ bb < BlockEnd(bb)
    BY <1>7, BlockEndFacts DEF EnterBlock, TypeOK
  <2>2. BlockEnd(bb)' = BlockEnd(bb)
    BY <1>7 DEF EnterBlock, BlockEnd, cfgVars, N
  <2>3. TypeOK'
    BY <1>7 DEF EnterBlock, TypeOK, Phases, cfgVars, flowVars, history, N
  <2>4. CfgInv' /\ CursorInv'
    BY <1>7, <1>v, <2>1, <2>2 DEF EnterBlock, CfgInv, CursorInv, TypeOK, Analysing, cfgVars,
      flowVars, history, BadBranches, BbStarts, N
  <2> QED
    BY <2>3, <2>4
<1>8. CASE RejectWriteToR10
  BY <1>8, RejectStruct DEF RejectWriteToR10, flowVars, TypeOK, Errors
<1>9. CASE RejectUninitRead
  <2>1. At(prog, pc) \in Insn
    BY <1>9, <1>p DEF RejectUninitRead, TypeOK
  <2>2. \A bad : FirstUninit(At(prog, pc), bad) \in Regs \cup {Imm}
    BY <2>1 DEF FirstUninit, Insn, R0, Regs, NUM_REGS
  <2> QED
    BY <1>9, <2>2, RejectStruct DEF RejectUninitRead, flowVars, TypeOK, Errors
<1>10. CASE RejectStackOffset
  BY <1>10, RejectStruct DEF RejectStackOffset, flowVars, TypeOK, Errors
<1>11. CASE CheckInsn
  <2>1. /\ pc \in Pcs(prog) /\ bb \in Nat /\ bb < N /\ pc < BlockEnd(bb) /\ bb <= pc
        /\ regs \in SUBSET Regs
    BY <1>11, <1>p DEF CheckInsn, TypeOK, CursorInv
  <2>2. BlockEnd(bb) \in Nat /\ BlockEnd(bb) <= N
    BY <2>1, BlockEndFacts
  <2>3. BlockEnd(bb)' = BlockEnd(bb)
    BY <1>11 DEF CheckInsn, BlockEnd, cfgVars, N
  <2>4. Post(At(prog, pc), regs) \in SUBSET Regs
    <3>1. At(prog, pc).dst \in Regs /\ R0 \in Regs
      BY <2>1, <1>p DEF Insn, R0, Regs, NUM_REGS
    <3> QED
      BY <2>1, <3>1 DEF Post
  <2>5. /\ pc' \in Pcs(prog) /\ phase' \in {"insns", "propagate"}
        /\ phase' = "insns" => pc' = pc + 1 /\ pc + 1 < BlockEnd(bb)
        /\ phase' = "propagate" => pc' = pc /\ pc + 1 = BlockEnd(bb)
    BY <1>11, <1>p, <2>1, <2>2 DEF CheckInsn
  <2>6. TypeOK'
    BY <1>11, <2>1, <2>4, <2>5, <1>p DEF CheckInsn, TypeOK, Phases, cfgVars, flowVars, N
  <2>7. \A p \in checked' : p <= pc
    BY <1>11, <1>p DEF CheckInsn, CursorInv, TypeOK
  <2>8. CfgInv'
    BY <1>11, <1>v, <2>5 DEF CheckInsn, CfgInv, Analysing, cfgVars, flowVars, BadBranches, BbStarts, N
  <2>9. CursorInv'
    <3>1. bb' <= pc' /\ result'.verdict # "Ok"
      BY <1>11, <1>v, <1>p, <2>1, <2>5 DEF CheckInsn
    <3>2. ASSUME phase' = "insns"
          PROVE  pc' < BlockEnd(bb)' /\ \A p \in checked' : p < pc'
      BY <3>2, <1>p, <2>1, <2>3, <2>5, <2>6, <2>7 DEF TypeOK
    <3> QED
      BY <2>3, <2>5, <2>7, <3>1, <3>2 DEF CursorInv
  <2> QED
    BY <2>6, <2>8, <2>9
<1>12. CASE Propagate
  <2>1. /\ pc \in Pcs(prog) /\ bb \in Nat /\ bb < N /\ pc + 1 = BlockEnd(bb)
        /\ regs \in SUBSET Regs /\ starts # {}
    BY <1>12, <1>p DEF Propagate, TypeOK, CursorInv, CfgInv, Analysing
  <2>2. BlockEnd(bb) \in starts \cup {N} /\ BlockEnd(bb) \in Nat
    BY <2>1, BlockEndFacts
  <2>3. Successors(pc) \subseteq starts
    BY <2>1, <2>2, SuccessorFacts
  <2>4. regIn' \in [Pcs(prog) -> SUBSET Regs]
    BY <1>12, <2>1 DEF Propagate, Flow, RegFileMerge, TypeOK
  <2>5. 0 \in Pcs(prog) => regIn'[0] \subseteq regIn[0] \/ 0 \notin reachable
    BY <1>12 DEF Propagate, Flow, RegFileMerge, TypeOK
  <2>6. TypeOK'
    BY <1>12, <2>1, <2>2, <2>3, <2>4 DEF Propagate, TypeOK, Phases, cfgVars, history, N
  <2>7. CfgInv'
    <3>1. starts' = starts /\ prog' = prog /\ reachable \subseteq reachable' /\ result' = result
      BY <1>12 DEF Propagate, cfgVars
    <3>3. BadBranches' = BadBranches /\ BbStarts' = BbStarts
      BY <3>1 DEF BadBranches, BbStarts, N
    <3>4. result.verdict # "Ok"
      BY <1>v, <1>12 DEF Propagate
    <3>2. 0 \in Pcs(prog) /\ 0 \in reachable /\ regIn[0] \subseteq EntryRegs
      BY <2>1 DEF CfgInv, TypeOK
    <3> QED
      BY <3>1, <3>2, <3>3, <3>4, <2>1, <2>5 DEF CfgInv
  <2>8. CursorInv'
    BY <1>12, <1>v, <1>p, <2>1, <2>2 DEF Propagate, CursorInv, TypeOK, cfgVars, history, N
  <2> QED
    BY <2>6, <2>7, <2>8
<1>13. CASE EndSweep
  BY <1>13, <1>v DEF EndSweep, TypeOK, Phases, CfgInv, CursorInv, Analysing, cfgVars, flowVars,
    history, BadBranches, BbStarts, N
<1>14. CASE Converged
  BY <1>14, <1>v DEF Converged, TypeOK, Phases, CfgInv, CursorInv, Analysing, cfgVars, flowVars,
    history, BadBranches, BbStarts, N
<1>15. CASE RejectBlock
  <2>1. PICK b \in BadBlocks :
          \/ Reject("UnreachableCode", b, Imm)
          \/ Reject("FallthroughAfterExit", BlockEnd(b) - 1, Imm)
    BY <1>15 DEF RejectBlock
  <2>2. b \in Nat /\ BlockEnd(b) - 1 \in Nat
    BY <1>p, BlockEndFacts DEF BadBlocks, TypeOK
  <2> QED
    BY <1>15, <2>1, <2>2, RejectStruct DEF RejectBlock, flowVars, TypeOK, Errors
<1>16. CASE NoExitInstruction
  BY <1>16, RejectStruct DEF NoExitInstruction, flowVars, TypeOK, Errors
<1>17. CASE Accept
  <2>1. result' \in [verdict : Errors \cup {"Pending", "Ok"}, pc : Nat, reg : Regs \cup {Imm}]
    BY <1>17 DEF Accept, Verdict
  <2> QED
    BY <1>17, <2>1 DEF Accept, TypeOK, Phases, CfgInv, CursorInv, Analysing, cfgVars, flowVars,
      history, BadBranches, BbStarts, N
<1>18. CASE UNCHANGED vvars
  BY <1>18 DEF vvars, TypeOK, CfgInv, CursorInv, Analysing, BlockEnd, BadBranches, BbStarts, N
<1> QED
  BY <1>1, <1>2, <1>3, <1>4, <1>5, <1>6, <1>7, <1>8, <1>9, <1>10, <1>11, <1>12, <1>13, <1>14,
    <1>15, <1>16, <1>17, <1>18 DEF Next

(* so it always holds.                                                     *)
LEMMA StructInvariant == Spec => []StructInv
<1>1. Init => StructInv
  BY InitStruct, InitProgram
<1>2. StructInv /\ [Next]_vvars => StructInv'
  BY StructStep
<1> QED
  BY <1>1, <1>2, PTL DEF Spec

(* The state of the verifier has the shape TypeOK gives it: cursors are at *)
(* instructions of real blocks and no sweep outruns the budget.            *)
THEOREM TypeCorrect == Spec => []TypeOK
<1>1. StructInv => TypeOK
  BY DEF StructInv
<1> QED
  BY <1>1, StructInvariant, PTL

----------------------------------------------------------------------------
(* A quiet sweep is consistent.                                            *)

(* What is settled stays so while the solution and the record of checks do *)
(* not change.                                                             *)
LEMMA SettledFrame ==
  ASSUME UNCHANGED <<cfgVars, reachable, regIn, history>>
  PROVE  \A p : Settled(p)' = Settled(p) /\ In(p)' = In(p)
BY DEF cfgVars, history, Settled, In, HandedTo

(* One more check leaves settled what was, if the link it completes is.    *)
LEMMA CheckKeepsConsistency ==
  ASSUME StructInv, StructInv', QuietSweepIsConsistent, CheckInsn, ~ changed'
  PROVE  QuietSweepIsConsistent'
<1> USE DEF StructInv
<1>p. /\ N \in Nat /\ Pcs(prog) = 0 .. N - 1
      /\ \A p \in Pcs(prog) : At(prog, p) \in Insn /\ p \in Nat
  BY ProgFacts
<1>1. /\ phase = "insns" /\ Analysing /\ ~ changed /\ starts # {}
      /\ pc \in Pcs(prog) /\ bb \in reachable /\ bb \in starts /\ bb \in Nat /\ bb < N
      /\ bb <= pc /\ pc < BlockEnd(bb) /\ \A p \in checked : p < pc
      /\ checked \subseteq Pcs(prog) /\ starts \subseteq Pcs(prog)
  BY <1>p DEF CheckInsn, flowVars, Analysing, TypeOK, CursorInv, CfgInv
<1>k. PICK k \in Pcs(prog), s \in {regs} : k = pc /\ s = regs
  BY <1>1
<1>2. /\ prog' = prog /\ starts' = starts /\ reachable' = reachable /\ regIn' = regIn
      /\ bb' = bb /\ checked' = checked \cup {k}
      /\ seen'[k] = s /\ \A p \in Pcs(prog) : p # k => seen'[p] = seen[p]
      /\ regs' = Post(At(prog, k), s) /\ Passes(At(prog, k), s)
  BY <1>1, <1>k DEF CheckInsn, flowVars, cfgVars, TypeOK
<1>3. pc # bb => pc \notin starts
  BY <1>p, <1>1, BlockEndFacts
<1>4. In(k)' = s
  <2>1. CASE pc = bb
    BY <2>1, <1>1, <1>2, <1>k DEF In, QuietSweepIsConsistent
  <2>2. CASE pc # bb
    BY <2>2, <1>2, <1>3, <1>k DEF In
  <2> QED
    BY <2>1, <2>2
<1>5. \A p \in checked : In(p)' = In(p)
  BY <1>p, <1>1, <1>2, <1>k DEF In
<1>6. Passes(At(prog, k), In(k)') /\ regs' = Post(At(prog, k), In(k)')
  BY <1>2, <1>4
<1>7. InFlight' = {k}
  <2>1. BlockEnd(bb) \in Nat
    BY <1>1, BlockEndFacts
  <2>2. CASE pc + 1 < BlockEnd(bb)
    <3>1. pc' = pc + 1 /\ phase' = "insns"
      BY <1>1, <2>2, <1>k DEF CheckInsn
    <3>2. pc' # bb' /\ pc' - 1 = k
      BY <3>1, <1>p, <1>1, <1>2, <1>k
    <3> QED
      BY <3>1, <3>2 DEF InFlight
  <2>3. CASE ~ (pc + 1 < BlockEnd(bb))
    BY <2>3, <1>k DEF CheckInsn, InFlight
  <2> QED
    BY <2>2, <2>3
<1>8. ASSUME NEW p \in checked
      PROVE  Settled(p)'
  <2>0. p \in Pcs(prog) /\ p < pc /\ p # pc
    BY <1>1, <1>p
  <2>1. CASE p \in InFlight
    <3>1. p = pc - 1 /\ pc # bb /\ Passes(At(prog, p), In(p)) /\ regs = Post(At(prog, p), In(p))
      BY <2>1, <1>1 DEF InFlight, QuietSweepIsConsistent
    <3>2. ExecSuccessors(prog, p) \subseteq {pc}
      BY <3>1, <2>0, <1>1, <1>3, <1>p, MidBlockFacts
    <3>3. k \notin starts' /\ k \in checked' /\ seen'[k] = s
      BY <3>1, <1>2, <1>3, <1>k
    <3>4. ExecSuccessors(prog', p) \subseteq {k} /\ s = Post(At(prog', p), In(p)')
      BY <3>1, <3>2, <1>2, <1>5, <1>k
    <3>5. Passes(At(prog', p), In(p)')
      BY <3>1, <1>2, <1>5
    <3> QED
      BY <3>3, <3>4, <3>5 DEF Settled, HandedTo
  <2>2. CASE p \notin InFlight
    <3>1. Settled(p)
      BY <2>2, <1>1 DEF QuietSweepIsConsistent
    <3>2. ASSUME NEW q \in ExecSuccessors(prog, p) \cap Pcs(prog)
          PROVE  HandedTo(q, Post(At(prog, p), In(p)))'
      <4>1. HandedTo(q, Post(At(prog, p), In(p)))
        BY <3>1, <3>2 DEF Settled
      <4>2. q \notin starts => q # pc
        BY <4>1, <1>1, <1>p DEF HandedTo
      <4> QED
        BY <4>1, <4>2, <1>2, <1>5, <1>k DEF HandedTo
    <3> QED
      BY <3>1, <3>2, <1>2, <1>5 DEF Settled
  <2> QED
    BY <2>1, <2>2
<1>9. bb \in checked'
  <2>1. CASE pc = bb
    BY <2>1, <1>2, <1>k
  <2>2. CASE pc # bb
    BY <2>2, <1>1, <1>2 DEF InFlight, QuietSweepIsConsistent
  <2> QED
    BY <2>1, <2>2
<1>10. \A b \in reachable' : b < bb' => b \in checked'
  BY <1>1, <1>2 DEF QuietSweepIsConsistent
<1>11. phase' = "insns" => pc' # bb'
  BY <1>7 DEF InFlight
<1>12. \A p \in checked' \ InFlight' : Settled(p)'
  BY <1>2, <1>7, <1>8
<1>13. \A p \in InFlight' :
         /\ p \in checked' /\ bb' \in checked'
         /\ Passes(At(prog', p), In(p)') /\ regs' = Post(At(prog', p), In(p)')
  BY <1>2, <1>6, <1>7, <1>9
<1> QED
  BY <1>10, <1>11, <1>12, <1>13 DEF QuietSweepIsConsistent

(* A propagation that changes nothing finds its block's outcome in every   *)
(* successor already.                                                      *)
LEMMA PropagateKeepsConsistency ==
  ASSUME StructInv, StructInv', QuietSweepIsConsistent, Propagate, ~ changed'
  PROVE  QuietSweepIsConsistent'
<1> USE DEF StructInv
<1>p. N \in Nat /\ Pcs(prog) = 0 .. N - 1
  BY ProgFacts
<1>1. /\ phase = "propagate" /\ Analysing /\ starts # {}
      /\ pc \in Pcs(prog) /\ bb \in reachable /\ bb \in Nat /\ bb < N
      /\ pc + 1 = BlockEnd(bb)
      /\ starts \subseteq Pcs(prog) /\ reachable \subseteq starts
      /\ phase' = "blocks" /\ bb' = BlockEnd(bb)
      /\ UNCHANGED <<cfgVars, pc, regs, history>>
  BY <1>p DEF Propagate, Analysing, TypeOK, CursorInv, CfgInv
<1>2. ~ changed /\ \A b \in Successors(pc) : b \in reachable /\ regIn[b] \cap regs = regIn[b]
  BY DEF Propagate, FlowChanges, Flow, RegFileMerge
<1>3. /\ pc + 1 \in starts \cup {N}
      /\ \A t \in starts : bb < t => BlockEnd(bb) <= t
  BY <1>1, BlockEndFacts
<1>4. Successors(pc) \subseteq starts /\ ExecSuccessors(prog, pc) \cap Pcs(prog) \subseteq Successors(pc)
  BY <1>1, <1>3, SuccessorFacts
<1>5. reachable' = reachable
  BY <1>2 DEF Propagate
<1>6. regIn' = regIn
  BY <1>2 DEF Propagate, Flow, RegFileMerge, TypeOK
<1>7. \A p : Settled(p)' = Settled(p) /\ In(p)' = In(p)
  BY <1>1, <1>5, <1>6, SettledFrame
<1>8. /\ InFlight = {pc} /\ pc \in checked /\ bb \in checked
      /\ Passes(At(prog, pc), In(pc)) /\ regs = Post(At(prog, pc), In(pc))
  BY <1>1, <1>2 DEF InFlight, QuietSweepIsConsistent
<1>9. Settled(pc)
  <2>1. \A q \in ExecSuccessors(prog, pc) \cap Pcs(prog) :
          q \in starts /\ q \in reachable /\ regIn[q] \subseteq regs
    BY <1>2, <1>4
  <2> QED
    BY <2>1, <1>8 DEF Settled, HandedTo
<1>10. InFlight' = {} /\ checked' = checked
  BY <1>1 DEF InFlight, history
<1>11. \A p \in checked' : Settled(p)'
  BY <1>1, <1>2, <1>7, <1>8, <1>9, <1>10 DEF QuietSweepIsConsistent
<1>12. \A b \in reachable' : b < bb' => b \in checked'
  <2>1. ASSUME NEW b \in reachable, b < BlockEnd(bb)
        PROVE  b \in checked
    <3>1. b \in Nat /\ b <= bb
      BY <2>1, <1>p, <1>1, <1>3
    <3> QED
      BY <2>1, <3>1, <1>1, <1>2, <1>8 DEF QuietSweepIsConsistent
  <2> QED
    BY <2>1, <1>1, <1>5, <1>10
<1> QED
  BY <1>1, <1>10, <1>11, <1>12 DEF QuietSweepIsConsistent

(* Every step keeps the quiet part of a sweep consistent.                  *)
LEMMA ConsistencyStep ==
  StructInv /\ StructInv' /\ QuietSweepIsConsistent /\ [Next]_vvars => QuietSweepIsConsistent'
<1> SUFFICES ASSUME StructInv, StructInv', QuietSweepIsConsistent, [Next]_vvars,
                    Analysing', ~ changed'
             PROVE  QuietSweepIsConsistent'
  BY DEF QuietSweepIsConsistent
<1> USE DEF StructInv
<1>v. result.verdict # "Ok" \/ phase = "done"
  BY DEF CfgInv
<1>r. \A e \in Errors : \A p, r : ~ Reject(e, p, r)
  BY DEF Reject, Analysing, Verdict, Errors
<1>1. CASE \/ EmptyProgram \/ BranchOutOfBounds \/ BackEdgeBudgetExceeded \/ RejectWriteToR10
           \/ RejectUninitRead \/ RejectStackOffset \/ RejectBlock \/ NoExitInstruction
  BY <1>1, <1>r DEF EmptyProgram, BranchOutOfBounds, BackEdgeBudgetExceeded, RejectWriteToR10,
    RejectUninitRead, RejectStackOffset, RejectBlock, NoExitInstruction, Errors
<1>2. CASE BuildCfg
  BY <1>2 DEF BuildCfg
<1>3. CASE StartSweep
  <2>1. checked' = {} /\ bb' = 0 /\ phase' = "blocks" /\ reachable' \subseteq Nat
    BY <1>3, ProgFacts DEF StartSweep, TypeOK
  <2> QED
    BY <2>1 DEF QuietSweepIsConsistent, InFlight
<1>4. CASE SkipUnreachable
  <2>1. \A p : Settled(p)' = Settled(p) /\ In(p)' = In(p)
    BY <1>4, SettledFrame DEF SkipUnreachable, flowVars
  <2>2. \A t \in starts : bb < t => BlockEnd(bb) <= t
    BY <1>4, BlockEndFacts DEF SkipUnreachable, TypeOK
  <2>3. InFlight = {} /\ InFlight' = {} /\ Analysing /\ ~ changed
    BY <1>4 DEF SkipUnreachable, InFlight, Analysing, flowVars
  <2>4. ASSUME NEW b \in reachable, b < BlockEnd(bb)
        PROVE  b \in checked
    <3>1. b \in Nat /\ bb \in Nat /\ b # bb /\ BlockEnd(bb) \in Nat
      BY <1>4, ProgFacts, BlockEndFacts DEF SkipUnreachable, TypeOK
    <3> QED
      BY <2>2, <2>3, <2>4, <3>1 DEF TypeOK, QuietSweepIsConsistent
  <2> QED
    BY <1>4, <2>1, <2>3, <2>4 DEF QuietSweepIsConsistent, SkipUnreachable, flowVars, history
<1>5. CASE EnterBlock
  <2>1. \A p : Settled(p)' = Settled(p) /\ In(p)' = In(p)
    BY <1>5, SettledFrame DEF EnterBlock, flowVars
  <2>2. InFlight = {} /\ InFlight' = {} /\ Analysing /\ ~ changed
    BY <1>5 DEF EnterBlock, InFlight, Analysing, flowVars
  <2> QED
    BY <1>5, <2>1, <2>2 DEF QuietSweepIsConsistent, EnterBlock, flowVars, history
<1>6. CASE CheckInsn
  BY <1>6, CheckKeepsConsistency
<1>7. CASE Propagate
  BY <1>7, PropagateKeepsConsistency
<1>8. CASE EndSweep \/ Converged \/ Accept
  <2>1. \A p : Settled(p)' = Settled(p) /\ In(p)' = In(p)
    BY <1>8, SettledFrame DEF EndSweep, Converged, Accept, flowVars
  <2>2. InFlight = {} /\ InFlight' = {} /\ Analysing /\ ~ changed /\ phase' # "insns"
    BY <1>8 DEF EndSweep, Converged, Accept, InFlight, Analysing, flowVars
  <2>3. UNCHANGED <<reachable, checked, bb>>
    BY <1>8 DEF EndSweep, Converged, Accept, flowVars, history
  <2> QED
    BY <2>1, <2>2, <2>3 DEF QuietSweepIsConsistent
<1>9. CASE UNCHANGED vvars
  BY <1>9 DEF vvars, QuietSweepIsConsistent, Analysing, InFlight, Settled, In, HandedTo
<1> QED
  BY <1>1, <1>2, <1>3, <1>4, <1>5, <1>6, <1>7, <1>8, <1>9 DEF Next

(* A sweep of the data-flow analysis that has changed nothing so far has   *)
(* checked every reachable block it has passed, and every instruction it   *)
(* checked hands its successors a state they were checked by or better.    *)
THEOREM SweepConsistent == Spec => []QuietSweepIsConsistent
<1>1. Init => QuietSweepIsConsistent
  BY DEF Init, Unverified, Pending, Verdict, QuietSweepIsConsistent, Analysing
<1>2. StructInv /\ StructInv' /\ QuietSweepIsConsistent /\ [Next]_vvars => QuietSweepIsConsistent'
  BY ConsistencyStep
<1> QED
  BY <1>1, <1>2, StructInvariant, PTL DEF Spec

(* Along the analysis a reachable block stays reachable and its entry      *)
(* state only loses registers: every merge is a descent.                   *)
THEOREM EntryStatesDescend == Spec => StatesOnlyShrink
<1>1. ASSUME StructInv, [Next]_vvars, phase # "cfg"
      PROVE  /\ reachable \subseteq reachable'
             /\ \A b \in reachable : regIn'[b] \subseteq regIn[b]
  <2>1. CASE Propagate
    BY <1>1, <2>1 DEF Propagate, Flow, RegFileMerge, StructInv, TypeOK
  <2>2. CASE UNCHANGED <<reachable, regIn>>
    BY <2>2
  <2> QED
    BY <1>1, <2>1, <2>2 DEF Next, vvars, flowVars, EmptyProgram, BranchOutOfBounds, BuildCfg, StartSweep,
      BackEdgeBudgetExceeded, SkipUnreachable, EnterBlock, RejectWriteToR10, RejectUninitRead,
      RejectStackOffset, CheckInsn, EndSweep, Converged, RejectBlock, NoExitInstruction, Accept
<1>2. StructInv /\ [Next]_vvars =>
        [phase # "cfg" =>
           /\ reachable \subseteq reachable'
           /\ \A b \in reachable : regIn'[b] \subseteq regIn[b]]_vvars
  BY <1>1
<1> QED
  BY <1>2, StructInvariant, PTL DEF Spec, StatesOnlyShrink

----------------------------------------------------------------------------
(* What acceptance means.                                                  *)

NoBadBlocks == result.verdict = "Ok" => BadBlocks = {}

(* Only Accept gives the verdict Ok, with no bad block.                    *)
LEMMA NoBadBlocksStep == StructInv /\ NoBadBlocks /\ [Next]_vvars => NoBadBlocks'
<1> SUFFICES ASSUME StructInv, NoBadBlocks, [Next]_vvars, result'.verdict = "Ok"
             PROVE  BadBlocks' = {}
  BY DEF NoBadBlocks
<1>1. ASSUME UNCHANGED <<prog, starts, reachable>>, BadBlocks = {}
      PROVE  BadBlocks' = {}
  BY <1>1 DEF BadBlocks, DeadEnd, BlockEnd, Successors, InsnToBb, N
<1>2. CASE UNCHANGED vvars
  BY <1>1, <1>2 DEF vvars, NoBadBlocks
<1>3. CASE Accept
  BY <1>1, <1>3 DEF Accept, cfgVars, flowVars
<1>4. CASE result' = result
  <2>1. phase # "done" => result.verdict # "Ok"
    BY DEF StructInv, CfgInv
  <2>2. ~ Next \/ phase # "done"
    BY DEF Next, EmptyProgram, BranchOutOfBounds, BuildCfg, StartSweep, BackEdgeBudgetExceeded,
      SkipUnreachable, EnterBlock, RejectWriteToR10, RejectUninitRead, RejectStackOffset,
      CheckInsn, Propagate, EndSweep, Converged, RejectBlock, NoExitInstruction, Accept
  <2> QED
    BY <1>2, <1>4, <2>1, <2>2
<1>5. \A e \in Errors : \A p, r : ~ Reject(e, p, r)
  BY DEF Reject, Verdict, Errors
<1> QED
  BY <1>2, <1>3, <1>4, <1>5 DEF Next, EmptyProgram, BranchOutOfBounds, BuildCfg, StartSweep,
    BackEdgeBudgetExceeded, SkipUnreachable, EnterBlock, RejectWriteToR10, RejectUninitRead,
    RejectStackOffset, CheckInsn, Propagate, EndSweep, Converged, RejectBlock, NoExitInstruction,
    Errors

(* An accepted program's entry was checked, and what was checked is closed *)
(* under control flow: the solution of the last, quiet sweep.              *)
LEMMA AcceptedIsClosed ==
  ASSUME StructInv, QuietSweepIsConsistent, result.verdict = "Ok"
  PROVE  /\ 0 \in checked /\ In(0) \subseteq EntryRegs
         /\ \A p \in checked :
              /\ Passes(At(prog, p), In(p))
              /\ \A q \in ExecSuccessors(prog, p) \cap Pcs(prog) :
                   q \in checked /\ In(q) \subseteq Post(At(prog, p), In(p))
<1> USE DEF StructInv
<1>1. Analysing /\ ~ changed /\ phase = "done" /\ starts # {} /\ bb = N /\ InFlight = {}
  BY DEF Analysing, CfgInv, CursorInv, InFlight
<1>2. 0 \in reachable /\ 0 \in starts /\ regIn[0] \subseteq EntryRegs
  BY <1>1 DEF CfgInv, TypeOK
<1>3. \A b \in reachable : b \in checked
  BY <1>1, ProgFacts DEF TypeOK, QuietSweepIsConsistent
<1>4. \A p \in checked : Settled(p)
  BY <1>1 DEF QuietSweepIsConsistent
<1> QED
  BY <1>2, <1>3, <1>4 DEF Settled, HandedTo, In

(* Some block ends where the program does.                                 *)
LEMMA LastBlockExists ==
  ASSUME TypeOK, starts # {}
  PROVE  \E b \in starts : BlockEnd(b) = N
<1> DEFINE Distances == {N - s : s \in starts}
<1>1. N \in Nat /\ \A s \in starts : s \in Nat /\ s < N
  BY ProgFacts DEF TypeOK
<1>2. Distances \subseteq Nat /\ Distances # {}
  BY <1>1
<1>3. PICK d \in Distances : \A e \in Distances : d <= e
  <2> HIDE DEF Distances
  <2> QED BY <1>2, LeastNatural
<1>4. PICK b \in starts : d = N - b
  BY <1>3
<1>5. \A t \in starts : N - b <= N - t
  BY <1>3, <1>4
<1>6. \A t \in starts : ~ (b < t)
  BY <1>1, <1>5
<1>7. BlockEnd(b) \in starts \cup {N} /\ b < BlockEnd(b)
  BY <1>1, BlockEndFacts
<1> QED
  BY <1>6, <1>7

(* Everything the stages after the verifier take from it.                  *)
VerifierInv == StructInv /\ QuietSweepIsConsistent /\ NoBadBlocks

(* It holds before the first pass,                                         *)
LEMMA VerifierStart == Init => VerifierInv
<1>1. Init => QuietSweepIsConsistent /\ NoBadBlocks
  BY DEF Init, Unverified, Pending, Verdict, QuietSweepIsConsistent, NoBadBlocks, Analysing
<1> QED
  BY <1>1, InitStruct, InitProgram DEF VerifierInv

(* and every step keeps it.                                                *)
LEMMA VerifierStep == VerifierInv /\ [Next]_vvars => VerifierInv'
BY StructStep, ConsistencyStep, NoBadBlocksStep DEF VerifierInv

(* No action writes the program.                                           *)
LEMMA ProgramStays == [Next]_vvars => prog' = prog
  BY DEF Next, vvars, cfgVars, flowVars, history, EmptyProgram, BranchOutOfBounds, BuildCfg,
    StartSweep, BackEdgeBudgetExceeded, SkipUnreachable, EnterBlock, RejectWriteToR10,
    RejectUninitRead, RejectStackOffset, CheckInsn, Propagate, EndSweep, Converged, RejectBlock,
    NoExitInstruction, Accept, Reject

----------------------------------------------------------------------------
(* The paths of a program: PathStates is closed under its steps, and it is *)
(* the least set that is and has the entry.                                *)

(* A set with 0 and with every successor of its members has all naturals.  *)
LEMMA NaturalsInductively ==
  ASSUME NEW S, 0 \in S, \A n \in Nat : n \in S => n + 1 \in S
  PROVE  Nat \subseteq S
<1> DEFINE Missing == Nat \ S
<1> SUFFICES ASSUME Missing # {} PROVE FALSE
  OBVIOUS
<1>1. PICK m \in Missing : \A t \in Missing : m <= t
  <2> HIDE DEF Missing
  <2>1. Missing \subseteq Nat
    BY DEF Missing
  <2> QED
    BY <2>1, LeastNatural
<1>2. m # 0 /\ m - 1 \in Nat /\ (m - 1) + 1 = m
  BY <1>1
<1>3. m - 1 \in S
  BY <1>1, <1>2
<1> QED
  BY <1>1, <1>2, <1>3

PathStart(r)      == {<<0, r \notin EntryRegs>>}
Further(p, r, T)  == T \cup UNION {PathStep(p, r, t) : t \in T}

(* The first m rounds of the search.                                       *)
IsRounds(p, r, m, f) ==
  f = [k \in 0 .. m |-> IF k = 0 THEN PathStart(r) ELSE Further(p, r, f[k - 1])]

(* The recursion that defines the rounds has a solution, round by round.   *)
LEMMA RoundsExist ==
  ASSUME NEW p, NEW r
  PROVE  \A m \in Nat : \E f : IsRounds(p, r, m, f)
<1> DEFINE S == {m \in Nat : \E f : IsRounds(p, r, m, f)}
<1>1. 0 \in S
  <2> DEFINE f == [k \in 0 .. 0 |-> PathStart(r)]
  <2>1. f = [k \in 0 .. 0 |-> IF k = 0 THEN PathStart(r) ELSE Further(p, r, f[k - 1])]
    OBVIOUS
  <2>2. IsRounds(p, r, 0, f)
    BY <2>1 DEF IsRounds
  <2> QED
    BY <2>2
<1>2. ASSUME NEW m \in Nat, m \in S
      PROVE  m + 1 \in S
  <2>1. PICK f : IsRounds(p, r, m, f)
    BY <1>2
  <2> DEFINE g == [k \in 0 .. m + 1 |-> IF k <= m THEN f[k] ELSE Further(p, r, f[m])]
  <2>2. \A k \in 0 .. m : f[k] = IF k = 0 THEN PathStart(r) ELSE Further(p, r, f[k - 1])
    BY <2>1 DEF IsRounds
  <2>3. ASSUME NEW k \in 0 .. m + 1
        PROVE  g[k] = IF k = 0 THEN PathStart(r) ELSE Further(p, r, g[k - 1])
    <3>1. CASE k = 0
      BY <2>2, <3>1
    <3>2. CASE k # 0 /\ k <= m
      <4>1. k - 1 \in 0 .. m /\ k - 1 \in 0 .. m + 1 /\ k \in 0 .. m
        BY <3>2
      <4>2. g[k] = f[k] /\ g[k - 1] = f[k - 1]
        BY <3>2, <4>1
      <4> QED
        BY <2>2, <3>2, <4>1, <4>2
    <3>3. CASE k = m + 1
      <4>1. k # 0 /\ k - 1 = m /\ ~ (k <= m) /\ m \in 0 .. m + 1 /\ m <= m
        BY <3>3
      <4>2. g[k] = Further(p, r, f[m]) /\ g[k - 1] = f[m]
        BY <4>1
      <4> QED
        BY <4>1, <4>2
    <3> QED
      BY <3>1, <3>2, <3>3
  <2>4. IsRounds(p, r, m + 1, g)
    BY <2>3 DEF IsRounds
  <2> QED
    BY <2>4
<1>3. Nat \subseteq S
  <2> HIDE DEF S
  <2> QED
    BY <1>1, <1>2, NaturalsInductively
<1> QED
  BY <1>3

(* The rounds PathStates is the last one of.                               *)
LEMMA PathRounds ==
  ASSUME NEW p \in Seq(Insn), NEW r
  PROVE  \E f : /\ PathStates(p, r) = f[2 * Len(p)]
                /\ f[0] = PathStart(r)
                /\ \A k \in 0 .. 2 * Len(p) - 1 : f[k + 1] = Further(p, r, f[k])
<1> DEFINE m == 2 * Len(p)
           f == CHOOSE h : IsRounds(p, r, m, h)
<1>1. PathStates(p, r) = f[m]
  BY DEF PathStates, IsRounds, PathStart, Further
<1>2. m \in Nat
  OBVIOUS
<1>3. IsRounds(p, r, m, f)
  <2> HIDE DEF m
  <2> QED
    BY <1>2, RoundsExist
<1> HIDE DEF f, m
<1>4. \A k \in 0 .. m : f[k] = IF k = 0 THEN PathStart(r) ELSE Further(p, r, f[k - 1])
  BY <1>3 DEF IsRounds
<1>5. f[0] = PathStart(r)
  BY <1>2, <1>4
<1>6. ASSUME NEW k \in 0 .. m - 1
      PROVE  f[k + 1] = Further(p, r, f[k])
  <2>1. k + 1 \in 0 .. m /\ k + 1 # 0 /\ (k + 1) - 1 = k
    BY <1>2
  <2> QED
    BY <1>4, <2>1
<1> QED
  BY <1>1, <1>5, <1>6 DEF m

(* Whatever holds the entry and is closed under PathStep has all the pairs *)
(* on paths.                                                               *)
LEMMA PathStatesLeast ==
  ASSUME NEW p \in Seq(Insn), NEW r, NEW Z, PathStart(r) \subseteq Z,
         \A t \in Z : PathStep(p, r, t) \subseteq Z
  PROVE  PathStates(p, r) \subseteq Z
<1> DEFINE m == 2 * Len(p)
<1>m. m \in Nat
  OBVIOUS
<1> HIDE DEF m
<1>1. PICK f : /\ PathStates(p, r) = f[m] /\ f[0] = PathStart(r)
               /\ \A k \in 0 .. m - 1 : f[k + 1] = Further(p, r, f[k])
  BY PathRounds DEF m
<1> DEFINE S == {k \in Nat : k <= m => f[k] \subseteq Z}
<1>2. 0 \in S
  BY <1>1
<1>3. ASSUME NEW k \in Nat, k \in S
      PROVE  k + 1 \in S
  <2> SUFFICES ASSUME k + 1 <= m PROVE f[k + 1] \subseteq Z
    OBVIOUS
  <2>1. k \in 0 .. m - 1 /\ f[k] \subseteq Z
    BY <1>3, <1>m
  <2>2. f[k + 1] = Further(p, r, f[k])
    BY <1>1, <2>1
  <2> QED
    BY <2>1, <2>2 DEF Further
<1>4. Nat \subseteq S
  <2> HIDE DEF S
  <2> QED
    BY <1>2, <1>3, NaturalsInductively
<1> QED
  BY <1>1, <1>4, <1>m

(* The pairs are instructions of the program with a truth value.           *)
LEMMA PathStepPairs ==
  ASSUME NEW p \in Seq(Insn), NEW r, NEW t \in Pcs(p) \X BOOLEAN
  PROVE  PathStep(p, r, t) \subseteq Pcs(p) \X BOOLEAN
<1>1. t[2] \in BOOLEAN
  OBVIOUS
<1>2. UninitAfter(At(p, t[1]), r, t[2]) \in BOOLEAN
  BY <1>1 DEF UninitAfter
<1> QED
  BY <1>2 DEF PathStep

(* The entry is an instruction with a truth value,                         *)
LEMMA EntryPair ==
  ASSUME NEW r, NEW S, 0 \in S
  PROVE  PathStart(r) \subseteq S \X BOOLEAN
<1>1. (r \notin EntryRegs) \in BOOLEAN
  OBVIOUS
<1>2. \A u \in BOOLEAN : {<<0, u>>} \subseteq S \X BOOLEAN
  OBVIOUS
<1> QED
  BY <1>1, <1>2, Zenon DEF PathStart

(* so all of PathStates are.                                               *)
LEMMA PathStatePairs ==
  ASSUME NEW p \in Seq(Insn), NEW r, p # <<>>
  PROVE  PathStates(p, r) \subseteq Pcs(p) \X BOOLEAN
<1>1. 0 \in Pcs(p)
  BY DEF Pcs
<1>3. PathStart(r) \subseteq Pcs(p) \X BOOLEAN
  BY <1>1, EntryPair
<1> QED
  BY <1>3, PathStepPairs, PathStatesLeast

(* There are two truth values.                                             *)
LEMMA TwoTruthValues == IsFiniteSet(BOOLEAN) /\ Cardinality(BOOLEAN) = 2
<1>1. IsFiniteSet({TRUE}) /\ Cardinality({TRUE}) = 1
  BY FS_Singleton
<1>2. FALSE \notin {TRUE} /\ {TRUE, FALSE} = {TRUE} \cup {FALSE}
  OBVIOUS
<1>3. /\ IsFiniteSet({TRUE} \cup {FALSE})
      /\ Cardinality({TRUE} \cup {FALSE}) =
           IF FALSE \in {TRUE} THEN Cardinality({TRUE}) ELSE Cardinality({TRUE}) + 1
  BY <1>1, FS_AddElement, Zenon
<1>4. Cardinality({TRUE} \cup {FALSE}) = 1 + 1
  BY <1>1, <1>2, <1>3, Zenon
<1>5. 1 + 1 = 2
  OBVIOUS
<1>6. BOOLEAN = {TRUE, FALSE}
  OBVIOUS
<1> QED
  BY <1>2, <1>3, <1>4, <1>5, <1>6, Zenon

(* The entry is on a path, and the search ends where it adds nothing: each *)
(* round before that finds a pair, and there are only 2 * Len(p).          *)
LEMMA PathStatesClosed ==
  ASSUME NEW p \in Seq(Insn), NEW r, p # <<>>
  PROVE  /\ PathStart(r) \subseteq PathStates(p, r)
         /\ \A t \in PathStates(p, r) : PathStep(p, r, t) \subseteq PathStates(p, r)
<1> DEFINE m == 2 * Len(p)
           All == Pcs(p) \X BOOLEAN
<1>m. m \in Nat
  OBVIOUS
<1>all. IsFiniteSet(All) /\ Cardinality(All) = m
  <2>1. IsFiniteSet(Pcs(p)) /\ Cardinality(Pcs(p)) = Len(p)
    <3>1. Len(p) \in Nat
      OBVIOUS
    <3>2. IsFiniteSet(0 .. Len(p) - 1)
          /\ Cardinality(0 .. Len(p) - 1) = IF 0 > Len(p) - 1 THEN 0 ELSE Len(p) - 1 - 0 + 1
      BY <3>1, FS_Interval
    <3> QED
      BY <3>1, <3>2 DEF Pcs
  <2>4. IsFiniteSet(All) /\ Cardinality(All) = Len(p) * 2
    BY <2>1, TwoTruthValues, FS_Product, ZenonT(30)
  <2> QED
    BY <2>4
<1> HIDE DEF m
<1>1. PICK f : /\ PathStates(p, r) = f[m] /\ f[0] = PathStart(r)
               /\ \A k \in 0 .. m - 1 : f[k + 1] = Further(p, r, f[k])
  BY PathRounds DEF m
<1>2. PathStart(r) \subseteq All /\ \A t \in All : PathStep(p, r, t) \subseteq All
  <2>1. 0 \in Pcs(p)
    BY DEF Pcs
  <2> QED
    BY <2>1, PathStepPairs, EntryPair
<1> HIDE DEF All
<1> DEFINE Shut(k) == Further(p, r, f[k]) \subseteq f[k]
           S == {k \in Nat : k <= m => /\ f[k] \subseteq All /\ PathStart(r) \subseteq f[k]
                                       /\ Shut(k) \/ Cardinality(f[k]) > k}
<1>3. 0 \in S
  <2>1. Cardinality(f[0]) = 1
    BY <1>1, FS_Singleton DEF PathStart
  <2> QED
    BY <1>1, <1>2, <2>1
<1>4. ASSUME NEW k \in Nat, k \in S
      PROVE  k + 1 \in S
  <2> SUFFICES ASSUME k + 1 <= m
               PROVE  /\ f[k + 1] \subseteq All /\ PathStart(r) \subseteq f[k + 1]
                      /\ Shut(k + 1) \/ Cardinality(f[k + 1]) > k + 1
    OBVIOUS
  <2>1. /\ f[k] \subseteq All /\ PathStart(r) \subseteq f[k]
        /\ Shut(k) \/ Cardinality(f[k]) > k
    BY <1>4, <1>m
  <2>2. f[k + 1] = Further(p, r, f[k])
    BY <1>1, <1>m
  <2>3. f[k] \subseteq f[k + 1]
    BY <2>2 DEF Further
  <2>4. f[k + 1] \subseteq All
    BY <1>2, <2>1, <2>2 DEF Further
  <2>5. CASE Shut(k)
    <3>1. f[k + 1] = f[k]
      BY <2>2, <2>3, <2>5
    <3> QED
      BY <2>1, <2>4, <2>5, <3>1
  <2>6. CASE ~ Shut(k)
    <3>1. f[k + 1] # f[k] /\ Cardinality(f[k]) > k
      BY <2>1, <2>2, <2>6
    <3>2. IsFiniteSet(f[k + 1])
      BY <1>all, <2>4, FS_Subset
    <3>3. /\ IsFiniteSet(f[k]) /\ Cardinality(f[k]) <= Cardinality(f[k + 1])
          /\ Cardinality(f[k + 1]) # Cardinality(f[k])
      BY <2>3, <3>1, <3>2, FS_Subset
    <3>4. Cardinality(f[k]) \in Nat /\ Cardinality(f[k + 1]) \in Nat
      BY <3>2, <3>3, FS_CardinalityType
    <3>5. Cardinality(f[k + 1]) > k + 1
      BY <3>1, <3>3, <3>4
    <3> QED
      BY <2>1, <2>3, <2>4, <3>5
  <2> QED
    BY <2>5, <2>6
<1>5. Nat \subseteq S
  <2> HIDE DEF S
  <2> QED
    BY <1>3, <1>4, NaturalsInductively
<1>6. /\ f[m] \subseteq All /\ PathStart(r) \subseteq f[m]
      /\ Shut(m) \/ Cardinality(f[m]) > m
  BY <1>5, <1>m
<1>7. Cardinality(f[m]) <= m /\ Cardinality(f[m]) \in Nat
  <2>1. IsFiniteSet(f[m]) /\ Cardinality(f[m]) <= Cardinality(All)
    BY <1>all, <1>6, FS_Subset
  <2> QED
    BY <1>all, <2>1, FS_CardinalityType
<1>8. Shut(m)
  BY <1>6, <1>7, <1>m
<1> QED
  BY <1>1, <1>6, <1>8 DEF Further

----------------------------------------------------------------------------
(* What the analysis finds, the paths bear out.                            *)

(* State s before instruction p: some path leads to p, and every register  *)
(* s does not hold is uninitialised on one of them.                        *)
Witnessed(p, s) ==
  \A r \in Regs : /\ \E u \in BOOLEAN : <<p, u>> \in PathStates(prog, r)
                  /\ r \notin s => <<p, TRUE>> \in PathStates(prog, r)

PathsInv ==
  /\ TailCallFree(prog)
  /\ phase = "cfg" => checked = {}
  /\ starts # {} =>
       /\ \A b \in reachable : Witnessed(b, regIn[b])
       /\ \A p \in checked : Witnessed(p, Regs)
       /\ phase = "insns" => Witnessed(pc, regs)
       /\ phase = "propagate" =>
            \E s \in SUBSET Regs : Witnessed(pc, s) /\ regs = Post(At(prog, pc), s)

(* What the steps of the verifier use of PathStates.                       *)
LEMMA PathFacts ==
  ASSUME TypeOK, prog # <<>>, NEW r
  PROVE  /\ prog \in Seq(Insn)
         /\ <<0, r \notin EntryRegs>> \in PathStates(prog, r)
         /\ PathStates(prog, r) \subseteq Pcs(prog) \X BOOLEAN
         /\ \A t \in PathStates(prog, r) : PathStep(prog, r, t) \subseteq PathStates(prog, r)
<1>1. prog \in Seq(Insn)
  BY DEF TypeOK
<1>2. PathStart(r) \subseteq PathStates(prog, r)
  BY <1>1, PathStatesClosed
<1> QED
  BY <1>1, <1>2, PathStatesClosed, PathStatePairs DEF PathStart

(* One instruction takes what is witnessed before it to its successors.    *)
LEMMA WitnessedOnward ==
  ASSUME TypeOK, prog # <<>>, NEW p \in Pcs(prog), NEW s, Witnessed(p, s),
         NEW q \in ExecSuccessors(prog, p) \cap Pcs(prog)
  PROVE  Witnessed(q, Post(At(prog, p), s))
<1> SUFFICES ASSUME NEW r \in Regs
             PROVE  /\ \E u \in BOOLEAN : <<q, u>> \in PathStates(prog, r)
                    /\ r \notin Post(At(prog, p), s) => <<q, TRUE>> \in PathStates(prog, r)
  BY DEF Witnessed
<1> DEFINE i == At(prog, p)
<1>1. ASSUME NEW u \in BOOLEAN, <<p, u>> \in PathStates(prog, r)
      PROVE  <<q, UninitAfter(i, r, u)>> \in PathStates(prog, r)
  <2>1. <<q, UninitAfter(At(prog, <<p, u>>[1]), r, <<p, u>>[2])>> \in PathStep(prog, r, <<p, u>>)
    BY DEF PathStep
  <2>2. <<p, u>>[1] = p /\ <<p, u>>[2] = u
    OBVIOUS
  <2>3. <<q, UninitAfter(i, r, u)>> \in PathStep(prog, r, <<p, u>>)
    BY <2>1, <2>2, Zenon
  <2> QED
    BY <1>1, <2>3, PathFacts
<1>2. PICK u \in BOOLEAN : <<p, u>> \in PathStates(prog, r)
  BY DEF Witnessed
<1>3. UninitAfter(i, r, u) \in BOOLEAN
  BY DEF UninitAfter
<1>4. ASSUME r \notin Post(i, s)
      PROVE  <<q, TRUE>> \in PathStates(prog, r)
  <2>1. CASE i.kind = "call" /\ r \in ArgRegs
    <3>1. UninitAfter(i, r, u) = TRUE
      BY <2>1 DEF UninitAfter
    <3> QED
      BY <1>1, <1>2, <3>1
  <2>2. CASE ~ (i.kind = "call" /\ r \in ArgRegs)
    <3>1. r \notin s /\ UninitAfter(i, r, TRUE) = TRUE
      BY <1>4, <2>2 DEF Post, UninitAfter
    <3>2. <<p, TRUE>> \in PathStates(prog, r)
      BY <3>1 DEF Witnessed
    <3> QED
      BY <1>1, <3>1, <3>2
  <2> QED
    BY <2>1, <2>2
<1> HIDE DEF i
<1> QED
  BY <1>1, <1>2, <1>3, <1>4 DEF i

(* Without tail calls a block's successors are where control goes.         *)
LEMMA SuccessorsAreReal ==
  ASSUME TypeOK, CfgInv, TailCallFree(prog), starts # {},
         NEW p \in Pcs(prog), p + 1 \in starts \cup {N}
  PROVE  Successors(p) = ExecSuccessors(prog, p) \cap Pcs(prog)
<1>1. IsBranch(At(prog, p)) => Target(prog, p) \in starts
  BY StartFacts DEF CfgInv
<1>2. /\ p + 1 < N => p + 1 \in starts
      /\ N \in Nat /\ Pcs(prog) = 0 .. N - 1 /\ starts \subseteq Pcs(prog)
  BY ProgFacts DEF TypeOK
<1>3. \A q \in starts : InsnToBb(q) = q
  BY StartIsItsBlock
<1>4. At(prog, p).kind # "tailcall"
  BY DEF TailCallFree
<1> QED
  BY <1>1, <1>2, <1>3, <1>4, SuccessorFacts DEF Successors, ExecSuccessors, IsBranch

(* ... and inside a block it goes to the next instruction.                 *)
LEMMA MidBlockFalls ==
  ASSUME TypeOK, CfgInv, TailCallFree(prog), starts # {},
         NEW p \in Pcs(prog), p + 1 \notin starts, p + 1 < N
  PROVE  ExecSuccessors(prog, p) \cap Pcs(prog) = {p + 1}
<1>1. ~ EndsBlock(At(prog, p))
  BY StartFacts DEF CfgInv
<1>2. At(prog, p).kind # "tailcall" /\ p + 1 \in Pcs(prog)
  BY ProgFacts DEF TailCallFree
<1> QED
  BY <1>1, <1>2 DEF EndsBlock, ExecSuccessors

(* Witnesses of two states witness their merge, and any weaker claim.      *)
LEMMA WitnessedWeaker ==
  ASSUME NEW p, NEW s, NEW t, Witnessed(p, s)
  PROVE  /\ Witnessed(p, t) => Witnessed(p, s \cap t)
         /\ s \subseteq t => Witnessed(p, t)
BY DEF Witnessed

(* The check of an instruction hands its state on inside the block, and    *)
(* the propagation to the block's successors.                              *)
LEMMA PathsCheck ==
  ASSUME StructInv, PathsInv, CheckInsn
  PROVE  PathsInv'
<1> USE DEF StructInv
<1>p. N \in Nat /\ Pcs(prog) = 0 .. N - 1
  BY ProgFacts
<1>1. /\ phase = "insns" /\ starts # {} /\ prog # <<>>
      /\ pc \in Pcs(prog) /\ bb \in starts /\ bb \in Nat /\ bb < N /\ bb <= pc /\ pc < BlockEnd(bb)
  BY <1>p DEF CheckInsn, TypeOK, CursorInv, CfgInv, Analysing
<1>k. PICK k \in Pcs(prog), s \in SUBSET Regs : k = pc /\ s = regs
  BY <1>1 DEF TypeOK
<1>2. /\ prog' = prog /\ starts' = starts /\ reachable' = reachable /\ regIn' = regIn
      /\ regs' = Post(At(prog, k), s) /\ checked' = checked \cup {k}
  BY <1>k DEF CheckInsn, flowVars, cfgVars
<1>3. \A p, t : Witnessed(p, t)' <=> Witnessed(p, t)
  BY <1>2 DEF Witnessed
<1>4. Witnessed(k, s) /\ Witnessed(k, Regs)
  BY <1>1, <1>k, WitnessedWeaker DEF PathsInv
<1>5. BlockEnd(bb) \in Nat /\ BlockEnd(bb) <= N /\ \A t \in starts : bb < t => BlockEnd(bb) <= t
  BY <1>1, BlockEndFacts
<1>6. CASE pc + 1 < BlockEnd(bb)
  <2>1. k + 1 \notin starts /\ k + 1 < N
    BY <1>p, <1>1, <1>5, <1>6, <1>k
  <2>2. k + 1 \in ExecSuccessors(prog, k) \cap Pcs(prog)
    BY <1>1, <2>1, MidBlockFalls DEF PathsInv
  <2>3. Witnessed(k + 1, Post(At(prog, k), s))
    BY <1>1, <1>4, <2>2, WitnessedOnward
  <2>4. phase' = "insns" /\ pc' = k + 1
    BY <1>1, <1>6, <1>k DEF CheckInsn
  <2>5. Witnessed(pc, regs)'
    BY <1>2, <1>3, <2>3, <2>4
  <2> QED
    BY <1>1, <1>2, <1>3, <1>4, <2>4, <2>5 DEF PathsInv
<1>7. CASE ~ (pc + 1 < BlockEnd(bb))
  <2>1. phase' = "propagate" /\ pc' = k
    BY <1>7, <1>k DEF CheckInsn
  <2>2. (Witnessed(pc, s) /\ regs = Post(At(prog, pc), s))'
    BY <1>2, <1>3, <1>4, <2>1
  <2> QED
    BY <1>1, <1>2, <1>3, <1>4, <2>1, <2>2 DEF PathsInv
<1> QED
  BY <1>6, <1>7

(* A block reached is reached on a path, and merges add no false claim.    *)
LEMMA PathsPropagate ==
  ASSUME StructInv, PathsInv, Propagate
  PROVE  PathsInv'
<1> USE DEF StructInv
<1>p. N \in Nat /\ Pcs(prog) = 0 .. N - 1
  BY ProgFacts
<1>1. /\ phase = "propagate" /\ starts # {} /\ prog # <<>>
      /\ pc \in Pcs(prog) /\ bb \in Nat /\ bb < N /\ pc + 1 = BlockEnd(bb)
      /\ reachable \subseteq Pcs(prog)
  BY <1>p DEF Propagate, TypeOK, CursorInv, CfgInv, Analysing
<1>2. pc + 1 \in starts \cup {N}
  BY <1>1, BlockEndFacts
<1>3. Successors(pc) = ExecSuccessors(prog, pc) \cap Pcs(prog)
  BY <1>1, <1>2, SuccessorsAreReal DEF PathsInv
<1>4. PICK s \in SUBSET Regs : Witnessed(pc, s) /\ regs = Post(At(prog, pc), s)
  BY <1>1 DEF PathsInv
<1>5. \A b \in Successors(pc) : b \in Pcs(prog) /\ Witnessed(b, regs)
  BY <1>1, <1>3, <1>4, WitnessedOnward
<1>6. /\ prog' = prog /\ starts' = starts /\ checked' = checked /\ phase' = "blocks"
      /\ reachable' = reachable \cup Successors(pc)
      /\ \A b \in Pcs(prog) :
           regIn'[b] = IF b \in Successors(pc) THEN Flow(b, regs) ELSE regIn[b]
  BY DEF Propagate, cfgVars, history
<1>7. \A p, t : Witnessed(p, t)' <=> Witnessed(p, t)
  BY <1>6 DEF Witnessed
<1>8. ASSUME NEW b \in reachable'
      PROVE  Witnessed(b, regIn'[b])
  <2>1. b \in Pcs(prog)
    BY <1>1, <1>5, <1>6, <1>8
  <2>2. CASE b \notin Successors(pc)
    BY <1>1, <1>6, <2>1, <2>2 DEF PathsInv
  <2>3. CASE b \in Successors(pc) /\ b \notin reachable
    BY <1>5, <1>6, <2>1, <2>3 DEF Flow
  <2>4. CASE b \in Successors(pc) /\ b \in reachable
    <3>1. Witnessed(b, regIn[b]) /\ Witnessed(b, regs)
      BY <1>1, <1>5, <2>4 DEF PathsInv
    <3>2. Witnessed(b, regIn[b] \cap regs)
      BY <3>1, WitnessedWeaker
    <3> QED
      BY <1>6, <2>1, <2>4, <3>2 DEF Flow, RegFileMerge
  <2> QED
    BY <1>6, <1>8, <2>2, <2>3, <2>4
<1> QED
  BY <1>1, <1>6, <1>7, <1>8 DEF PathsInv

(* Every step keeps what the paths bear out,                               *)
LEMMA PathsStep == StructInv /\ PathsInv /\ [Next]_vvars => PathsInv'
<1> SUFFICES ASSUME StructInv, PathsInv, [Next]_vvars PROVE PathsInv'
  OBVIOUS
<1> USE DEF StructInv
<1>a. prog' = prog
  BY ProgramStays
<1>b. (\A p, t : Witnessed(p, t)' <=> Witnessed(p, t)) /\ TailCallFree(prog)'
  BY <1>a DEF Witnessed, PathsInv
<1>1. CASE \/ EmptyProgram \/ BranchOutOfBounds \/ BackEdgeBudgetExceeded \/ RejectWriteToR10
           \/ RejectUninitRead \/ RejectStackOffset \/ RejectBlock \/ NoExitInstruction
  <2>1. UNCHANGED <<starts, reachable, regIn, checked>> /\ phase' = "done"
    BY <1>1 DEF EmptyProgram, BranchOutOfBounds, BackEdgeBudgetExceeded, RejectWriteToR10,
      RejectUninitRead, RejectStackOffset, RejectBlock, NoExitInstruction, Reject, cfgVars,
      flowVars, history
  <2> QED
    BY <1>b, <2>1 DEF PathsInv
<1>2. CASE BuildCfg
  <2>1. /\ reachable' = {0} /\ checked' = checked /\ phase' = "while"
        /\ regIn'[0] = EntryRegs /\ prog # <<>>
    BY <1>2, ProgFacts DEF BuildCfg, history
  <2>2. checked = {}
    BY <1>2 DEF BuildCfg, PathsInv
  <2>3. ASSUME NEW r \in Regs
        PROVE  /\ \E u \in BOOLEAN : <<0, u>> \in PathStates(prog, r)
               /\ r \notin EntryRegs => <<0, TRUE>> \in PathStates(prog, r)
    <3>1. <<0, r \notin EntryRegs>> \in PathStates(prog, r)
      BY <2>1, PathFacts
    <3>2. (r \notin EntryRegs) \in BOOLEAN
      OBVIOUS
    <3>3. r \notin EntryRegs => (r \notin EntryRegs) = TRUE
      OBVIOUS
    <3> QED
      BY <3>1, <3>2, <3>3, Zenon
  <2>4. Witnessed(0, EntryRegs)
    BY <2>3 DEF Witnessed
  <2> QED
    BY <1>b, <2>1, <2>2, <2>4 DEF PathsInv
<1>3. CASE StartSweep
  <2>1. UNCHANGED <<starts, reachable, regIn>> /\ phase' = "blocks" /\ checked' = {}
    BY <1>3 DEF StartSweep, cfgVars
  <2> QED
    BY <1>b, <2>1 DEF PathsInv
<1>4. CASE SkipUnreachable \/ EndSweep \/ Converged \/ Accept
  <2>1. /\ UNCHANGED <<starts, reachable, regIn, checked>>
        /\ phase' \in {"blocks", "while", "exits", "done"}
    BY <1>4 DEF SkipUnreachable, EndSweep, Converged, Accept, cfgVars, flowVars, history
  <2> QED
    BY <1>b, <2>1 DEF PathsInv
<1>5. CASE EnterBlock
  <2>1. /\ UNCHANGED <<starts, reachable, regIn, checked>> /\ phase' = "insns"
        /\ pc' = bb /\ regs' = regIn[bb] /\ bb \in reachable
    BY <1>5 DEF EnterBlock, cfgVars, flowVars, history
  <2> QED
    BY <1>b, <2>1 DEF PathsInv
<1>6. CASE CheckInsn
  BY <1>6, PathsCheck
<1>7. CASE Propagate
  BY <1>7, PathsPropagate
<1>8. CASE UNCHANGED vvars
  BY <1>8, <1>b DEF vvars, PathsInv
<1> QED
  BY <1>1, <1>2, <1>3, <1>4, <1>5, <1>6, <1>7, <1>8 DEF Next

(* When the sweeps have converged, the paths go nowhere the last one did   *)
(* not check, and a register uninitialised on one is not taken for Init.   *)
LEMMA ConvergedCoversPaths ==
  ASSUME StructInv, QuietSweepIsConsistent, phase = "exits", NEW r \in Regs
  PROVE  \A t \in PathStates(prog, r) :
           /\ t[1] \in checked /\ (t[1] \in starts => t[1] \in reachable)
           /\ t[2] = TRUE => r \notin In(t[1])
<1> USE DEF StructInv
<1>1. Analysing /\ ~ changed /\ starts # {} /\ prog # <<>> /\ bb = N /\ InFlight = {}
  BY DEF Analysing, CfgInv, CursorInv, InFlight
<1>2. 0 \in reachable /\ 0 \in starts /\ regIn[0] \subseteq EntryRegs /\ 0 \in Pcs(prog)
  BY <1>1, ProgFacts DEF CfgInv, TypeOK
<1>3. \A b \in reachable : b \in checked
  BY <1>1, ProgFacts DEF TypeOK, QuietSweepIsConsistent
<1>4. \A p \in checked : Settled(p)
  BY <1>1 DEF QuietSweepIsConsistent
<1> DEFINE Covered(p, u) == /\ p \in checked /\ (p \in starts => p \in reachable)
                            /\ u = TRUE => r \notin In(p)
           Z == {t \in Pcs(prog) \X BOOLEAN : Covered(t[1], t[2])}
<1>5. PathStart(r) \subseteq Z
  <2>1. In(0) \subseteq EntryRegs /\ 0 \in checked
    BY <1>2, <1>3 DEF In
  <2>2. \A u \in BOOLEAN : (u = TRUE => r \notin EntryRegs) => <<0, u>> \in Z
    BY <1>2, <2>1
  <2>3. /\ (r \notin EntryRegs) \in BOOLEAN
        /\ (r \notin EntryRegs) = TRUE => r \notin EntryRegs
    OBVIOUS
  <2>4. <<0, r \notin EntryRegs>> \in Z
    <3> HIDE DEF Z
    <3> QED
      BY <2>2, <2>3, Zenon
  <2> QED
    BY <2>4 DEF PathStart
<1>6. ASSUME NEW t \in Z
      PROVE  PathStep(prog, r, t) \subseteq Z
  <2> DEFINE i == At(prog, t[1])
             v == UninitAfter(i, r, t[2])
  <2>1. /\ t[1] \in Pcs(prog) /\ t[2] \in BOOLEAN /\ Settled(t[1])
        /\ t[2] = TRUE => r \notin In(t[1])
    BY <1>4
  <2>2. v \in BOOLEAN
    BY <2>1 DEF UninitAfter
  <2>3. v = TRUE => r \notin Post(i, In(t[1]))
    BY <2>1 DEF UninitAfter, Post, R0, ArgRegs
  <2> HIDE DEF v
  <2>4. ASSUME NEW q \in ExecSuccessors(prog, t[1]) \cap Pcs(prog)
        PROVE  <<q, v>> \in Z
    <3>1. HandedTo(q, Post(i, In(t[1])))
      BY <2>1 DEF Settled
    <3>2. /\ q \in checked /\ (q \in starts => q \in reachable)
          /\ In(q) \subseteq Post(i, In(t[1]))
      BY <1>3, <3>1 DEF HandedTo, In
    <3> QED
      BY <2>2, <2>3, <3>2
  <2> HIDE DEF Z
  <2>5. PathStep(prog, r, t) = {<<q, v>> : q \in ExecSuccessors(prog, t[1]) \cap Pcs(prog)}
    BY DEF PathStep, v
  <2> QED
    BY <2>4, <2>5
<1>7. PathStates(prog, r) \subseteq Z
  <2> HIDE DEF Z
  <2>1. prog \in Seq(Insn)
    BY DEF TypeOK
  <2> QED
    BY <1>5, <1>6, <2>1, PathStatesLeast
<1> QED
  BY <1>7

(* So the converged solution is the meet over all paths.                   *)
LEMMA ConvergedSolution ==
  ASSUME StructInv, QuietSweepIsConsistent, PathsInv, phase = "exits"
  PROVE  /\ SolutionIsMeetOverPaths
         /\ PathReachable = checked
<1> USE DEF StructInv
<1>1. starts # {} /\ prog # <<>> /\ reachable \subseteq starts /\ R0 \in Regs
  BY DEF Analysing, CfgInv, TypeOK, R0, Regs, NUM_REGS
<1>2. /\ \A b \in reachable : Witnessed(b, regIn[b])
      /\ \A p \in checked : Witnessed(p, Regs)
  BY <1>1 DEF PathsInv
<1>3. PathReachable \subseteq checked /\ starts \cap PathReachable \subseteq reachable
  BY <1>1, ConvergedCoversPaths DEF PathReachable
<1>4. \A p : (\E u \in BOOLEAN : <<p, u>> \in PathStates(prog, R0)) => p \in PathReachable
  <2>1. ASSUME NEW p, NEW u, <<p, u>> \in PathStates(prog, R0)
        PROVE  p \in PathReachable
    <3>1. <<p, u>>[1] = p
      OBVIOUS
    <3> QED
      BY <2>1, <3>1 DEF PathReachable
  <2> QED
    BY <2>1
<1>5. checked \subseteq PathReachable /\ reachable \subseteq PathReachable
  BY <1>1, <1>2, <1>4 DEF Witnessed
<1>6. ASSUME NEW r \in Regs, NEW b \in reachable, <<b, TRUE>> \in PathStates(prog, r)
      PROVE  r \notin regIn[b]
  <2>1. <<b, TRUE>>[1] = b /\ <<b, TRUE>>[2] = TRUE
    OBVIOUS
  <2>2. r \notin In(b)
    BY <1>6, <2>1, ConvergedCoversPaths
  <2> QED
    BY <1>1, <2>2 DEF In
<1>7. \A r \in Regs : \A b \in reachable : r \notin regIn[b] => <<b, TRUE>> \in PathStates(prog, r)
  BY <1>2 DEF Witnessed
<1> QED
  BY <1>1, <1>3, <1>5, <1>6, <1>7 DEF SolutionIsMeetOverPaths

(* so it always holds.                                                     *)
LEMMA PathsInvariant == Spec => []PathsInv
<1>1. Init => PathsInv
  BY NoTailCallAssumption DEF Init, Unverified, PathsInv
<1>2. StructInv /\ PathsInv /\ [Next]_vvars => PathsInv'
  BY PathsStep
<1> QED
  BY <1>1, <1>2, StructInvariant, PTL DEF Spec

(* The solution dataflow_analysis converges to is the meet over all paths, *)
(* for every program: a block is reachable exactly if a path leads to it,  *)
(* and a register is Init at its entry exactly if it is on every path.     *)
THEOREM SolutionIsMeet == Spec => []SolutionIsMeetOverPaths
<1>1. StructInv /\ QuietSweepIsConsistent /\ PathsInv => SolutionIsMeetOverPaths
  BY ConvergedSolution DEF SolutionIsMeetOverPaths
<1> QED
  BY <1>1, StructInvariant, SweepConsistent, PathsInvariant, PTL

----------------------------------------------------------------------------
(* How many sweeps there are: each takes the paths one step backward       *)
(* further, and a path needs few such steps.                               *)

(* Pairs of an instruction and a truth value, and those of them a path     *)
(* leads to that takes at most k steps backward: the least sets that have  *)
(* the entry, follow a forward step within level k, and any step to level  *)
(* k + 1.                                                                  *)
Pairs(p) == Pcs(p) \X BOOLEAN
ShutUnderSteps(p, r, S) ==
  \A k \in Nat :
    /\ PathStart(r) \subseteq S[k]
    /\ \A t \in S[k] : \A q \in PathStep(p, r, t) : (q[1] > t[1] => q \in S[k]) /\ q \in S[k + 1]
Within(p, r, k) ==
  {t \in Pairs(p) : \A S \in [Nat -> SUBSET Pairs(p)] : ShutUnderSteps(p, r, S) => t \in S[k]}

(* The levels are shut under steps themselves,                             *)
LEMMA WithinShut ==
  ASSUME NEW p \in Seq(Insn), p # <<>>, NEW r, NEW k \in Nat
  PROVE  /\ PathStart(r) \subseteq Within(p, r, k)
         /\ \A t \in Within(p, r, k) : \A q \in PathStep(p, r, t) :
              (q[1] > t[1] => q \in Within(p, r, k)) /\ q \in Within(p, r, k + 1)
<1>1. PathStart(r) \subseteq Pairs(p)
  <2>1. 0 \in Pcs(p)
    BY DEF Pcs
  <2> QED
    BY <2>1, EntryPair DEF Pairs
<1>2. PathStart(r) \subseteq Within(p, r, k)
  BY <1>1 DEF Within, ShutUnderSteps
<1>3. ASSUME NEW t \in Within(p, r, k), NEW q \in PathStep(p, r, t)
      PROVE  (q[1] > t[1] => q \in Within(p, r, k)) /\ q \in Within(p, r, k + 1)
  <2>1. q \in Pairs(p)
    BY <1>3, PathStepPairs DEF Pairs, Within
  <2>2. ASSUME NEW S \in [Nat -> SUBSET Pairs(p)], ShutUnderSteps(p, r, S)
        PROVE  (q[1] > t[1] => q \in S[k]) /\ q \in S[k + 1]
    <3>1. t \in S[k]
      BY <2>2, <1>3 DEF Within
    <3> QED
      BY <1>3, <2>2, <3>1 DEF ShutUnderSteps
  <2> QED
    BY <2>1, <2>2 DEF Within
<1> QED
  BY <1>2, <1>3

(* and every family that is has them.                                      *)
LEMMA WithinLeast ==
  ASSUME NEW p, NEW r, NEW S \in [Nat -> SUBSET Pairs(p)], ShutUnderSteps(p, r, S), NEW k \in Nat
  PROVE  Within(p, r, k) \subseteq S[k]
BY DEF Within

(* A path of at most k steps backward is one of at most k + 1.             *)
LEMMA WithinGrows ==
  ASSUME NEW p \in Seq(Insn), p # <<>>, NEW r, NEW k \in Nat
  PROVE  Within(p, r, k) \subseteq Within(p, r, k + 1)
<1> DEFINE S == [j \in Nat |-> Within(p, r, j) \cap Within(p, r, j + 1)]
<1>1. S \in [Nat -> SUBSET Pairs(p)]
  BY DEF Within
<1>2. ASSUME NEW j \in Nat
      PROVE  /\ PathStart(r) \subseteq S[j]
             /\ \A t \in S[j] : \A q \in PathStep(p, r, t) :
                  (q[1] > t[1] => q \in S[j]) /\ q \in S[j + 1]
  BY WithinShut
<1>3. ShutUnderSteps(p, r, S)
  BY <1>2 DEF ShutUnderSteps
<1> HIDE DEF S
<1>4. Within(p, r, k) \subseteq S[k]
  BY <1>1, <1>3, WithinLeast
<1> QED
  BY <1>4 DEF S

(* A pair of level k is the entry, or a step leads to it: forward from     *)
(* level k, or any step from level k - 1.                                  *)
ComesFrom(p, r, k, q) ==
  \/ q \in PathStart(r)
  \/ \E t \in Within(p, r, k) : q \in PathStep(p, r, t) /\ q[1] > t[1]
  \/ k # 0 /\ \E t \in Within(p, r, k - 1) : q \in PathStep(p, r, t)

LEMMA WithinComesFrom ==
  ASSUME NEW p \in Seq(Insn), p # <<>>, NEW r, NEW k \in Nat, NEW q \in Within(p, r, k)
  PROVE  ComesFrom(p, r, k, q)
<1> DEFINE S == [j \in Nat |-> {t \in Within(p, r, j) : ComesFrom(p, r, j, t)}]
<1>1. S \in [Nat -> SUBSET Pairs(p)]
  BY DEF Within
<1>2. ASSUME NEW j \in Nat
      PROVE  /\ PathStart(r) \subseteq S[j]
             /\ \A t \in S[j] : \A u \in PathStep(p, r, t) :
                  (u[1] > t[1] => u \in S[j]) /\ u \in S[j + 1]
  <2>1. PathStart(r) \subseteq S[j]
    BY WithinShut DEF ComesFrom
  <2>2. ASSUME NEW t \in S[j], NEW u \in PathStep(p, r, t)
        PROVE  (u[1] > t[1] => u \in S[j]) /\ u \in S[j + 1]
    <3>1. t \in Within(p, r, j) /\ j + 1 \in Nat /\ j + 1 # 0 /\ (j + 1) - 1 = j
      OBVIOUS
    <3>2. (u[1] > t[1] => u \in Within(p, r, j)) /\ u \in Within(p, r, j + 1)
      BY <2>2, <3>1, WithinShut
    <3>3. u[1] > t[1] => ComesFrom(p, r, j, u)
      BY <2>2, <3>1 DEF ComesFrom
    <3>4. ComesFrom(p, r, j + 1, u)
      BY <2>2, <3>1 DEF ComesFrom
    <3> QED
      BY <3>1, <3>2, <3>3, <3>4
  <2> QED
    BY <2>1, <2>2
<1>3. ShutUnderSteps(p, r, S)
  BY <1>2 DEF ShutUnderSteps
<1> HIDE DEF S
<1>4. Within(p, r, k) \subseteq S[k]
  BY <1>1, <1>3, WithinLeast
<1> QED
  BY <1>4 DEF S

(* A step of a path that leads back is a backward branch's.                *)
LEMMA BackwardSteps ==
  ASSUME TypeOK, prog # <<>>, NEW r, NEW t \in Pairs(prog), NEW q \in PathStep(prog, r, t),
         ~ (q[1] > t[1])
  PROVE  t[1] \in BackwardBranches
<1>1. /\ t[1] \in Pcs(prog) /\ t[1] \in Int /\ At(prog, t[1]) \in Insn
      /\ q[1] \in ExecSuccessors(prog, t[1]) \cap Pcs(prog) /\ q[1] \in Int
  BY ProgFacts DEF Pairs, PathStep
<1>2. IsBranch(At(prog, t[1])) /\ q[1] = Target(prog, t[1])
  BY <1>1 DEF ExecSuccessors, IsBranch
<1>3. At(prog, t[1]).off \in Int
  BY <1>1 DEF Insn
<1> QED
  BY <1>1, <1>2, <1>3 DEF BackwardBranches, Target

(* A program has finitely many of them.                                    *)
LEMMA CountedBranches ==
  ASSUME TypeOK
  PROVE  IsFiniteSet(BackwardBranches) /\ Cardinality(BackwardBranches) \in Nat
<1>1. N \in Nat /\ IsFiniteSet(0 .. N - 1)
  BY ProgFacts, FS_Interval
<1>2. BackwardBranches \subseteq 0 .. N - 1
  BY ProgFacts DEF BackwardBranches
<1>3. IsFiniteSet(BackwardBranches)
  BY <1>1, <1>2, FS_Subset
<1> QED
  BY <1>3, FS_CardinalityType

(* 2 * Cardinality(BackwardBranches) levels have all the paths: each level *)
(* short of that takes a backward branch, in one of its two states, that   *)
(* no level before it did.                                                 *)
LEMMA LevelsHavePaths ==
  ASSUME TypeOK, prog # <<>>, NEW r
  PROVE  /\ Cardinality(BackwardBranches) \in Nat
         /\ PathStates(prog, r) \subseteq Within(prog, r, 2 * Cardinality(BackwardBranches))
<1> DEFINE B    == Cardinality(BackwardBranches)
           Back == BackwardBranches \X BOOLEAN
           V(k) == Within(prog, r, k)
<1>p. prog \in Seq(Insn) /\ N \in Nat /\ Pcs(prog) = 0 .. N - 1
  BY ProgFacts DEF TypeOK
<1>1. IsFiniteSet(BackwardBranches) /\ B \in Nat
  BY CountedBranches
<1>2. IsFiniteSet(Back) /\ Cardinality(Back) = B * 2
  BY <1>1, TwoTruthValues, FS_Product, ZenonT(30)
<1> DEFINE S == {k \in Nat : PathStates(prog, r) \subseteq V(k) \/ Cardinality(V(k) \cap Back) > k}
<1>3. ASSUME NEW k \in Nat
      PROVE  \/ PathStates(prog, r) \subseteq V(k)
             \/ \E t \in V(k) \cap Back : \E q \in PathStep(prog, r, t) : q \notin V(k)
  <2>1. CASE \A t \in V(k) : PathStep(prog, r, t) \subseteq V(k)
    <3>1. PathStart(r) \subseteq V(k)
      BY <1>p, WithinShut
    <3> HIDE DEF V
    <3> QED
      BY <1>p, <2>1, <3>1, PathStatesLeast
  <2>2. CASE ~ \A t \in V(k) : PathStep(prog, r, t) \subseteq V(k)
    <3>1. PICK t \in V(k) : \E q \in PathStep(prog, r, t) : q \notin V(k)
      BY <2>2
    <3>2. PICK q \in PathStep(prog, r, t) : q \notin V(k)
      BY <3>1
    <3>3. ~ (q[1] > t[1]) /\ t \in Pairs(prog)
      BY <1>p, <3>2, WithinShut DEF Within
    <3>4. t[1] \in BackwardBranches
      BY <3>3, BackwardSteps
    <3>5. t \in Back
      BY <3>3, <3>4 DEF Pairs
    <3> QED
      BY <3>2, <3>5
  <2> QED
    BY <2>1, <2>2
<1>4. \A k \in Nat : IsFiniteSet(V(k) \cap Back) /\ Cardinality(V(k) \cap Back) \in Nat
  <2> SUFFICES ASSUME NEW k \in Nat PROVE IsFiniteSet(V(k) \cap Back)
    BY FS_CardinalityType
  <2> HIDE DEF V, Back
  <2>1. V(k) \cap Back \subseteq Back
    OBVIOUS
  <2> QED
    BY <1>2, <2>1, FS_Subset
<1>5. 0 \in S
  <2>1. CASE PathStates(prog, r) \subseteq V(0)
    BY <2>1
  <2>2. CASE ~ (PathStates(prog, r) \subseteq V(0))
    <3>1. V(0) \cap Back # {}
      BY <1>3, <2>2
    <3>2. Cardinality(V(0) \cap Back) # 0 /\ Cardinality(V(0) \cap Back) \in Nat
      <4> HIDE DEF V, Back
      <4> QED
        BY <1>4, <3>1, FS_EmptySet
    <3>3. Cardinality(V(0) \cap Back) > 0
      BY <3>2
    <3> QED
      BY <3>3
  <2> QED
    BY <2>1, <2>2
<1>6. ASSUME NEW k \in Nat, k \in S
      PROVE  k + 1 \in S
  <2>g. V(k) \subseteq V(k + 1)
    BY <1>p, WithinGrows
  <2>1. CASE PathStates(prog, r) \subseteq V(k + 1)
    BY <2>1
  <2>2. CASE ~ (PathStates(prog, r) \subseteq V(k + 1))
    <3>1. Cardinality(V(k) \cap Back) > k
      BY <1>6, <2>2, <2>g
    <3>2. PICK t \in V(k + 1) \cap Back : \E q \in PathStep(prog, r, t) : q \notin V(k + 1)
      BY <1>3, <2>2
    <3>3. t \notin V(k)
      BY <1>p, <3>2, WithinShut
    <3>4. /\ V(k) \cap Back \subseteq V(k + 1) \cap Back
          /\ V(k) \cap Back # V(k + 1) \cap Back
      BY <2>g, <3>2, <3>3
    <3>5. /\ Cardinality(V(k) \cap Back) <= Cardinality(V(k + 1) \cap Back)
          /\ Cardinality(V(k) \cap Back) # Cardinality(V(k + 1) \cap Back)
      <4> HIDE DEF V, Back
      <4>1. IsFiniteSet(V(k + 1) \cap Back)
        BY <1>4
      <4> QED
        BY <3>4, <4>1, FS_Subset
    <3>6. Cardinality(V(k + 1) \cap Back) > k + 1
      <4> HIDE DEF V, Back
      <4>0. k + 1 \in Nat
        OBVIOUS
      <4>1. Cardinality(V(k + 1) \cap Back) \in Nat /\ Cardinality(V(k) \cap Back) \in Nat
        BY <1>4, <4>0, Zenon
      <4> QED
        BY <3>1, <3>5, <4>1
    <3> QED
      BY <3>6
  <2> QED
    BY <2>1, <2>2
<1>7. 2 * B \in S
  <2> HIDE DEF S
  <2>1. Nat \subseteq S
    BY <1>5, <1>6, NaturalsInductively
  <2> QED
    BY <1>1, <2>1
<1>8. Cardinality(V(2 * B) \cap Back) <= 2 * B
  <2> HIDE DEF V
  <2>1. V(2 * B) \cap Back \subseteq Back
    OBVIOUS
  <2>2. Cardinality(V(2 * B) \cap Back) <= Cardinality(Back)
    BY <1>2, <2>1, FS_Subset, Zenon
  <2> HIDE DEF Back
  <2> QED
    BY <1>1, <1>2, <2>2
<1> HIDE DEF V, Back, B
<1>b. 2 * B \in Nat
  BY <1>1
<1>9. Cardinality(V(2 * B) \cap Back) \in Nat
  BY <1>4, <1>b, Zenon
<1>10. PathStates(prog, r) \subseteq V(2 * B)
  BY <1>1, <1>7, <1>8, <1>9
<1> QED
  BY <1>1, <1>10 DEF V, B

(* The solution knows pair t of register r, and knows where it leads to.   *)
Found(r, t)    == t[1] \in reachable /\ (t[2] = TRUE => r \notin regIn[t[1]])
HandedOn(r, t) == \A q \in PathStep(prog, r, t) : q[1] \in starts => Found(r, q)

(* What this sweep has behind it, and what it holds of the pair it is at.  *)
Passed(p) ==
  \/ phase = "while"
  \/ phase = "blocks" /\ p < bb
  \/ phase \in {"insns", "propagate"} /\ p < pc
Holds(r, t) ==
  t[1] = pc =>
    /\ phase = "insns" /\ t[2] = TRUE => r \notin regs
    /\ phase = "propagate" /\ UninitAfter(At(prog, pc), r, t[2]) = TRUE => r \notin regs

(* Sweep number `iterations` is done with the pairs of all levels below    *)
(* iterations - 1, and behind its cursor with those of that level.         *)
Sweeping == phase \in {"while", "blocks", "insns", "propagate"}
LevelsInv ==
  \A r \in Regs : \A k \in Nat : \A t \in Within(prog, r, k) :
    /\ k + 1 < iterations => HandedOn(r, t)
    /\ k < iterations => (Passed(t[1]) => HandedOn(r, t)) /\ Holds(r, t)

SweepInv ==
  /\ iterations <= SweepBound
  /\ phase = "cfg" => iterations = 0
  /\ Sweeping => LevelsInv /\ (iterations = SweepBound => ~ changed)

(* A pair at a block's start is found by the time the sweep comes to it.   *)
LEMMA FoundAtStart ==
  ASSUME StructInv, Sweeping, LevelsInv, NEW r \in Regs, NEW k \in Nat,
         NEW q \in Within(prog, r, k), q[1] \in starts,
         k + 1 < iterations \/ (k < iterations /\ \A p \in Nat : p < q[1] => Passed(p))
  PROVE  Found(r, q)
<1> USE DEF StructInv
<1>1. prog \in Seq(Insn) /\ prog # <<>> /\ Pcs(prog) \subseteq Nat /\ iterations \in Nat
  BY ProgFacts DEF TypeOK, Sweeping
<1>2. \A j \in Nat : Within(prog, r, j) \subseteq Pairs(prog)
  BY DEF Within
<1>3. CASE q \in PathStart(r)
  <2>1. 0 \in reachable /\ regIn[0] \subseteq EntryRegs
    BY DEF CfgInv, Sweeping, Analysing
  <2>2. q[1] = 0 /\ (q[2] = TRUE => r \notin EntryRegs)
    <3>1. q = <<0, r \notin EntryRegs>>
      BY <1>3 DEF PathStart
    <3>2. \A u : <<0, u>>[1] = 0 /\ <<0, u>>[2] = u
      OBVIOUS
    <3> QED
      BY <3>1, <3>2, Zenon
  <2> QED
    BY <2>1, <2>2 DEF Found
<1>4. CASE \E t \in Within(prog, r, k) : q \in PathStep(prog, r, t) /\ q[1] > t[1]
  <2>1. PICK t \in Within(prog, r, k) : q \in PathStep(prog, r, t) /\ q[1] > t[1]
    BY <1>4
  <2>2. t[1] \in Nat
    BY <1>1, <1>2 DEF Pairs
  <2>3. q[1] \in Nat
    BY <1>1, <1>2 DEF Pairs
  <2>4. HandedOn(r, t)
    BY <2>1, <2>2, <2>3 DEF LevelsInv
  <2> QED
    BY <2>1, <2>4 DEF HandedOn
<1>5. CASE k # 0 /\ \E t \in Within(prog, r, k - 1) : q \in PathStep(prog, r, t)
  <2>1. k - 1 \in Nat /\ (k - 1) + 1 < iterations
    BY <1>1, <1>5
  <2>2. PICK t \in Within(prog, r, k - 1) : q \in PathStep(prog, r, t)
    BY <1>5
  <2>3. HandedOn(r, t)
    BY <2>1, <2>2 DEF LevelsInv
  <2> QED
    BY <2>2, <2>3 DEF HandedOn
<1> QED
  BY <1>1, <1>3, <1>4, <1>5, WithinComesFrom DEF ComesFrom

(* What is found stays found as the entry states descend.                  *)
LEMMA FoundStays ==
  ASSUME UNCHANGED cfgVars, reachable \subseteq reachable',
         \A b \in reachable : regIn'[b] \subseteq regIn[b]
  PROVE  \A r, t : HandedOn(r, t) => HandedOn(r, t)'
BY DEF cfgVars, HandedOn, Found

(* An instruction that starts no block is entered from the one before it.  *)
LEMMA EnteredFromBefore ==
  ASSUME TypeOK, CfgInv, starts # {}, NEW p \in Pcs(prog),
         NEW q \in ExecSuccessors(prog, p) \cap Pcs(prog), q \notin starts
  PROVE  q = p + 1
<1>1. IsBranch(At(prog, p)) => Target(prog, p) \in starts
  BY StartFacts DEF CfgInv
<1> QED
  BY <1>1 DEF ExecSuccessors, IsBranch

(* A path is inside a block only if it has come through its start, and has *)
(* led back no further since.                                              *)
LEMMA BlocksAreEntered ==
  ASSUME StructInv, starts # {}, NEW r \in Regs, NEW b \in starts, NEW k \in Nat,
         NEW t \in Within(prog, r, k), b <= t[1], t[1] < BlockEnd(b)
  PROVE  \E v \in BOOLEAN : <<b, v>> \in Within(prog, r, k)
<1> USE DEF StructInv
<1>1. /\ prog \in Seq(Insn) /\ prog # <<>> /\ N \in Nat /\ Pcs(prog) = 0 .. N - 1
      /\ b \in Nat /\ b < N
  BY ProgFacts DEF TypeOK, CfgInv
<1>2. /\ BlockEnd(b) \in Nat
      /\ \A s \in starts : b < s => BlockEnd(b) <= s
  BY <1>1, BlockEndFacts
<1> DEFINE Inside(u)  == b <= u[1] /\ u[1] < BlockEnd(b)
           Entered(j) == \E v \in BOOLEAN : <<b, v>> \in Within(prog, r, j)
           S == [j \in Nat |-> {u \in Within(prog, r, j) : Inside(u) => Entered(j)}]
<1>3. S \in [Nat -> SUBSET Pairs(prog)]
  BY DEF Within
<1>4. ASSUME NEW j \in Nat, NEW q \in Within(prog, r, j), q[1] = b
      PROVE  Entered(j)
  <2>1. q \in Pcs(prog) \X BOOLEAN
    BY <1>4 DEF Within, Pairs
  <2>2. q = <<b, q[2]>> /\ q[2] \in BOOLEAN
    BY <1>4, <2>1
  <2> QED
    BY <1>4, <2>2
<1>5. \A j \in Nat : Entered(j) => Entered(j + 1)
  BY <1>1, WithinGrows
<1>6. ASSUME NEW j \in Nat
      PROVE  /\ PathStart(r) \subseteq S[j]
             /\ \A u \in S[j] : \A q \in PathStep(prog, r, u) :
                  (q[1] > u[1] => q \in S[j]) /\ q \in S[j + 1]
  <2>1. PathStart(r) \subseteq S[j]
    <3> SUFFICES ASSUME NEW u \in PathStart(r) PROVE u \in S[j]
      OBVIOUS
    <3>1. u \in Within(prog, r, j)
      BY <1>1, WithinShut
    <3>2. u[1] = 0
      BY DEF PathStart
    <3>3. Inside(u) => u[1] = b
      BY <1>1, <3>2
    <3>4. Inside(u) => Entered(j)
      BY <1>4, <3>1, <3>3
    <3> QED
      BY <3>1, <3>4
  <2>2. ASSUME NEW u \in S[j], NEW q \in PathStep(prog, r, u)
        PROVE  (q[1] > u[1] => q \in S[j]) /\ q \in S[j + 1]
    <3>1. u \in Within(prog, r, j) /\ j + 1 \in Nat /\ (Inside(u) => Entered(j))
      OBVIOUS
    <3>2. (q[1] > u[1] => q \in Within(prog, r, j)) /\ q \in Within(prog, r, j + 1)
      BY <1>1, <2>2, <3>1, WithinShut
    <3>3. /\ u[1] \in Pcs(prog) /\ u[1] \in Int /\ q[1] \in Int
          /\ q[1] \in ExecSuccessors(prog, u[1]) \cap Pcs(prog)
      BY <1>1, <2>2, <3>1 DEF PathStep, Within, Pairs
    <3>4. Inside(q) /\ q[1] # b => Inside(u)
      <4> SUFFICES ASSUME Inside(q), q[1] # b PROVE Inside(u)
        OBVIOUS
      <4>1. q[1] \notin starts
        BY <1>1, <1>2, <3>3
      <4>2. q[1] = u[1] + 1
        BY <3>3, <4>1, EnteredFromBefore
      <4> QED
        BY <1>1, <1>2, <3>3, <4>2
    <3>5. Inside(q) /\ q[1] # b => Entered(j) /\ Entered(j + 1)
      BY <1>5, <3>1, <3>4
    <3>6. Inside(q) => Entered(j + 1)
      BY <1>4, <3>1, <3>2, <3>5
    <3>7. q[1] > u[1] /\ Inside(q) => Entered(j)
      BY <1>4, <3>2, <3>5
    <3> HIDE DEF Inside, Entered
    <3> QED
      BY <3>1, <3>2, <3>6, <3>7
  <2> QED
    BY <2>1, <2>2
<1>7. ShutUnderSteps(prog, r, S)
  <2> HIDE DEF S
  <2> QED
    BY <1>6 DEF ShutUnderSteps
<1>8. t \in S[k]
  <2> HIDE DEF S
  <2> QED
    BY <1>3, <1>7, WithinLeast
<1> QED
  BY <1>8

(* A step that leaves the solution alone and has the new cursor's pairs    *)
(* right keeps the levels.                                                 *)
LEMMA LevelsFrame ==
  ASSUME LevelsInv, UNCHANGED <<cfgVars, reachable, regIn, iterations>>,
         \A r \in Regs : \A k \in Nat : \A t \in Within(prog, r, k) : k < iterations =>
           (Passed(t[1])' => Passed(t[1]) \/ HandedOn(r, t)) /\ Holds(r, t)'
  PROVE  LevelsInv'
<1>1. prog' = prog
  BY DEF cfgVars
<1>2. \A r, t : HandedOn(r, t)' = HandedOn(r, t)
  BY DEF cfgVars, HandedOn, Found
<1> QED
  BY <1>1, <1>2 DEF LevelsInv

(* The check of an instruction turns what holds before it into what holds  *)
(* after it.                                                               *)
LEMMA LevelsCheck ==
  ASSUME StructInv, StructInv', LevelsInv, CheckInsn
  PROVE  LevelsInv'
<1> USE DEF StructInv
<1>p. prog \in Seq(Insn) /\ N \in Nat /\ Pcs(prog) = 0 .. N - 1
  BY ProgFacts DEF TypeOK
<1>1. /\ phase = "insns" /\ starts # {} /\ prog # <<>> /\ Sweeping
      /\ pc \in Pcs(prog) /\ bb \in starts /\ bb \in Nat /\ bb < N /\ bb <= pc /\ pc < BlockEnd(bb)
      /\ iterations \in Nat
  BY <1>p DEF CheckInsn, TypeOK, CursorInv, CfgInv, Analysing, Sweeping
<1>2. /\ UNCHANGED <<cfgVars, reachable, regIn, iterations>> /\ regs' = Post(At(prog, pc), regs)
      /\ prog' = prog
  BY DEF CheckInsn, flowVars, cfgVars
<1>3. /\ BlockEnd(bb) \in Nat /\ BlockEnd(bb) <= N /\ BlockEnd(bb) \in starts \cup {N}
      /\ \A t \in starts : bb < t => BlockEnd(bb) <= t
  BY <1>1, BlockEndFacts
<1>4. ASSUME NEW r \in Regs, NEW k \in Nat, NEW t \in Within(prog, r, k), k < iterations, t[1] = pc
      PROVE  UninitAfter(At(prog, pc), r, t[2]) = TRUE => r \notin regs'
  <2>1. t[2] = TRUE => r \notin regs
    BY <1>1, <1>4 DEF LevelsInv, Holds
  <2>2. t[2] \in BOOLEAN
    BY DEF Within, Pairs
  <2> QED
    BY <1>2, <2>1, <2>2 DEF UninitAfter, Post, R0, ArgRegs
<1>5. CASE pc + 1 < BlockEnd(bb)
  <2>1. phase' = "insns" /\ pc' = pc + 1
    BY <1>1, <1>5 DEF CheckInsn
  <2>2. pc + 1 \notin starts /\ pc + 1 < N
    BY <1>p, <1>1, <1>3, <1>5
  <2>3. ASSUME NEW r \in Regs, NEW k \in Nat, NEW t \in Within(prog, r, k), k < iterations
        PROVE  (Passed(t[1])' => Passed(t[1]) \/ HandedOn(r, t)) /\ Holds(r, t)'
    <3>1. t[1] \in Pcs(prog) /\ t[1] \in Nat
      BY <1>p DEF Within, Pairs
    <3>2. t[1] = pc => HandedOn(r, t)
      <4>1. ExecSuccessors(prog, pc) \subseteq {pc + 1}
        BY <1>1, <2>2, MidBlockFacts
      <4>2. \A q \in PathStep(prog, r, t) : q[1] \in ExecSuccessors(prog, t[1])
        BY DEF PathStep
      <4> QED
        BY <2>2, <4>1, <4>2 DEF HandedOn
    <3>3. Passed(t[1])' => Passed(t[1]) \/ HandedOn(r, t)
      BY <1>p, <1>1, <2>1, <3>1, <3>2 DEF Passed
    <3>4. ASSUME t[1] = pc + 1, t[2] = TRUE
          PROVE  r \notin regs'
      <4>1. ASSUME NEW j \in Nat, j < iterations,
                   NEW u \in Within(prog, r, j), t \in PathStep(prog, r, u)
            PROVE  r \notin regs'
        <5>1. /\ u[1] \in Pcs(prog) /\ t[1] \in ExecSuccessors(prog, u[1]) \cap Pcs(prog)
              /\ t[2] = UninitAfter(At(prog, u[1]), r, u[2])
          BY <4>1 DEF PathStep, Within, Pairs
        <5>2. t[1] = u[1] + 1
          BY <1>1, <2>2, <3>4, <5>1, EnteredFromBefore
        <5>3. u[1] = pc
          BY <1>p, <1>1, <3>4, <5>1, <5>2
        <5> QED
          BY <1>4, <3>4, <4>1, <5>1, <5>3
      <4>2. t \notin PathStart(r)
        BY <1>p, <1>1, <3>4 DEF PathStart
      <4>3. k # 0 => k - 1 \in Nat /\ k - 1 < iterations
        BY <1>1, <2>3
      <4> QED
        BY <1>p, <1>1, <2>3, <4>1, <4>2, <4>3, WithinComesFrom DEF ComesFrom
    <3>5. Holds(r, t)'
      BY <2>1, <3>4 DEF Holds
    <3> QED
      BY <3>3, <3>5
  <2> QED
    BY <1>2, <2>3, LevelsFrame
<1>6. CASE ~ (pc + 1 < BlockEnd(bb))
  <2>1. phase' = "propagate" /\ pc' = pc
    BY <1>6 DEF CheckInsn
  <2>2. ASSUME NEW r \in Regs, NEW k \in Nat, NEW t \in Within(prog, r, k), k < iterations
        PROVE  (Passed(t[1])' => Passed(t[1]) \/ HandedOn(r, t)) /\ Holds(r, t)'
    BY <1>1, <1>2, <1>4, <2>1, <2>2 DEF Passed, Holds
  <2> QED
    BY <1>2, <2>2, LevelsFrame
<1> QED
  BY <1>5, <1>6

(* A propagation hands the pairs at the end of its block to the blocks     *)
(* they lead to.                                                           *)
LEMMA LevelsPropagate ==
  ASSUME StructInv, LevelsInv, Propagate
  PROVE  LevelsInv'
<1> USE DEF StructInv
<1>p. N \in Nat /\ Pcs(prog) = 0 .. N - 1 /\ prog # <<>>
  BY ProgFacts DEF Propagate, TypeOK
<1>1. /\ phase = "propagate" /\ starts # {} /\ iterations \in Nat
      /\ pc \in Pcs(prog) /\ bb \in Nat /\ bb < N /\ pc + 1 = BlockEnd(bb)
  BY <1>p DEF Propagate, TypeOK, CursorInv, CfgInv, Analysing
<1>2. pc + 1 \in starts \cup {N}
  BY <1>1, BlockEndFacts
<1>3. Successors(pc) \subseteq starts /\ ExecSuccessors(prog, pc) \cap Pcs(prog) \subseteq Successors(pc)
  BY <1>1, <1>2, SuccessorFacts
<1>4. /\ prog' = prog /\ UNCHANGED cfgVars /\ phase' = "blocks" /\ bb' = pc + 1
      /\ iterations' = iterations /\ reachable' = reachable \cup Successors(pc)
      /\ \A b \in Pcs(prog) : regIn'[b] = IF b \in Successors(pc) THEN Flow(b, regs) ELSE regIn[b]
  BY <1>1 DEF Propagate, cfgVars
<1>5. \A b \in reachable : regIn'[b] \subseteq regIn[b]
  BY <1>4 DEF Flow, RegFileMerge, TypeOK
<1>6. \A r, t : HandedOn(r, t) => HandedOn(r, t)'
  BY <1>4, <1>5, FoundStays
<1>7. ASSUME NEW r \in Regs, NEW k \in Nat, NEW t \in Within(prog, r, k), k < iterations, t[1] = pc
      PROVE  HandedOn(r, t)'
  <2>1. UninitAfter(At(prog, pc), r, t[2]) = TRUE => r \notin regs
    BY <1>1, <1>7 DEF LevelsInv, Holds
  <2>2. ASSUME NEW q \in PathStep(prog, r, t)
        PROVE  q[1] \in reachable' /\ (q[2] = TRUE => r \notin regIn'[q[1]])
    <3>1. /\ q[1] \in ExecSuccessors(prog, pc) \cap Pcs(prog)
          /\ q[2] = UninitAfter(At(prog, pc), r, t[2])
      BY <1>7, <2>2 DEF PathStep
    <3>2. q[1] \in Successors(pc) /\ q[1] \in Pcs(prog)
      BY <1>3, <3>1
    <3>3. regIn'[q[1]] \subseteq regs
      BY <1>4, <3>2 DEF Flow, RegFileMerge
    <3> QED
      BY <1>4, <2>1, <3>1, <3>2, <3>3
  <2> QED
    BY <1>4, <2>2 DEF HandedOn, Found
<1>8. ASSUME NEW r \in Regs, NEW k \in Nat, NEW t \in Within(prog, r, k)
      PROVE  /\ k + 1 < iterations => HandedOn(r, t)'
             /\ k < iterations => (Passed(t[1])' => HandedOn(r, t)') /\ Holds(r, t)'
  <2>1. t[1] \in Nat
    BY <1>p DEF Within, Pairs
  <2>2. Passed(t[1])' => Passed(t[1]) \/ t[1] = pc
    BY <1>p, <1>1, <1>4, <2>1 DEF Passed
  <2>3. Holds(r, t)'
    BY <1>4 DEF Holds
  <2> QED
    BY <1>6, <1>7, <2>2, <2>3 DEF LevelsInv
<1> QED
  BY <1>4, <1>8 DEF LevelsInv

(* Once all levels are below, a propagation finds nothing to change.       *)
LEMMA LastSweepIsQuiet ==
  ASSUME StructInv, PathsInv, SweepInv, Propagate, iterations = SweepBound
  PROVE  ~ changed'
<1> USE DEF StructInv
<1>p. /\ prog \in Seq(Insn) /\ N \in Nat /\ Pcs(prog) = 0 .. N - 1 /\ prog # <<>>
      /\ R0 \in Regs
  BY ProgFacts DEF Propagate, TypeOK, R0, Regs, NUM_REGS
<1>1. /\ phase = "propagate" /\ Sweeping /\ starts # {} /\ LevelsInv /\ ~ changed
      /\ pc \in Pcs(prog) /\ bb \in Nat /\ bb < N /\ pc + 1 = BlockEnd(bb)
  BY <1>p DEF Propagate, TypeOK, CursorInv, CfgInv, Analysing, Sweeping, SweepInv
<1>2. pc + 1 \in starts \cup {N}
  BY <1>1, BlockEndFacts
<1>3. /\ Successors(pc) \subseteq starts
      /\ Successors(pc) = ExecSuccessors(prog, pc) \cap Pcs(prog)
  BY <1>1, <1>2, SuccessorFacts, SuccessorsAreReal DEF PathsInv
<1>4. PICK s \in SUBSET Regs : Witnessed(pc, s) /\ regs = Post(At(prog, pc), s)
  BY <1>1 DEF PathsInv
<1>5. ASSUME NEW r \in Regs, NEW q \in PathStates(prog, r), q[1] \in starts
      PROVE  Found(r, q)
  <2> DEFINE B == Cardinality(BackwardBranches)
  <2>1. 2 * B \in Nat /\ 2 * B + 1 < iterations
    BY <1>p, LevelsHavePaths DEF SweepBound
  <2>2. q \in Within(prog, r, 2 * B)
    BY <1>p, LevelsHavePaths
  <2> HIDE DEF B
  <2> QED
    BY <1>1, <1>5, <2>1, <2>2, FoundAtStart
<1>6. ASSUME NEW b \in Successors(pc)
      PROVE  b \in reachable /\ regIn[b] \subseteq regs
  <2>1. Witnessed(b, regs)
    BY <1>p, <1>1, <1>3, <1>4, WitnessedOnward
  <2>2. \A r \in Regs : \A u \in BOOLEAN : <<b, u>> \in PathStates(prog, r) =>
          b \in reachable /\ (u = TRUE => r \notin regIn[b])
    <3> SUFFICES ASSUME NEW r \in Regs, NEW u \in BOOLEAN, <<b, u>> \in PathStates(prog, r)
                 PROVE  b \in reachable /\ (u = TRUE => r \notin regIn[b])
      OBVIOUS
    <3>1. <<b, u>>[1] = b /\ <<b, u>>[2] = u /\ b \in starts
      BY <1>3
    <3>2. Found(r, <<b, u>>)
      BY <1>5, <3>1
    <3> QED
      BY <3>1, <3>2 DEF Found
  <2>3. \A r \in Regs : r \notin regs => r \notin regIn[b]
    BY <2>1, <2>2 DEF Witnessed
  <2>4. b \in Pcs(prog) /\ regIn[b] \subseteq Regs
    BY <1>3 DEF TypeOK
  <2> QED
    BY <1>p, <2>1, <2>2, <2>3, <2>4 DEF Witnessed
<1>7. \A b \in Successors(pc) : ~ FlowChanges(b, regs)
  BY <1>6 DEF FlowChanges, Flow, RegFileMerge
<1> QED
  BY <1>1, <1>7 DEF Propagate

(* Every step keeps the levels,                                            *)
LEMMA LevelsStep ==
  StructInv /\ StructInv' /\ SweepInv /\ [Next]_vvars => (Sweeping => LevelsInv)'
<1> SUFFICES ASSUME StructInv, StructInv', SweepInv, [Next]_vvars, Sweeping' PROVE LevelsInv'
  OBVIOUS
<1> USE DEF StructInv
<1>p. /\ N \in Nat /\ Pcs(prog) = 0 .. N - 1 /\ starts \subseteq Pcs(prog) /\ reachable \subseteq starts
      /\ iterations \in Nat
      /\ \A r, k : \A t \in Within(prog, r, k) : t[1] \in Nat /\ t[1] < N
  <2>1. /\ N \in Nat /\ Pcs(prog) = 0 .. N - 1 /\ starts \subseteq Pcs(prog)
        /\ reachable \subseteq starts /\ iterations \in Nat
    BY ProgFacts DEF TypeOK
  <2>2. \A r, k : \A t \in Within(prog, r, k) : t[1] \in Pcs(prog)
    BY DEF Within, Pairs
  <2> QED
    BY <2>1, <2>2
<1>1. CASE \/ EmptyProgram \/ BranchOutOfBounds \/ BackEdgeBudgetExceeded \/ RejectWriteToR10
           \/ RejectUninitRead \/ RejectStackOffset \/ RejectBlock \/ NoExitInstruction
           \/ Converged \/ Accept
  BY <1>1 DEF EmptyProgram, BranchOutOfBounds, BackEdgeBudgetExceeded, RejectWriteToR10,
    RejectUninitRead, RejectStackOffset, RejectBlock, NoExitInstruction, Converged, Accept,
    Reject, Sweeping
<1>2. CASE BuildCfg
  <2>1. iterations' = 0
    BY <1>2 DEF BuildCfg, SweepInv
  <2> QED
    BY <2>1 DEF LevelsInv
<1>3. CASE StartSweep
  <2>1. /\ UNCHANGED <<cfgVars, reachable, regIn>> /\ iterations' = iterations + 1
        /\ phase' = "blocks" /\ bb' = 0 /\ prog' = prog
    BY <1>3 DEF StartSweep, cfgVars
  <2>2. phase = "while" /\ LevelsInv
    BY <1>3 DEF StartSweep, SweepInv, Sweeping
  <2>3. \A r, t : HandedOn(r, t)' = HandedOn(r, t)
    BY <2>1 DEF cfgVars, HandedOn, Found
  <2>4. ASSUME NEW r \in Regs, NEW k \in Nat, NEW t \in Within(prog, r, k)
        PROVE  /\ k + 1 < iterations' => HandedOn(r, t)
               /\ ~ Passed(t[1])' /\ Holds(r, t)'
    <3>1. k + 1 < iterations' => k < iterations
      BY <1>p, <2>1
    <3>2. k < iterations => HandedOn(r, t)
      BY <2>2 DEF LevelsInv, Passed
    <3>3. ~ (t[1] < 0)
      BY <1>p
    <3> QED
      BY <2>1, <3>1, <3>2, <3>3 DEF Passed, Holds
  <2> QED
    BY <2>1, <2>3, <2>4 DEF LevelsInv
<1>4. CASE SkipUnreachable
  <2>1. /\ UNCHANGED <<cfgVars, reachable, regIn, iterations, phase>> /\ phase = "blocks"
        /\ bb < N /\ bb \notin reachable /\ bb' = BlockEnd(bb) /\ bb \in starts
    BY <1>4, <1>p DEF SkipUnreachable, flowVars, TypeOK
  <2>2. LevelsInv /\ Sweeping /\ bb \in Nat /\ BlockEnd(bb) \in Nat
    BY <1>p, <2>1, BlockEndFacts DEF SweepInv, Sweeping
  <2>3. ASSUME NEW r \in Regs, NEW k \in Nat, NEW t \in Within(prog, r, k), k < iterations
        PROVE  (Passed(t[1])' => Passed(t[1]) \/ HandedOn(r, t)) /\ Holds(r, t)'
    <3>1. ASSUME bb <= t[1], t[1] < BlockEnd(bb)
          PROVE  FALSE
      <4>1. PICK v \in BOOLEAN : <<bb, v>> \in Within(prog, r, k)
        BY <2>1, <3>1, BlocksAreEntered
      <4>2. <<bb, v>>[1] = bb
        OBVIOUS
      <4>3. \A p \in Nat : p < bb => Passed(p)
        BY <2>1 DEF Passed
      <4>4. Found(r, <<bb, v>>)
        BY <2>1, <2>2, <2>3, <4>1, <4>2, <4>3, FoundAtStart
      <4> QED
        BY <2>1, <4>2, <4>4 DEF Found
    <3>2. t[1] < BlockEnd(bb) => t[1] < bb
      BY <1>p, <2>2, <3>1
    <3>3. Passed(t[1])' => Passed(t[1])
      BY <2>1, <3>2 DEF Passed
    <3> QED
      BY <2>1, <3>3 DEF Holds
  <2> QED
    BY <2>1, <2>2, <2>3, LevelsFrame
<1>5. CASE EnterBlock
  <2>1. /\ UNCHANGED <<cfgVars, reachable, regIn, iterations, bb>> /\ phase = "blocks"
        /\ phase' = "insns" /\ pc' = bb /\ regs' = regIn[bb] /\ bb \in reachable
    BY <1>5 DEF EnterBlock, flowVars
  <2>2. LevelsInv /\ Sweeping
    BY <2>1 DEF SweepInv, Sweeping
  <2>3. ASSUME NEW r \in Regs, NEW k \in Nat, NEW t \in Within(prog, r, k), k < iterations
        PROVE  (Passed(t[1])' => Passed(t[1]) \/ HandedOn(r, t)) /\ Holds(r, t)'
    <3>1. ASSUME t[1] = bb, t[2] = TRUE
          PROVE  r \notin regIn[bb]
      <4>1. \A p \in Nat : p < bb => Passed(p)
        BY <2>1 DEF Passed
      <4>2. Found(r, t)
        BY <1>p, <2>1, <2>2, <2>3, <3>1, <4>1, FoundAtStart
      <4> QED
        BY <3>1, <4>2 DEF Found
    <3>2. Passed(t[1])' => Passed(t[1])
      BY <2>1 DEF Passed
    <3> QED
      BY <2>1, <3>1, <3>2 DEF Holds
  <2> QED
    BY <2>1, <2>2, <2>3, LevelsFrame
<1>6. CASE CheckInsn
  BY <1>6, LevelsCheck DEF SweepInv, Sweeping, CheckInsn
<1>7. CASE Propagate
  BY <1>7, LevelsPropagate DEF SweepInv, Sweeping, Propagate
<1>8. CASE EndSweep
  <2>1. /\ UNCHANGED <<cfgVars, reachable, regIn, iterations>> /\ phase = "blocks"
        /\ phase' = "while" /\ bb = N
    BY <1>8 DEF EndSweep, flowVars
  <2>2. LevelsInv
    BY <2>1 DEF SweepInv, Sweeping
  <2>3. \A r \in Regs : \A k \in Nat : \A t \in Within(prog, r, k) : Passed(t[1]) /\ Holds(r, t)'
    BY <1>p, <2>1 DEF Passed, Holds
  <2> QED
    BY <2>1, <2>2, <2>3, LevelsFrame
<1>9. CASE UNCHANGED vvars
  <2>1. UNCHANGED <<prog, starts, reachable, regIn, iterations, phase, bb, pc, regs>>
    BY <1>9 DEF vvars
  <2>2. LevelsInv
    BY <2>1 DEF SweepInv, Sweeping
  <2> QED
    BY <2>1, <2>2 DEF LevelsInv, HandedOn, Found, Passed, Holds
<1> QED
  BY <1>1, <1>2, <1>3, <1>4, <1>5, <1>6, <1>7, <1>8, <1>9 DEF Next

(* and no sweep is begun after the one that can change nothing.            *)
LEMMA SweepStep ==
  StructInv /\ StructInv' /\ PathsInv /\ SweepInv /\ [Next]_vvars => SweepInv'
<1> SUFFICES ASSUME StructInv, StructInv', PathsInv, SweepInv, [Next]_vvars PROVE SweepInv'
  OBVIOUS
<1>1. (Sweeping => LevelsInv)'
  BY LevelsStep
<1>2. prog' = prog
  BY ProgramStays
<1>3. SweepBound' = SweepBound /\ iterations \in Nat
  BY <1>2 DEF SweepBound, BackwardBranches, StructInv, TypeOK
<1>b. prog # <<>> => SweepBound \in Nat
  BY LevelsHavePaths DEF SweepBound, StructInv
<1>4. CASE StartSweep \/ BackEdgeBudgetExceeded
  <2>1. /\ phase = "while" /\ changed /\ iterations' = iterations + 1 /\ phase' # "cfg"
        /\ ~ changed'
    BY <1>4 DEF StartSweep, BackEdgeBudgetExceeded, Reject
  <2>2. prog # <<>>
    BY <2>1 DEF StructInv, TypeOK
  <2>3. iterations # SweepBound /\ iterations <= SweepBound
    BY <2>1 DEF SweepInv, Sweeping
  <2>4. iterations' <= SweepBound'
    BY <1>3, <1>b, <2>1, <2>2, <2>3
  <2> QED
    BY <1>1, <2>1, <2>4 DEF SweepInv
<1>5. CASE Propagate
  <2>1. iterations' = iterations /\ phase' = "blocks" /\ Sweeping
    BY <1>5 DEF Propagate, Sweeping
  <2> QED
    BY <1>1, <1>3, <1>5, <2>1, LastSweepIsQuiet DEF SweepInv
<1>6. CASE BuildCfg
  <2>1. iterations' = iterations /\ iterations = 0 /\ phase' = "while" /\ prog # <<>>
    BY <1>6 DEF BuildCfg, SweepInv
  <2>2. iterations # SweepBound
    BY <2>1, LevelsHavePaths DEF SweepBound, StructInv
  <2> QED
    BY <1>1, <1>3, <2>1, <2>2 DEF SweepInv
<1>7. CASE /\ UNCHANGED <<iterations, changed>>
           /\ (Sweeping' => Sweeping) /\ (phase' = "cfg" => phase = "cfg")
  BY <1>1, <1>3, <1>7 DEF SweepInv
<1>8. CASE \/ EmptyProgram \/ BranchOutOfBounds \/ RejectWriteToR10 \/ RejectUninitRead
           \/ RejectStackOffset \/ RejectBlock \/ NoExitInstruction \/ Converged \/ Accept
           \/ SkipUnreachable \/ EnterBlock \/ CheckInsn \/ EndSweep \/ UNCHANGED vvars
  BY <1>7, <1>8 DEF EmptyProgram, BranchOutOfBounds, RejectWriteToR10, RejectUninitRead,
    RejectStackOffset, RejectBlock, NoExitInstruction, Converged, Accept, SkipUnreachable,
    EnterBlock, CheckInsn, EndSweep, vvars, flowVars, Reject, Sweeping
<1> QED
  BY <1>4, <1>5, <1>6, <1>8 DEF Next

(* It holds before the first pass,                                         *)
LEMMA SweepStart == prog \in Seq(Insn) /\ Unverified => SweepInv
<1> SUFFICES ASSUME prog \in Seq(Insn), Unverified PROVE SweepInv
  OBVIOUS
<1>1. StructInv
  BY InitStruct
<1>2. Cardinality(BackwardBranches) \in Nat
  BY <1>1, CountedBranches DEF StructInv
<1> QED
  BY <1>2 DEF SweepInv, SweepBound, Sweeping, Unverified

(* so it always holds.                                                     *)
LEMMA SweepInvariant == Spec => []SweepInv
<1>1. Init => SweepInv
  BY InitProgram, SweepStart
<1>2. StructInv /\ StructInv' /\ PathsInv /\ SweepInv /\ [Next]_vvars => SweepInv'
  BY SweepStep
<1> QED
  BY <1>1, <1>2, StructInvariant, PathsInvariant, PTL DEF Spec

(* The analysis sweeps at most twice, and twice more for every backward    *)
(* branch of the program, whatever the program and the budget: a program   *)
(* of forward branches needs two sweeps, and only one with enough backward *)
(* branches is refused for the budget.                                     *)
THEOREM SweepsBounded == Spec => []SweepsFollowBackwardBranches
<1>1. SweepInv => SweepsFollowBackwardBranches
  BY DEF SweepInv, SweepsFollowBackwardBranches
<1> QED
  BY <1>1, SweepInvariant, PTL

----------------------------------------------------------------------------
(* What the errors say of the program refused.                             *)

(* The register blamed for an uninitialised read is one of those read.     *)
LEMMA BlamedIsRead ==
  ASSUME NEW i \in Insn, NEW s, ~ (Reads(i) \subseteq s)
  PROVE  FirstUninit(i, Reads(i) \ s) \in Regs /\ FirstUninit(i, Reads(i) \ s) \in Reads(i) \ s
<1> DEFINE bad == Reads(i) \ s
<1>1. bad # {} /\ \A x \in bad : x \in {i.src, i.dst, R0} /\ x \in Regs
  BY DEF Reads, ReadsSrc, ReadsDst, Insn, Imm, R0, Regs, NUM_REGS
<1>2. i.kind = "exit" => \A x \in bad : x = R0
  BY DEF Reads, ReadsSrc, ReadsDst
<1>3. i.kind # "exit" => \A x \in bad : x \in {i.src, i.dst}
  BY DEF Reads
<1>4. FirstUninit(i, bad) \in bad
  <2> HIDE DEF bad
  <2> QED
    BY <1>1, <1>2, <1>3 DEF FirstUninit
<1> QED
  BY <1>1, <1>4

(* An instruction that ends a block is the last one of some block.         *)
LEMMA BlockOfEnd ==
  ASSUME TypeOK, 0 \in starts, NEW q \in Pcs(prog), q + 1 \in starts \cup {N}
  PROVE  \E b \in starts : BlockEnd(b) = q + 1
<1> DEFINE Distances == {q - s : s \in {t \in starts : t <= q}}
<1>1. /\ N \in Nat /\ q \in Nat /\ q < N
      /\ \A s \in starts : s \in Nat /\ s < N
  BY ProgFacts DEF TypeOK
<1>2. Distances \subseteq Nat /\ Distances # {}
  <2>1. q - 0 \in Distances
    BY <1>1
  <2> QED
    BY <1>1, <2>1
<1>3. PICK d \in Distances : \A e \in Distances : d <= e
  <2> HIDE DEF Distances
  <2> QED BY <1>2, LeastNatural
<1>4. PICK b \in starts : b <= q /\ d = q - b
  BY <1>3
<1>5. \A t \in starts : t <= q => q - b <= q - t
  BY <1>3, <1>4
<1>6. \A t \in starts : b < t => q + 1 <= t
  BY <1>1, <1>4, <1>5
<1>7. /\ BlockEnd(b) \in starts \cup {N} /\ b < BlockEnd(b) /\ BlockEnd(b) <= N
      /\ BlockEnd(b) \in Nat
      /\ \A t \in starts : b < t => BlockEnd(b) <= t
  BY <1>1, <1>4, BlockEndFacts
<1>8. q + 1 <= BlockEnd(b)
  BY <1>1, <1>6, <1>7
<1>9. BlockEnd(b) <= q + 1
  BY <1>1, <1>4, <1>7
<1>10. BlockEnd(b) = q + 1
  BY <1>1, <1>7, <1>8, <1>9
<1> QED
  BY <1>4, <1>10

(* The last sweep checked every instruction of a reachable block.          *)
LEMMA ConvergedChecksBlocks ==
  ASSUME StructInv, TailCallFree(prog), QuietSweepIsConsistent, phase = "exits",
         NEW b \in reachable
  PROVE  BlockEnd(b) - 1 \in checked
<1> USE DEF StructInv
<1>1. /\ Analysing /\ ~ changed /\ starts # {} /\ prog # <<>> /\ bb = N /\ InFlight = {}
      /\ N \in Nat /\ Pcs(prog) = 0 .. N - 1 /\ b \in starts /\ b \in Nat /\ b < N
  BY ProgFacts DEF Analysing, CfgInv, CursorInv, InFlight, TypeOK
<1>2. /\ BlockEnd(b) \in Nat /\ b < BlockEnd(b) /\ BlockEnd(b) <= N
      /\ \A t \in starts : b < t => BlockEnd(b) <= t
  BY <1>1, BlockEndFacts
<1>3. b \in checked /\ \A p \in checked : Settled(p)
  BY <1>1 DEF QuietSweepIsConsistent
<1> DEFINE S == {k \in Nat : b + k < BlockEnd(b) => b + k \in checked}
<1>4. 0 \in S
  BY <1>1, <1>3
<1>5. ASSUME NEW k \in Nat, k \in S
      PROVE  k + 1 \in S
  <2> SUFFICES ASSUME b + (k + 1) < BlockEnd(b) PROVE b + (k + 1) \in checked
    OBVIOUS
  <2>1. PICK p \in Nat : p = b + k
    BY <1>1
  <2>2. /\ p \in checked /\ p \in Pcs(prog) /\ p + 1 < N /\ b + (k + 1) = p + 1
        /\ p + 1 < BlockEnd(b) /\ b < p + 1
    BY <1>1, <1>2, <1>5, <2>1
  <2>3. p + 1 \notin starts
    BY <1>2, <2>2
  <2>4. p + 1 \in ExecSuccessors(prog, p) \cap Pcs(prog)
    BY <1>1, <2>2, <2>3, MidBlockFalls
  <2>5. HandedTo(p + 1, Post(At(prog, p), In(p)))
    BY <1>3, <2>2, <2>4 DEF Settled
  <2> QED
    BY <2>2, <2>3, <2>5 DEF HandedTo
<1>6. Nat \subseteq S
  <2> HIDE DEF S
  <2> QED
    BY <1>4, <1>5, NaturalsInductively
<1>7. BlockEnd(b) - 1 - b \in Nat /\ b + (BlockEnd(b) - 1 - b) = BlockEnd(b) - 1
  BY <1>1, <1>2
<1>8. BlockEnd(b) - 1 - b \in S
  BY <1>6, <1>7
<1> QED
  BY <1>2, <1>7, <1>8

(* What RejectionsJustified says of verdict v, instruction p, register r.  *)
Justified(v, p, r) ==
  /\ v = "EmptyProgram" => prog = <<>>
  /\ v = "BranchOutOfBounds" =>
       p \in Pcs(prog) /\ IsBranch(At(prog, p)) /\ Target(prog, p) \notin Pcs(prog)
  /\ v = "UninitializedRegRead" =>
       /\ r \in Reads(At(prog, p))
       /\ <<p, TRUE>> \in PathStates(prog, r)
  /\ v = "WriteToR10" => p \in PathReachable /\ WritesDst(At(prog, p)) /\ At(prog, p).dst = R10
  /\ v = "StackOutOfBounds" =>
       /\ p \in PathReachable
       /\ IsMemAccess(At(prog, p)) /\ MemBase(At(prog, p)) = R10
       /\ At(prog, p).off \notin -STACK_SIZE .. -1
  /\ v = "UnreachableCode" => p \notin PathReachable
  /\ v = "FallthroughAfterExit" => p \in PathReachable /\ N \in ExecSuccessors(prog, p)
  /\ v = "NoExitInstruction" => \A q \in PathReachable : At(prog, q).kind # "exit"
  /\ v = "BackEdgeBudgetExceeded" => SweepBound > MAX_BACK_EDGE_TRAVERSALS

(* The two verdicts on an instruction are what it is.                      *)
LEMMA InsnRejectionJustified ==
  ASSUME TypeOK, NEW p \in Pcs(prog), p \in PathReachable
  PROVE  /\ WritesFramePointer(At(prog, p)) => Justified("WriteToR10", p, Imm)
         /\ StackOffsetBad(At(prog, p)) => Justified("StackOutOfBounds", p, Imm)
<1>1. At(prog, p) \in Insn
  BY ProgFacts
<1>2. At(prog, p).off \in Int
  BY <1>1 DEF Insn
<1>3. ASSUME StackOffsetBad(At(prog, p))
      PROVE  /\ IsMemAccess(At(prog, p)) /\ MemBase(At(prog, p)) = R10
             /\ At(prog, p).off \notin -STACK_SIZE .. -1
  BY <1>2, <1>3, StackAssumption DEF StackOffsetBad
<1> QED
  BY <1>3 DEF Justified, WritesFramePointer

(* The budget is spent only by a sweep that follows one that changed       *)
(* something, and those are bounded.                                       *)
LEMMA BudgetRejectionJustified ==
  ASSUME StructInv, SweepInv, BackEdgeBudgetExceeded
  PROVE  SweepBound > MAX_BACK_EDGE_TRAVERSALS
<1>1. prog # <<>> /\ iterations \in Nat
  BY DEF BackEdgeBudgetExceeded, StructInv, TypeOK
<1>2. SweepBound \in Nat
  BY CountedBranches DEF SweepBound, StructInv
<1>3. iterations # SweepBound /\ iterations <= SweepBound
  BY DEF BackEdgeBudgetExceeded, SweepInv, Sweeping
<1>4. iterations + 1 > MAX_BACK_EDGE_TRAVERSALS
  BY DEF BackEdgeBudgetExceeded, BudgetSpent
<1> QED
  BY <1>1, <1>2, <1>3, <1>4, BudgetAssumption

(* A checked block is refused for what is true of it.                      *)
LEMMA BlockRejectionJustified ==
  ASSUME StructInv, QuietSweepIsConsistent, PathsInv, phase = "exits", NEW b \in BadBlocks
  PROVE  IF b \notin reachable THEN b \notin PathReachable
         ELSE /\ BlockEnd(b) - 1 \in PathReachable
              /\ N \in ExecSuccessors(prog, BlockEnd(b) - 1)
<1> USE DEF StructInv
<1>1. /\ starts # {} /\ N \in Nat /\ Pcs(prog) = 0 .. N - 1 /\ starts \subseteq Pcs(prog)
      /\ b \in starts /\ b \in Nat /\ b < N
  BY ProgFacts DEF Analysing, CfgInv, TypeOK, BadBlocks
<1>2. CASE b \notin reachable
  BY <1>1, <1>2, ConvergedSolution DEF SolutionIsMeetOverPaths
<1>3. CASE b \in reachable
  <2>1. /\ BlockEnd(b) \in Nat /\ b < BlockEnd(b) /\ BlockEnd(b) <= N
        /\ BlockEnd(b) \in starts \cup {N}
    BY <1>1, BlockEndFacts
  <2>2. PICK p \in Pcs(prog) : p = BlockEnd(b) - 1 /\ p + 1 = BlockEnd(b)
    BY <1>1, <2>1
  <2>3. Successors(p) = {} /\ At(prog, p).kind \notin {"exit", "tailcall"}
    BY <1>3, <2>2 DEF BadBlocks, DeadEnd
  <2>4. ExecSuccessors(prog, p) \cap Pcs(prog) = {}
    BY <1>1, <2>1, <2>2, <2>3, SuccessorsAreReal DEF PathsInv
  <2>5. IsBranch(At(prog, p)) => Target(prog, p) \in Pcs(prog)
    BY <1>1 DEF CfgInv, BadBranches
  <2>6. p + 1 \in ExecSuccessors(prog, p)
    BY <2>3, <2>4, <2>5 DEF ExecSuccessors, IsBranch
  <2>7. p + 1 = N
    BY <1>1, <2>1, <2>2, <2>4, <2>6
  <2>8. p \in PathReachable
    BY <1>3, <2>2, ConvergedChecksBlocks, ConvergedSolution DEF PathsInv
  <2> QED
    BY <1>3, <2>2, <2>6, <2>7, <2>8
<1> QED
  BY <1>2, <1>3

(* Without an exit at the end of a block there is none on any path.        *)
LEMMA NoExitJustified ==
  ASSUME StructInv, QuietSweepIsConsistent, PathsInv, phase = "exits", ~ HasExit
  PROVE  \A q \in PathReachable : At(prog, q).kind # "exit"
<1> USE DEF StructInv
<1>1. /\ starts # {} /\ 0 \in starts /\ N \in Nat /\ Pcs(prog) = 0 .. N - 1
      /\ prog # <<>> /\ BadBranches = {} /\ starts = BbStarts
  BY ProgFacts DEF Analysing, CfgInv, TypeOK
<1> SUFFICES ASSUME NEW q \in PathReachable, At(prog, q).kind = "exit" PROVE FALSE
  OBVIOUS
<1>2. q \in Pcs(prog)
  BY ConvergedSolution DEF TypeOK
<1>3. q + 1 \in starts \cup {N}
  BY <1>1, <1>2, StartFacts DEF EndsBlock
<1>4. PICK b \in starts : BlockEnd(b) = q + 1
  BY <1>1, <1>2, <1>3, BlockOfEnd
<1>5. BlockEnd(b) - 1 = q
  BY <1>1, <1>2, <1>4
<1> QED
  BY <1>5 DEF HasExit

(* Every verdict is justified when it is given, and stays so.              *)
LEMMA RejectionsStep ==
  StructInv /\ QuietSweepIsConsistent /\ PathsInv /\ SweepInv /\ RejectionsJustified /\ [Next]_vvars
    => RejectionsJustified'
<1> SUFFICES ASSUME StructInv, QuietSweepIsConsistent, PathsInv, SweepInv, RejectionsJustified,
                    [Next]_vvars
             PROVE  RejectionsJustified'
  OBVIOUS
<1> USE DEF StructInv
<1>a. prog' = prog
  BY ProgramStays
<1>b. \A v, p, r : Justified(v, p, r)' <=> Justified(v, p, r)
  BY <1>a DEF Justified, PathReachable, SweepBound, BackwardBranches, N
<1>c. ASSUME NEW v, NEW p, NEW r, Justified(v, p, r),
             phase' = "done" => result' = Verdict(v, p, r)
      PROVE  RejectionsJustified'
  <2> SUFFICES ASSUME phase' = "done" PROVE Justified(result.verdict, result.pc, result.reg)'
    BY DEF RejectionsJustified, Justified
  <2>1. result'.verdict = v /\ result'.pc = p /\ result'.reg = r
    BY <1>c DEF Verdict
  <2>2. Justified(v, p, r)'
    BY <1>b, <1>c
  <2> QED
    BY <2>1, <2>2 DEF Justified
<1>d. \A p, r : /\ prog = <<>> => Justified("EmptyProgram", p, r)
                /\ p \in BadBranches => Justified("BranchOutOfBounds", p, r)
                /\ Justified("Ok", p, r)
  BY DEF Justified, BadBranches
<1>e. phase = "insns" =>
        /\ Witnessed(pc, regs) /\ pc \in PathReachable
        /\ At(prog, pc) \in Insn
  <2> SUFFICES ASSUME phase = "insns" PROVE Witnessed(pc, regs) /\ pc \in PathReachable
                                            /\ At(prog, pc) \in Insn
    OBVIOUS
  <2>1. Witnessed(pc, regs) /\ R0 \in Regs /\ At(prog, pc) \in Insn
    BY ProgFacts DEF PathsInv, CfgInv, Analysing, TypeOK, R0, Regs, NUM_REGS
  <2>2. PICK u \in BOOLEAN : <<pc, u>> \in PathStates(prog, R0)
    BY <2>1 DEF Witnessed
  <2>3. <<pc, u>>[1] = pc
    OBVIOUS
  <2> QED
    BY <2>1, <2>2, <2>3 DEF PathReachable
<1>1. CASE EmptyProgram \/ Accept
  BY <1>1, <1>c, <1>d DEF EmptyProgram, Accept, Reject
<1>9. CASE BackEdgeBudgetExceeded
  <2>1. Justified("BackEdgeBudgetExceeded", 0, Imm)
    BY <1>9, BudgetRejectionJustified DEF Justified
  <2> QED
    BY <1>9, <1>c, <2>1 DEF BackEdgeBudgetExceeded, Reject
<1>2. CASE BranchOutOfBounds
  BY <1>2, <1>c, <1>d DEF BranchOutOfBounds, Reject
<1>3. CASE RejectWriteToR10 \/ RejectStackOffset
  <2>1. pc \in PathReachable /\ pc \in Pcs(prog)
    BY <1>3, <1>e DEF RejectWriteToR10, RejectStackOffset, TypeOK
  <2>2. /\ RejectWriteToR10 => Justified("WriteToR10", pc, Imm)
        /\ RejectStackOffset => Justified("StackOutOfBounds", pc, Imm)
    BY <2>1, InsnRejectionJustified DEF RejectWriteToR10, RejectStackOffset
  <2> QED
    BY <1>3, <1>c, <2>2 DEF RejectWriteToR10, RejectStackOffset, Reject
<1>4. CASE RejectUninitRead
  <2> DEFINE i == At(prog, pc)
             r == FirstUninit(i, Reads(i) \ regs)
  <2>1. i \in Insn /\ ~ (Reads(i) \subseteq regs) /\ Witnessed(pc, regs)
    BY <1>4, <1>e DEF RejectUninitRead, UninitRead
  <2>2. r \in Regs /\ r \in Reads(i) /\ r \notin regs
    BY <2>1, BlamedIsRead
  <2>3. <<pc, TRUE>> \in PathStates(prog, r)
    BY <2>1, <2>2 DEF Witnessed
  <2>4. Justified("UninitializedRegRead", pc, r)
    BY <2>2, <2>3 DEF Justified
  <2>5. result' = Verdict("UninitializedRegRead", pc, r)
    BY <1>4 DEF RejectUninitRead, Reject
  <2> QED
    BY <1>c, <2>4, <2>5
<1>5. CASE RejectBlock
  <2>1. phase = "exits"
    BY <1>5 DEF RejectBlock
  <2>2. PICK b \in BadBlocks :
          IF b \notin reachable
          THEN result' = Verdict("UnreachableCode", b, Imm)
          ELSE result' = Verdict("FallthroughAfterExit", BlockEnd(b) - 1, Imm)
    BY <1>5 DEF RejectBlock, Reject
  <2>3. CASE b \notin reachable
    <3>1. Justified("UnreachableCode", b, Imm)
      BY <2>1, <2>3, BlockRejectionJustified DEF Justified
    <3> QED
      BY <1>c, <2>2, <2>3, <3>1
  <2>4. CASE b \in reachable
    <3>1. Justified("FallthroughAfterExit", BlockEnd(b) - 1, Imm)
      BY <2>1, <2>4, BlockRejectionJustified DEF Justified
    <3> QED
      BY <1>c, <2>2, <2>4, <3>1
  <2> QED
    BY <2>3, <2>4
<1>6. CASE NoExitInstruction
  <2>1. Justified("NoExitInstruction", 0, Imm)
    BY <1>6, NoExitJustified DEF NoExitInstruction, Justified
  <2> QED
    BY <1>6, <1>c, <2>1 DEF NoExitInstruction, Reject
<1>7. CASE \/ BuildCfg \/ StartSweep \/ SkipUnreachable \/ EnterBlock \/ CheckInsn \/ Propagate
           \/ EndSweep \/ Converged
  <2>1. phase' # "done"
    BY <1>7 DEF BuildCfg, StartSweep, SkipUnreachable, EnterBlock, CheckInsn, Propagate, EndSweep,
      Converged
  <2> QED
    BY <2>1 DEF RejectionsJustified
<1>8. CASE UNCHANGED vvars
  <2>1. phase' = phase /\ result' = result
    BY <1>8 DEF vvars
  <2>2. phase = "done" => Justified(result.verdict, result.pc, result.reg)
    BY DEF RejectionsJustified, Justified
  <2>3. phase' = "done" => Justified(result.verdict, result.pc, result.reg)'
    BY <1>b, <2>1, <2>2
  <2> QED
    BY <2>3 DEF RejectionsJustified, Justified
<1> QED
  BY <1>1, <1>2, <1>3, <1>4, <1>5, <1>6, <1>7, <1>8, <1>9 DEF Next

(* Every error of verify_program but the budget error is true of the       *)
(* program, for every program: a faulty read is one on a path, a bad       *)
(* branch, write or offset is what the instruction says, and no rejection  *)
(* is owed to blocks, merges or the order of the sweeps.  The budget error *)
(* is given only where 2 * BackwardBranches + 2 exceeds the budget, and    *)
(* may be given to a program without a loop.                               *)
THEOREM RejectionsAreJustified == Spec => []RejectionsJustified
<1>1. Init => RejectionsJustified
  BY DEF Init, Unverified, RejectionsJustified
<1>2. StructInv /\ QuietSweepIsConsistent /\ PathsInv /\ SweepInv /\ RejectionsJustified /\ [Next]_vvars
        => RejectionsJustified'
  BY RejectionsStep
<1> QED
  BY <1>1, <1>2, StructInvariant, SweepConsistent, PathsInvariant, SweepInvariant, PTL DEF Spec

----------------------------------------------------------------------------
(* The verifier behind another component, which hands it the program.      *)

(* All that holds of it while it judges a program without tail calls.      *)
JudgingInv ==
  StructInv /\ QuietSweepIsConsistent /\ PathsInv /\ SweepInv /\ RejectionsJustified

(* It holds when a program is handed over, whatever the program,           *)
LEMMA JudgingStart ==
  prog \in Seq(Insn) /\ TailCallFree(prog) /\ Unverified => JudgingInv
<1> SUFFICES ASSUME prog \in Seq(Insn), TailCallFree(prog), Unverified PROVE JudgingInv
  OBVIOUS
<1>1. StructInv
  BY InitStruct
<1>2. QuietSweepIsConsistent
  BY DEF Unverified, Pending, Verdict, QuietSweepIsConsistent, Analysing
<1>3. PathsInv /\ SweepInv /\ RejectionsJustified
  BY SweepStart DEF Unverified, PathsInv, RejectionsJustified
<1> QED
  BY <1>1, <1>2, <1>3 DEF JudgingInv

(* every step of the verifier keeps it,                                    *)
LEMMA JudgingStep == JudgingInv /\ [Next]_vvars => JudgingInv'
<1> SUFFICES ASSUME JudgingInv, [Next]_vvars PROVE JudgingInv'
  OBVIOUS
<1>1. /\ StructInv /\ QuietSweepIsConsistent /\ PathsInv /\ SweepInv
      /\ RejectionsJustified
  BY DEF JudgingInv
<1>2. StructInv'
  BY <1>1, StructStep
<1>3. QuietSweepIsConsistent' /\ SweepInv'
  BY <1>1, <1>2, ConsistencyStep, SweepStep
<1>4. PathsInv' /\ RejectionsJustified'
  BY <1>1, PathsStep, RejectionsStep
<1> QED
  BY <1>2, <1>3, <1>4 DEF JudgingInv

(* and it is what the properties of the verifier say.                      *)
LEMMA JudgingGives ==
  JudgingInv => /\ TypeOK /\ QuietSweepIsConsistent /\ SweepsFollowBackwardBranches
                /\ SolutionIsMeetOverPaths /\ RejectionsJustified
<1>1. JudgingInv => TypeOK /\ QuietSweepIsConsistent /\ RejectionsJustified
  BY DEF JudgingInv, StructInv
<1>2. JudgingInv => SweepsFollowBackwardBranches
  BY DEF JudgingInv, SweepInv, SweepsFollowBackwardBranches
<1>3. JudgingInv => SolutionIsMeetOverPaths
  BY ConvergedSolution DEF JudgingInv, SolutionIsMeetOverPaths
<1> QED
  BY <1>1, <1>2, <1>3
============================================================================

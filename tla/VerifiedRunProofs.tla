------------------------- MODULE VerifiedRunProofs --------------------------
(***************************************************************************)
(* The verifier is sound: what it checked of an accepted program is true   *)
(* of every execution.  The proof follows the execution along the solution *)
(* of the verifier's last sweep: at every step the registers that hold a   *)
(* defined value include those the verifier took to be initialised.        *)
(***************************************************************************)
EXTENDS VerifiedRun, VerifierProofs

RunInv ==
  /\ status \in {"idle", "running", "halted", "left"}
  /\ epc \in Nat /\ live \subseteq Regs
  /\ status # "idle" => /\ result.verdict = "Ok"
                        /\ epc \in checked /\ In(epc) \subseteq live
  /\ status = "left" => epc = N - 1 /\ At(prog, epc).kind = "jcond"

(* The verifier's part of a step is a verifier step, or nothing.           *)
LEMMA VerifierInvariant == RunSpec => []VerifierInv
<1>1. RunInit => VerifierInv
  BY VerifierStart DEF RunInit
<1>2. VerifierInv /\ [RunNext]_allvars => VerifierInv'
  <2>1. [RunNext]_allvars => [Next]_vvars
    BY DEF RunNext, allvars, Verify, StartRun, Step, Halt, Leave
  <2> QED
    BY <2>1, VerifierStep
<1> QED
  BY <1>1, <1>2, PTL DEF RunSpec

(* Execution defines and clobbers what the verifier's transfer function    *)
(* says, and the verifier checks the operands an instruction names and     *)
(* what an exit returns.                                                   *)
LEMMA TransferIsSound ==
  ASSUME NEW i \in Insn, NEW s, NEW t, s \subseteq t
  PROVE  /\ Post(i, s) \subseteq (t \ Clobbers(i)) \cup Defines(i)
         /\ Operands(i) \subseteq Reads(i)
         /\ i.kind = "exit" => Implicit(i) \subseteq Reads(i)
         /\ R10 \in Defines(i) => WritesFramePointer(i)
<1>1. Post(i, s) \subseteq (t \ Clobbers(i)) \cup Defines(i)
  BY DEF Post, Clobbers, Defines, WritesDst
<1>2. Operands(i) \subseteq Reads(i) /\ (i.kind = "exit" => Implicit(i) \subseteq Reads(i))
  BY DEF Operands, Implicit, Reads, ReadsSrc, ReadsDst, Insn, Kinds
<1>3. R10 \in Defines(i) => WritesFramePointer(i)
  BY DEF Defines, WritesFramePointer, WritesDst, R10, R0
<1> QED
  BY <1>1, <1>2, <1>3

(* Control can leave an accepted program only past its end.                *)
LEMMA LeavingFacts ==
  ASSUME VerifierInv, result.verdict = "Ok", NEW p \in Pcs(prog),
         NEW q \in ExecSuccessors(prog, p), q \notin Pcs(prog)
  PROVE  p = N - 1 /\ At(prog, p).kind = "jcond"
<1> USE DEF VerifierInv, StructInv
<1>1. starts # {} /\ BadBranches = {} /\ BadBlocks = {}
  BY DEF CfgInv, Analysing, NoBadBlocks
<1>2. N \in Nat /\ Pcs(prog) = 0 .. N - 1
  BY ProgFacts
<1>3. IsBranch(At(prog, p)) => Target(prog, p) \in Pcs(prog)
  BY <1>1 DEF BadBranches
<1>4. q = p + 1 /\ At(prog, p).kind \notin {"ja", "exit", "tailcall"}
  BY <1>3 DEF ExecSuccessors, IsBranch
<1>5. p = N - 1
  BY <1>2, <1>4
<1>6. PICK b \in starts : BlockEnd(b) = N
  BY <1>1, LastBlockExists
<1>7. At(prog, p).kind # "jcond" => Successors(p) = {}
  BY <1>2, <1>4, <1>5 DEF Successors, IsBranch
<1>8. BlockEnd(b) - 1 = p
  BY <1>2, <1>5, <1>6
<1>9. ~ DeadEnd(b)
  BY <1>1, <1>6 DEF BadBlocks
<1> QED
  BY <1>4, <1>5, <1>7, <1>8, <1>9 DEF DeadEnd

(* Every step of an execution keeps what the solution promises,            *)
LEMMA RunStep == VerifierInv /\ VerifierInv' /\ RunInv /\ [RunNext]_allvars => RunInv'
<1> SUFFICES ASSUME VerifierInv, VerifierInv', RunInv, [RunNext]_allvars PROVE RunInv'
  OBVIOUS
<1> USE DEF VerifierInv, StructInv, RunInv
<1>p. /\ \A p \in Pcs(prog) : At(prog, p) \in Insn /\ p \in Nat
      /\ checked \subseteq Pcs(prog)
  <2>1. N \in Nat /\ Pcs(prog) = 0 .. N - 1 /\ checked \subseteq Pcs(prog)
    BY ProgFacts DEF TypeOK
  <2>2. \A p \in Pcs(prog) : At(prog, p) \in Insn
    BY ProgFacts
  <2> QED
    BY <2>1, <2>2
<1>1. CASE Verify
  <2>1. status = "idle"
    <3>1. result.verdict = "Ok" => phase = "done"
      BY DEF CfgInv
    <3>2. Next => phase # "done"
      BY DEF Next, EmptyProgram, BranchOutOfBounds, BuildCfg, StartSweep, BackEdgeBudgetExceeded,
        SkipUnreachable, EnterBlock, RejectWriteToR10, RejectUninitRead, RejectStackOffset,
        CheckInsn, Propagate, EndSweep, Converged, RejectBlock, NoExitInstruction, Accept
    <3> QED
      BY <1>1, <3>1, <3>2 DEF Verify
  <2> QED
    BY <1>1, <2>1 DEF Verify, evars
<1>2. CASE StartRun
  <2>1. 0 \in checked /\ In(0) \subseteq EntryRegs
    BY <1>2, AcceptedIsClosed DEF StartRun
  <2>2. UNCHANGED <<result, checked>> /\ In(0)' = In(0)
    BY <1>2 DEF StartRun, vvars, In
  <2>3. EntryRegs \subseteq Regs
    BY DEF EntryRegs, R1, R10, Regs, NUM_REGS
  <2>4. In(epc)' \subseteq EntryRegs
    BY <1>2, <2>1 DEF StartRun, vvars, In
  <2> QED
    BY <1>2, <2>1, <2>2, <2>3, <2>4 DEF StartRun
<1>3. CASE Step
  <2>1. PICK q \in ExecSuccessors(prog, epc) \cap Pcs(prog) : epc' = q
    BY <1>3 DEF Step
  <2>2. epc \in checked /\ result.verdict = "Ok" /\ In(epc) \subseteq live
    BY <1>3 DEF Step
  <2>3. q \in checked /\ In(q) \subseteq Post(At(prog, epc), In(epc))
    BY <2>1, <2>2, AcceptedIsClosed
  <2>4. live' = (live \ Clobbers(At(prog, epc))) \cup Defines(At(prog, epc))
    BY <1>3 DEF Step
  <2>5. At(prog, epc) \in Insn
    BY <1>p, <2>2
  <2>6. In(q) \subseteq live'
    BY <2>2, <2>3, <2>4, <2>5, TransferIsSound
  <2>7. Defines(At(prog, epc)) \subseteq Regs
    BY <2>5 DEF Defines, Insn, R0, Regs, NUM_REGS
  <2>8. In(epc)' = In(q) /\ UNCHANGED <<result, checked, status, prog>>
    BY <1>3, <2>1 DEF Step, vvars, In
  <2> QED
    BY <1>3, <1>p, <2>1, <2>2, <2>3, <2>4, <2>6, <2>7, <2>8 DEF Step
<1>4. CASE Halt
  BY <1>4 DEF Halt, vvars, In
<1>5. CASE Leave
  <2>1. PICK q \in ExecSuccessors(prog, epc) : q \notin Pcs(prog)
    BY <1>5 DEF Leave
  <2>2. epc = N - 1 /\ At(prog, epc).kind = "jcond"
    BY <1>5, <1>p, <2>1, LeavingFacts DEF Leave
  <2> QED
    BY <1>5, <2>2 DEF Leave, vvars, In, N
<1>6. CASE UNCHANGED allvars
  BY <1>6 DEF allvars, evars, vvars, In, N
<1> QED
  BY <1>1, <1>2, <1>3, <1>4, <1>5, <1>6 DEF RunNext

(* so the promise always holds.                                            *)
LEMMA RunInvariant == RunSpec => [](VerifierInv /\ RunInv)
<1>1. RunInit => RunInv
  BY DEF RunInit, RunInv
<1>2. VerifierInv /\ VerifierInv' /\ RunInv /\ [RunNext]_allvars => RunInv'
  BY RunStep
<1> QED
  BY <1>1, <1>2, VerifierInvariant, PTL DEF RunSpec

----------------------------------------------------------------------------
(* The run's state keeps its shape, and its instruction pointer stays on   *)
(* an instruction of the program.                                          *)
THEOREM RunTypeCorrect == RunSpec => []RunTypeOK
<1>1. VerifierInv /\ RunInv => RunTypeOK
  BY DEF VerifierInv, StructInv, TypeOK, RunInv, RunTypeOK
<1> QED
  BY <1>1, RunInvariant, PTL

(* The registers that instructions of an accepted program name, and the R0 *)
(* its exits return, are defined, whichever way its branches go:           *)
(* verify.rs:6.  A helper's arguments and the R0 of a compare-exchange     *)
(* need not be.                                                            *)
THEOREM VerifierSoundForOperands == RunSpec => []OperandsDefined
<1>1. VerifierInv /\ RunInv => OperandsDefined
  <2> SUFFICES ASSUME VerifierInv, RunInv, status = "running"
               PROVE  /\ Operands(Current) \subseteq live
                      /\ Current.kind = "exit" => Implicit(Current) \subseteq live
    BY DEF OperandsDefined
  <2>1. epc \in checked /\ In(epc) \subseteq live /\ result.verdict = "Ok"
    BY DEF RunInv
  <2>2. Passes(At(prog, epc), In(epc))
    BY <2>1, AcceptedIsClosed DEF VerifierInv
  <2>3. At(prog, epc) \in Insn
    BY <2>1, ProgFacts DEF VerifierInv, StructInv, TypeOK
  <2> QED
    BY <2>1, <2>2, <2>3, TransferIsSound DEF Passes, Current
<1> QED
  BY <1>1, RunInvariant, PTL

(* R10 is never overwritten and an access based on it begins in the frame, *)
(* on every execution of an accepted program.                              *)
THEOREM VerifierSoundForFrame == RunSpec => []FrameAccessesBeginInFrame
<1>1. VerifierInv /\ RunInv => FrameAccessesBeginInFrame
  <2> SUFFICES ASSUME VerifierInv, RunInv, status = "running"
               PROVE  /\ R10 \notin Defines(Current)
                      /\ IsMemAccess(Current) /\ MemBase(Current) = R10 =>
                           Current.off \in -STACK_SIZE .. -1
    BY DEF FrameAccessesBeginInFrame
  <2>1. epc \in checked /\ result.verdict = "Ok"
    BY DEF RunInv
  <2>2. Passes(At(prog, epc), In(epc))
    BY <2>1, AcceptedIsClosed DEF VerifierInv
  <2>3. At(prog, epc) \in Insn
    BY <2>1, ProgFacts DEF VerifierInv, StructInv, TypeOK
  <2>4. R10 \notin Defines(Current)
    BY <2>2, <2>3, TransferIsSound DEF Passes, Current
  <2>5. Current.off \in Int /\ STACK_SIZE \in Nat
    BY <2>3, StackAssumption DEF Insn, Current
  <2> QED
    BY <2>2, <2>4, <2>5 DEF Passes, StackOffsetBad, Current
<1> QED
  BY <1>1, RunInvariant, PTL

(* Control leaves an accepted program, if at all, past a conditional       *)
(* branch that is its last instruction; no branch leads out of it.         *)
THEOREM ControlLeavesOnlyPastFinalBranch == RunSpec => []LeavesOnlyPastFinalBranch
<1>1. RunInv => LeavesOnlyPastFinalBranch
  BY DEF RunInv, LeavesOnlyPastFinalBranch, Current
<1> QED
  BY <1>1, RunInvariant, PTL
============================================================================

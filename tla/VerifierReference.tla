------------------------- MODULE VerifierReference -------------------------
(***************************************************************************)
(* The verifier's verdict against what it means: a search over all control *)
(* paths, which shares no code with the blocks, sweeps and merges of       *)
(* module Verifier.                                                        *)
(***************************************************************************)
EXTENDS Verifier

(* The checks would fall through a tail call, the paths would not.         *)
ASSUME NoTailCallAssumption == \A p \in Programs : TailCallFree(p)

(* Register r after an instruction, given whether it was uninitialised.    *)
UninitAfter(i, r, uninit) ==
  IF i.kind = "call" THEN r \in ArgRegs \/ (r # R0 /\ uninit)
  ELSE uninit /\ ~ (WritesDst(i) /\ i.dst = r)

(* Where the paths that are at instruction t[1] go from there.             *)
PathStep(p, r, t) ==
  {<<q, UninitAfter(At(p, t[1]), r, t[2])>> : q \in ExecSuccessors(p, t[1]) \cap Pcs(p)}

(* Every <<instruction, is r uninitialised there?>> some path from the     *)
(* entry of program p leads to.  There are 2 * Len(p) such pairs, so that  *)
(* many rounds find all.                                                   *)
PathStates(p, r) ==
  LET round[k \in 0 .. 2 * Len(p)] ==
        IF k = 0 THEN {<<0, r \notin EntryRegs>>}
        ELSE LET before == round[k - 1]
             IN  before \cup UNION {PathStep(p, r, t) : t \in before}
  IN  round[2 * Len(p)]

PathReachable == {s[1] : s \in PathStates(prog, R0)}

(* At convergence the entry state of every reachable block is exactly the  *)
(* meet over all paths: a register is Init there iff no path reaches the   *)
(* block with it uninitialised, and reachable means some path gets there.  *)
SolutionIsMeetOverPaths ==
  phase = "exits" =>
    /\ reachable = starts \cap PathReachable
    /\ \A r \in Regs :
         LET may == PathStates(prog, r) IN
         \A b \in reachable : r \notin regIn[b] <=> <<b, TRUE>> \in may

(* What each error says of the program refused, against the paths: an      *)
(* uninitialised read is one on a real path from the entry, a write to R10 *)
(* and an access outside the frame are what the instruction on a path is,  *)
(* unreachable code is on none, a missing exit means no path has one; a    *)
(* branch out of bounds is one wherever it stands.  The budget error does  *)
(* not say that the program loops, and a program without a loop can get it *)
(* (a chain of backward jumps); it needs backward branches in proportion   *)
(* to the budget, and that is all that is claimed of it.                   *)
RejectionsJustified ==
  phase = "done" =>
    LET v == result.verdict
        p == result.pc
        i == At(prog, p) IN
    /\ v = "EmptyProgram" => prog = <<>>
    /\ v = "BranchOutOfBounds" =>
         p \in Pcs(prog) /\ IsBranch(i) /\ Target(prog, p) \notin Pcs(prog)
    /\ v = "UninitializedRegRead" =>
         /\ result.reg \in Reads(i)
         /\ <<p, TRUE>> \in PathStates(prog, result.reg)
    /\ v = "WriteToR10" => p \in PathReachable /\ WritesDst(i) /\ i.dst = R10
    /\ v = "StackOutOfBounds" =>
         /\ p \in PathReachable
         /\ IsMemAccess(i) /\ MemBase(i) = R10 /\ i.off \notin -STACK_SIZE .. -1
    /\ v = "UnreachableCode" => p \notin PathReachable
    /\ v = "FallthroughAfterExit" =>
         p \in PathReachable /\ N \in ExecSuccessors(prog, p)
    /\ v = "NoExitInstruction" =>
         \A q \in PathReachable : At(prog, q).kind # "exit"
    /\ v = "BackEdgeBudgetExceeded" => SweepBound > MAX_BACK_EDGE_TRAVERSALS

============================================================================

----------------------------- MODULE Verifier ------------------------------
(***************************************************************************)
(* verify_program (crates/ebpf-core/src/verify.rs) as a state machine.     *)
(*                                                                         *)
(* The four passes run one after the other: find_bb_starts and build_cfg   *)
(* (one step, they only read the program), dataflow_analysis (one step per *)
(* sweep start, skipped block, checked instruction and propagation) and    *)
(* check_exit_reachability (one step).  A basic block is named by the      *)
(* index of its first instruction; the code names it by the rank of that   *)
(* index in bb_starts, which has the same order.  A RegFile is the set of  *)
(* registers whose state is Init.                                          *)
(***************************************************************************)
EXTENDS Bpf

CONSTANTS
  Programs,                     \* the decoded programs that may be submitted
  MAX_BACK_EDGE_TRAVERSALS,     \* sweeps before the analysis gives up (32)
  STACK_SIZE                    \* bytes of the eBPF stack frame (512)

ASSUME ProgramsAssumption == \A p \in Programs : p \in Seq(Insn)
ASSUME BudgetAssumption   == MAX_BACK_EDGE_TRAVERSALS \in Nat \ {0}
ASSUME StackAssumption    == STACK_SIZE \in Nat \ {0}

VARIABLES
  prog,        \* insns: the program under verification
  phase,       \* where verify_program stands
  result,      \* its verdict, once phase = "done"
  starts,      \* bb_starts
  reachable,   \* the blocks whose `reachable` flag is set
  regIn,       \* reg_state_in of every block (by its start)
  changed,     \* did this sweep change a block?
  iterations,  \* sweeps begun
  bb,          \* the block the sweep is at; Len(prog) when it is over
  pc,          \* the instruction being checked
  regs,        \* `state`: registers initialised before pc
  checked,     \* history: the instructions checked in this sweep
  seen         \* history: `regs` as of the last check of an instruction

cfgVars   == <<prog, starts>>
flowVars  == <<reachable, regIn, changed, iterations>>
history   == <<checked, seen>>
vvars     == <<prog, phase, result, starts, reachable, regIn, changed,
               iterations, bb, pc, regs, checked, seen>>

N == Len(prog)

(* decode_program never builds a TailCall (decode.rs), which the checks    *)
(* would fall through and an execution would not.                          *)
TailCallFree(p) == \A q \in Pcs(p) : At(p, q).kind # "tailcall"

Errors == {"BranchOutOfBounds", "UninitializedRegRead", "StackOutOfBounds",
           "WriteToR10", "NoExitInstruction", "UnreachableCode",
           "BackEdgeBudgetExceeded", "FallthroughAfterExit", "EmptyProgram"}
Verdict(v, p, r) == [verdict |-> v, pc |-> p, reg |-> r]
Pending    == Verdict("Pending", 0, Imm)

(* Return Err(e), blaming instruction p (and register r, if one is named). *)
Reject(e, p, r) ==
  /\ phase'  = "done"
  /\ result' = Verdict(e, p, r)

----------------------------------------------------------------------------
(* The checks on one instruction: check_and_update_regs and its helpers.   *)

WritesDst(i) == i.kind \in {"mov", "alu", "load", "ldimm", "endian"}
ReadsSrc(i)  ==
  i.kind \in {"mov", "alu", "load", "storereg", "atomic", "cmpxchg", "jcond"} /\ i.src # Imm
ReadsDst(i)  ==
  i.kind \in {"alu", "storereg", "storeimm", "atomic", "cmpxchg", "endian", "jcond"}
Reads(i) == (IF ReadsSrc(i) THEN {i.src} ELSE {})
              \cup (IF ReadsDst(i) THEN {i.dst} ELSE {})
              \cup (IF i.kind = "exit" THEN {R0} ELSE {})

WritesFramePointer(i) == WritesDst(i) /\ i.dst = R10
\* Faulty: the byte at the frame pointer is taken to be in the frame.
StackOffsetBadOffByOne(i) ==
  IsMemAccess(i) /\ MemBase(i) = R10 /\ (i.off > 0 \/ i.off < -STACK_SIZE)
StackOffsetBad(i) ==
  IsMemAccess(i) /\ MemBase(i) = R10 /\ (i.off >= 0 \/ i.off < -STACK_SIZE)

(* The register of an UninitializedRegRead: an ALU instruction checks its  *)
(* source first, the others their destination (or base) first.             *)
FirstUninit(i, bad) ==
  IF i.src \in bad /\ (i.kind = "alu" \/ i.dst \notin bad) THEN i.src
  ELSE IF i.kind = "exit" THEN R0 ELSE i.dst

(* Faulty: a call's result is forgotten.                                   *)
PostForgetsResult(i, s) ==
  IF i.kind = "call" THEN s \ ArgRegs ELSE IF WritesDst(i) THEN s \cup {i.dst} ELSE s

(* The state after an instruction that passed: a call leaves a result in   *)
(* R0 and clobbers the argument registers.                                 *)
Post(i, s) ==
  IF i.kind = "call" THEN (s \ ArgRegs) \cup {R0}
  ELSE IF WritesDst(i) THEN s \cup {i.dst} ELSE s

\* Faulty merges: Init on either path, and the last path wins.
MergeEither(a, b)    == a \cup b
MergeLastWins(a, b)  == b
RegFileMerge(a, b) == a \cap b
EntryRegs          == {R1, R10}

----------------------------------------------------------------------------
(* Phase 1: find_bb_starts and build_cfg.                                  *)

\* Faulty: a branch just past the end is let through.
BadBranchesOffByOne == {p \in Pcs(prog) : IsBranch(At(prog, p)) /\ Target(prog, p) \notin 0 .. N}
BadBranches == {p \in Pcs(prog) : IsBranch(At(prog, p)) /\ Target(prog, p) \notin Pcs(prog)}

EndsBlock(i) == i.kind \in {"ja", "jcond", "exit"}
BbStarts ==
  {0} \cup {Target(prog, p) : p \in {q \in Pcs(prog) : IsBranch(At(prog, q))}}
      \cup {p + 1 : p \in {q \in Pcs(prog) : EndsBlock(At(prog, q)) /\ q + 1 < N}}

(* insn_to_bb: the block an instruction lies in.                           *)
InsnToBb(p) == CHOOSE s \in starts : s <= p /\ \A t \in starts : t <= p => t <= s

(* The start of the block after b: b's exclusive end.                      *)
BlockEnd(b) ==
  CHOOSE e \in starts \cup {N} : b < e /\ \A t \in starts : b < t => e <= t

(* The successors build_cfg gives the block whose last instruction is p.   *)
Successors(p) ==
  (IF At(prog, p).kind \notin {"ja", "exit"} /\ p + 1 < N THEN {InsnToBb(p + 1)} ELSE {})
  \cup (IF IsBranch(At(prog, p)) THEN {InsnToBb(Target(prog, p))} ELSE {})

EmptyProgram ==
  /\ phase = "cfg" /\ prog = <<>>
  /\ Reject("EmptyProgram", 0, Imm)
  /\ UNCHANGED <<cfgVars, flowVars, bb, pc, regs, history>>

BranchOutOfBounds ==
  /\ phase = "cfg" /\ BadBranches # {}
  /\ \E p \in BadBranches :
       /\ \A q \in BadBranches : p <= q
       /\ Reject("BranchOutOfBounds", p, Imm)
  /\ UNCHANGED <<cfgVars, flowVars, bb, pc, regs, history>>

BuildCfg ==
  /\ phase = "cfg" /\ prog # <<>> /\ BadBranches = {}
  /\ phase' = "while"
  /\ starts' = BbStarts
  /\ reachable' = {0}
  /\ regIn' = [p \in Pcs(prog) |-> IF p = 0 THEN EntryRegs ELSE {}]
  /\ changed' = TRUE
  /\ UNCHANGED <<prog, result, iterations, bb, pc, regs, history>>

----------------------------------------------------------------------------
(* Phase 2: dataflow_analysis.                                             *)

BudgetSpent(k) == k > MAX_BACK_EDGE_TRAVERSALS

StartSweep ==
  /\ phase = "while" /\ changed
  /\ ~ BudgetSpent(iterations + 1)
  /\ changed' = FALSE
  /\ iterations' = iterations + 1
  /\ phase' = "blocks"
  /\ bb' = 0
  /\ checked' = {}
  /\ UNCHANGED <<cfgVars, result, reachable, regIn, pc, regs, seen>>

BackEdgeBudgetExceeded ==
  /\ phase = "while" /\ changed
  /\ BudgetSpent(iterations + 1)
  /\ changed' = FALSE
  /\ iterations' = iterations + 1
  /\ Reject("BackEdgeBudgetExceeded", 0, Imm)
  /\ UNCHANGED <<cfgVars, reachable, regIn, bb, pc, regs, history>>

SkipUnreachable ==
  /\ phase = "blocks" /\ bb < N /\ bb \notin reachable
  /\ bb' = BlockEnd(bb)
  /\ UNCHANGED <<cfgVars, phase, result, flowVars, pc, regs, history>>

EnterBlock ==
  /\ phase = "blocks" /\ bb < N /\ bb \in reachable
  /\ phase' = "insns"
  /\ pc' = bb
  /\ regs' = regIn[bb]
  /\ UNCHANGED <<cfgVars, result, flowVars, bb, history>>

(* check_and_update_regs fails: the first failing check is reported.       *)
RejectWriteToR10 ==
  /\ phase = "insns" /\ WritesFramePointer(At(prog, pc))
  /\ Reject("WriteToR10", pc, Imm)
  /\ UNCHANGED <<cfgVars, flowVars, bb, pc, regs, history>>

UninitRead(i, s) == ~ WritesFramePointer(i) /\ ~ (Reads(i) \subseteq s)
RejectUninitRead ==
  /\ phase = "insns" /\ UninitRead(At(prog, pc), regs)
  /\ Reject("UninitializedRegRead", pc, FirstUninit(At(prog, pc), Reads(At(prog, pc)) \ regs))
  /\ UNCHANGED <<cfgVars, flowVars, bb, pc, regs, history>>

Passes(i, s) == ~ WritesFramePointer(i) /\ Reads(i) \subseteq s /\ ~ StackOffsetBad(i)
RejectStackOffset ==
  /\ phase = "insns"
  /\ ~ WritesFramePointer(At(prog, pc)) /\ Reads(At(prog, pc)) \subseteq regs
  /\ StackOffsetBad(At(prog, pc))
  /\ Reject("StackOutOfBounds", pc, Imm)
  /\ UNCHANGED <<cfgVars, flowVars, bb, pc, regs, history>>

(* The instruction passes; after the block's last one, `state` is ready to *)
(* be propagated.                                                          *)
CheckInsn ==
  /\ phase = "insns" /\ Passes(At(prog, pc), regs)
  /\ regs' = Post(At(prog, pc), regs)
  /\ checked' = checked \cup {pc}
  /\ seen' = [seen EXCEPT ![pc] = regs]
  /\ IF pc + 1 < BlockEnd(bb)
     THEN pc' = pc + 1 /\ UNCHANGED phase
     ELSE phase' = "propagate" /\ UNCHANGED pc
  /\ UNCHANGED <<cfgVars, result, flowVars, bb>>

(* What a block's state becomes when `state` = s reaches it.               *)
\* Faulty: a block keeps the state it was first reached with.
FlowFirstOnly(b, s) == IF b \in reachable THEN regIn[b] ELSE s
Flow(b, s) == IF b \in reachable THEN RegFileMerge(regIn[b], s) ELSE s

\* Faulty: a merge is not counted as a change; every visit is.
FlowChangesNewOnly(b, s) == b \notin reachable
FlowChangesAlways(b, s)  == TRUE
FlowChanges(b, s) == b \notin reachable \/ Flow(b, s) # regIn[b]
Propagate ==
  LET succ == Successors(pc) IN
  /\ phase = "propagate"
  /\ regIn' = [b \in Pcs(prog) |-> IF b \in succ THEN Flow(b, regs) ELSE regIn[b]]
  /\ reachable' = reachable \cup succ
  /\ changed' = (changed \/ \E b \in succ : FlowChanges(b, regs))
  /\ phase' = "blocks"
  /\ bb' = BlockEnd(bb)
  /\ UNCHANGED <<cfgVars, result, iterations, pc, regs, history>>

EndSweep ==
  /\ phase = "blocks" /\ bb = N
  /\ phase' = "while"
  /\ UNCHANGED <<cfgVars, result, flowVars, bb, pc, regs, history>>

Converged ==
  /\ phase = "while" /\ ~ changed
  /\ phase' = "exits"
  /\ UNCHANGED <<cfgVars, result, flowVars, bb, pc, regs, history>>

----------------------------------------------------------------------------
(* Phase 3: check_exit_reachability, block by block in program order.      *)

\* Faulty: blocks without a successor are not looked at.
DeadEndUnchecked(b) == FALSE
DeadEnd(b) ==
  LET p == BlockEnd(b) - 1
  IN  Successors(p) = {} /\ At(prog, p).kind \notin {"exit", "tailcall"}
BadBlocks == {b \in starts : b \notin reachable \/ DeadEnd(b)}
HasExit   == \E b \in starts : At(prog, BlockEnd(b) - 1).kind = "exit"

RejectBlock ==
  /\ phase = "exits"
  /\ \E b \in BadBlocks :
       /\ \A c \in BadBlocks : b <= c
       /\ IF b \notin reachable
          THEN Reject("UnreachableCode", b, Imm)
          ELSE Reject("FallthroughAfterExit", BlockEnd(b) - 1, Imm)
  /\ UNCHANGED <<cfgVars, flowVars, bb, pc, regs, history>>

NoExitInstruction ==
  /\ phase = "exits" /\ BadBlocks = {} /\ ~ HasExit
  /\ Reject("NoExitInstruction", 0, Imm)
  /\ UNCHANGED <<cfgVars, flowVars, bb, pc, regs, history>>

Accept ==
  /\ phase = "exits" /\ BadBlocks = {} /\ HasExit
  /\ phase' = "done"
  /\ result' = Verdict("Ok", 0, Imm)
  /\ UNCHANGED <<cfgVars, flowVars, bb, pc, regs, history>>

----------------------------------------------------------------------------
(* Where every call of verify_program begins, whatever its program.        *)
Unverified ==
  /\ phase = "cfg" /\ result = Pending
  /\ starts = {} /\ reachable = {}
  /\ regIn = [p \in Pcs(prog) |-> {}]
  /\ changed = TRUE /\ iterations = 0
  /\ bb = 0 /\ pc = 0 /\ regs = {}
  /\ checked = {} /\ seen = [p \in Pcs(prog) |-> {}]
Init == prog \in Programs /\ Unverified

Next ==
  \/ EmptyProgram \/ BranchOutOfBounds \/ BuildCfg
  \/ StartSweep \/ BackEdgeBudgetExceeded \/ SkipUnreachable \/ EnterBlock
  \/ RejectWriteToR10 \/ RejectUninitRead \/ RejectStackOffset \/ CheckInsn
  \/ Propagate \/ EndSweep \/ Converged
  \/ RejectBlock \/ NoExitInstruction \/ Accept

Spec == Init /\ [][Next]_vvars

----------------------------------------------------------------------------
(* Properties.                                                             *)

Phases == {"cfg", "while", "blocks", "insns", "propagate", "exits", "done"}

(* The shape of the state: sweep cursors stay inside the program, and a    *)
(* cursor that is in use is at an instruction of a real block.             *)
TypeOK ==
  /\ prog \in Seq(Insn)
  /\ phase \in Phases
  /\ result \in [verdict : Errors \cup {"Pending", "Ok"}, pc : Nat, reg : Regs \cup {Imm}]
  /\ starts \subseteq Pcs(prog) /\ reachable \subseteq starts
  /\ regIn \in [Pcs(prog) -> SUBSET Regs] /\ regs \in SUBSET Regs
  /\ seen \in [Pcs(prog) -> SUBSET Regs] /\ checked \subseteq Pcs(prog)
  /\ changed \in BOOLEAN /\ iterations \in Nat
  /\ phase # "done" => iterations <= MAX_BACK_EDGE_TRAVERSALS
  /\ phase # "cfg" => prog # <<>> \/ phase = "done"
  /\ phase = "blocks" => bb \in starts \cup {N}
  /\ phase \in {"insns", "propagate"} => bb \in reachable /\ pc \in Pcs(prog)
  /\ bb \in Nat /\ pc \in Nat

(* Once a block is reachable its entry state only loses registers, and a   *)
(* reachable block stays reachable: the descent that makes the fixed point *)
(* of dataflow_analysis exist.                                             *)
StatesOnlyShrink ==
  [][phase # "cfg" =>
       /\ reachable \subseteq reachable'
       /\ \A b \in reachable : regIn'[b] \subseteq regIn[b]]_vvars

(* How often the analysis sweeps is set by the branches that lead back: a  *)
(* sweep carries a fact over every forward edge, and over one backward     *)
(* edge at most.  On a path that repeats no state of a register a backward *)
(* branch occurs at most twice, with the register Init and with it Uninit; *)
(* one sweep more starts from the entry, and the last one changes nothing. *)
BackwardBranches == {p \in Pcs(prog) : IsBranch(At(prog, p)) /\ At(prog, p).off < 0}
SweepBound       == 2 * Cardinality(BackwardBranches) + 2
SweepsFollowBackwardBranches == iterations <= SweepBound

(***************************************************************************)
(* The inductive invariant.  CfgInv and CursorInv are bookkeeping; the     *)
(* argument is QuietSweepIsConsistent: as long as a sweep has changed      *)
(* nothing, the instructions it has checked agree with one another, so the *)
(* sweep that ends the loop leaves a solution closed under control flow.   *)
(***************************************************************************)
Analysing == phase \in {"while", "blocks", "insns", "propagate", "exits"} \/ result.verdict = "Ok"

CfgInv ==
  /\ Analysing => starts # {}
  /\ result.verdict = "Ok" => phase = "done"
  /\ starts # {} => /\ prog # <<>> /\ BadBranches = {}
                    /\ starts = BbStarts
                    /\ 0 \in reachable /\ regIn[0] \subseteq EntryRegs

CursorInv ==
  /\ phase = "insns" => bb <= pc /\ pc < BlockEnd(bb) /\ \A p \in checked : p < pc
  /\ phase = "propagate" => bb <= pc /\ pc + 1 = BlockEnd(bb) /\ \A p \in checked : p <= pc
  /\ phase = "blocks" => \A p \in checked : p < bb
  /\ phase = "while" /\ ~ changed => bb = N
  /\ phase = "exits" \/ result.verdict = "Ok" => bb = N /\ ~ changed

(* The state before p by which this sweep checks, or has checked, p.       *)
In(p) == IF p \in starts THEN regIn[p] ELSE seen[p]

(* State s, handed to instruction q, is what q was or will be checked by,  *)
(* or something that promises more.                                        *)
HandedTo(q, s) ==
  IF q \in starts THEN q \in reachable /\ regIn[q] \subseteq s
                  ELSE q \in checked /\ seen[q] \subseteq s

Settled(p) ==
  /\ Passes(At(prog, p), In(p))
  /\ \A q \in ExecSuccessors(prog, p) \cap Pcs(prog) : HandedTo(q, Post(At(prog, p), In(p)))

(* The instruction just checked, whose outcome only `regs` holds.          *)
InFlight == IF phase = "propagate" THEN {pc}
            ELSE IF phase = "insns" /\ pc # bb THEN {pc - 1} ELSE {}

(* A sweep that has changed nothing so far has checked every reachable     *)
(* block before its cursor, and all it checked is settled.                 *)
QuietSweepIsConsistent ==
  Analysing /\ ~ changed =>
    /\ \A b \in reachable : b < bb => b \in checked
    /\ \A p \in checked \ InFlight : Settled(p)
    /\ \A p \in InFlight :
         /\ p \in checked /\ bb \in checked
         /\ Passes(At(prog, p), In(p)) /\ regs = Post(At(prog, p), In(p))
    /\ phase = "insns" /\ pc = bb => regs = regIn[bb]
============================================================================

---------------------------- MODULE VerifiedRun ----------------------------
(***************************************************************************)
(* What the verifier promises the stages after it: compile() runs          *)
(* verify_program and goes on to lower and emit the program only when it   *)
(* returns Ok (crates/jit-engine/src/lib.rs), and the program is then      *)
(* executed.  Execution follows the reference interpreter's step for       *)
(* control; the values are abstracted to which registers hold a defined    *)
(* one, and the outcome of a comparison is left open.                      *)
(***************************************************************************)
EXTENDS Verifier

VARIABLES
  status,      \* "idle" until the program is accepted, "running", "halted",
               \* or "left": control is outside the program
  epc,         \* the index of the instruction about to execute
  live         \* the registers that hold a value someone put there

evars   == <<status, epc, live>>
allvars == <<vvars, evars>>

(* The registers an instruction names as operands, and those it uses       *)
(* without naming them: what an exit returns, what a compare-exchange      *)
(* compares with, the arguments of a helper (verify.rs:330).               *)
Operands(i) ==
  (CASE i.kind \in {"mov", "load"}           -> {i.src}
     [] i.kind \in {"alu", "jcond", "storereg", "atomic", "cmpxchg"} -> {i.dst, i.src}
     [] i.kind \in {"storeimm", "endian"}    -> {i.dst}
     [] OTHER                                -> {}) \ {Imm}
Implicit(i) ==
  IF i.kind \in {"exit", "cmpxchg"} THEN {R0} ELSE IF i.kind = "call" THEN ArgRegs ELSE {}

(* The registers an instruction leaves with a defined value, and those it  *)
(* loses: the arguments live in caller-saved machine registers.            *)
Defines(i) ==
  IF i.kind \in {"mov", "alu", "load", "ldimm", "endian"} THEN {i.dst}
  ELSE IF i.kind = "call" THEN {R0} ELSE {}
Clobbers(i) == IF i.kind = "call" THEN ArgRegs ELSE {}

\* Faulty: the verdict is not looked at.
StartRunUnverified ==
  /\ phase = "done" /\ status = "idle"
  /\ status' = "running" /\ epc' = 0 /\ live' = EntryRegs
  /\ UNCHANGED vvars
StartRun ==
  /\ phase = "done" /\ result.verdict = "Ok" /\ status = "idle"
  /\ status' = "running"
  /\ epc' = 0
  /\ live' = EntryRegs
  /\ UNCHANGED vvars

(* One instruction executes and control stays in the program.              *)
Step ==
  /\ status = "running"
  /\ \E q \in ExecSuccessors(prog, epc) : q \in Pcs(prog) /\ epc' = q
  /\ live' = (live \ Clobbers(At(prog, epc))) \cup Defines(At(prog, epc))
  /\ UNCHANGED <<vvars, status>>

(* Exit, or a tail call, which does not return.                            *)
Halt ==
  /\ status = "running" /\ ExecSuccessors(prog, epc) = {}
  /\ status' = "halted"
  /\ UNCHANGED <<vvars, epc, live>>

(* Control moves to an index outside the program.  The interpreter stops   *)
(* there; emitted code runs on into whatever follows it.                   *)
Leave ==
  /\ status = "running"
  /\ \E q \in ExecSuccessors(prog, epc) : q \notin Pcs(prog)
  /\ status' = "left"
  /\ UNCHANGED <<vvars, epc, live>>

Verify == Next /\ UNCHANGED evars

RunInit == Init /\ status = "idle" /\ epc = 0 /\ live = {}
RunNext == Verify \/ StartRun \/ Step \/ Halt \/ Leave

RunSpec     == RunInit /\ [][RunNext]_allvars
FairRunSpec == RunSpec /\ WF_allvars(RunNext)

----------------------------------------------------------------------------
(* Properties.                                                             *)

Current == At(prog, epc)

RunTypeOK ==
  /\ status \in {"idle", "running", "halted", "left"}
  /\ epc \in Nat /\ live \subseteq Regs
  /\ status # "idle" => epc \in Pcs(prog)

(* On no path of an accepted program does an instruction name as an        *)
(* operand, or an exit return, a register nobody defined (verify.rs:6).    *)
(* What calls and compare-exchanges use unnamed is not part of this: run   *)
(* HelperArguments.                                                        *)
OperandsDefined ==
  status = "running" =>
    /\ Operands(Current) \subseteq live
    /\ Current.kind = "exit" => Implicit(Current) \subseteq live

(* R10 holds the frame pointer throughout, so that every access based on   *)
(* it begins inside the frame.                                             *)
FrameAccessesBeginInFrame ==
  status = "running" =>
    /\ R10 \notin Defines(Current)
    /\ IsMemAccess(Current) /\ MemBase(Current) = R10 =>
         Current.off \in -STACK_SIZE .. -1

(* Control leaves an accepted program in one way only: past the final      *)
(* instruction, when that is a conditional branch that is not taken.       *)
LeavesOnlyPastFinalBranch ==
  status = "left" => epc = N - 1 /\ Current.kind = "jcond"

----------------------------------------------------------------------------
(* What the repository says of accepted programs, and they do not satisfy. *)

(* verify.rs:112, "check that all paths reach an exit": control never      *)
(* leaves the program.                                                     *)
ControlStaysInProgram == status # "left"

(* verify.rs:10, "Programs must terminate".                                *)
AcceptedProgramsTerminate == (status = "running") ~> (status # "running")

(* verify.rs:6, "No reads from uninitialized registers", and verify.rs:330, *)
(* "Helpers expect R1-R5 as arguments (caller must init)": every register  *)
(* an instruction uses, named or not, has a value: a helper's arguments    *)
(* and the R0 a compare-exchange compares with, too.                       *)
UsedRegistersDefined ==
  status = "running" => Operands(Current) \cup Implicit(Current) \subseteq live

============================================================================

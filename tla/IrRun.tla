------------------------------- MODULE IrRun -------------------------------
(***************************************************************************)
(* The execution of a lowered program, node by node, as the emitters lay   *)
(* it out: blocks one after the other, a branch going to the label that    *)
(* emit_program puts before the block it names (crates/jit-ir/src/lib.rs). *)
(* A node means here what the instruction it is from means: the IR gives a *)
(* call no registers but a helper's number, and the machine registers      *)
(* stand for the eBPF registers they are the map's images of.  What the    *)
(* code emitted for a node does to the machine is CallFrame's subject.     *)
(***************************************************************************)
EXTENDS Lowering

CONSTANT MAX_FRAMES              \* bound: frames the machine stack has room for

ASSUME FramesAssumption == MAX_FRAMES \in Nat \ {0}

VARIABLES
  irs,         \* "idle", "running", "halted" (returned), or "left"
  blk, idx,    \* the block and, within it, the node about to execute
  defined,     \* the images of the eBPF registers that have a value
  depth        \* prologues executed less epilogues executed

mvars   == <<irs, blk, idx, defined, depth>>
irvars  == <<vvars, lvars, mvars>>

NodeAt(k, n) == blocks[k].nodes[n]
Here         == NodeAt(blk, idx)

(* The node laid out after this one; past the last block there is none.    *)
Following == IF idx < Len(blocks[blk].nodes) THEN <<blk, idx + 1>> ELSE <<blk + 1, 1>>
LabelOf(t) == CHOOSE k \in DOMAIN blocks : blocks[k].id = t

(* The eBPF registers a node gives a value to and takes one from, as their *)
(* images: "R0 is return value. R1-R5 are clobbered" (verify.rs:331) of a  *)
(* call, whatever registers the code of a target leaves the result in.     *)
IrDefines(x) ==
  IF x.op \in {"mov", "alu", "load", "ldimm", "endian"} THEN {x.dst}
  ELSE IF x.op = "call" THEN {Phys(R0)} ELSE {}
IrClobbers(x) == IF x.op = "call" THEN {Phys(r) : r \in ArgRegs} ELSE {}

(* The registers a node names as operands, and R0's, which a return hands  *)
(* over.  The registers an emitter puts in unnamed are not among them: the *)
(* address and the arguments of a helper, and what a compare-exchange      *)
(* compares with.                                                          *)
NodeOperands(x) ==
  (CASE x.op \in {"mov", "load"}                        -> {x.src}
     [] x.op \in {"alu", "branch", "store", "atomic"}   -> {x.dst, x.src}
     [] x.op \in {"storeimm", "endian"}                 -> {x.dst}
     [] x.op = "ret"                                    -> {Phys(R0)}
     [] OTHER                                           -> {}) \ {NoReg}

GoTo(k, n) ==
  IF k \in DOMAIN blocks THEN blk' = k /\ idx' = n /\ UNCHANGED irs
                         ELSE irs' = "left" /\ UNCHANGED <<blk, idx>>

StartIr ==
  /\ stage = "lowered" /\ irs = "idle"
  /\ irs' = "running" /\ blk' = 1 /\ idx' = 1
  /\ defined' = {Phys(r) : r \in EntryRegs}
  /\ UNCHANGED <<vvars, lvars, depth>>

Straight ==
  /\ irs = "running" /\ Here.op \notin {"branch", "jump", "ret", "prologue", "epilogue"}
  /\ GoTo(Following[1], Following[2])
  /\ defined' = IF irs' = "left" THEN defined
                ELSE (defined \ IrClobbers(Here)) \cup IrDefines(Here)
  /\ UNCHANGED <<vvars, lvars, depth>>

BranchNotTaken ==
  /\ irs = "running" /\ Here.op = "branch"
  /\ GoTo(Following[1], Following[2])
  /\ UNCHANGED <<vvars, lvars, defined, depth>>

BranchTaken ==
  /\ irs = "running" /\ Here.op \in {"branch", "jump"}
  /\ GoTo(LabelOf(Here.target), 1)
  /\ UNCHANGED <<vvars, lvars, defined, depth>>

PushFrame ==
  /\ irs = "running" /\ Here.op = "prologue"
  /\ depth < MAX_FRAMES
  /\ GoTo(Following[1], Following[2])
  /\ depth' = depth + 1
  /\ UNCHANGED <<vvars, lvars, defined>>

PopFrame ==
  /\ irs = "running" /\ Here.op = "epilogue"
  /\ GoTo(Following[1], Following[2])
  /\ depth' = depth - 1
  /\ UNCHANGED <<vvars, lvars, defined>>

Ret ==
  /\ irs = "running" /\ Here.op = "ret"
  /\ irs' = "halted"
  /\ UNCHANGED <<vvars, lvars, blk, idx, defined, depth>>

IrInit == LowerInit /\ irs = "idle" /\ blk = 1 /\ idx = 1 /\ defined = {} /\ depth = 0
IrNext ==
  \/ LowerNext /\ UNCHANGED mvars
  \/ StartIr \/ Straight \/ BranchNotTaken \/ BranchTaken \/ PushFrame \/ PopFrame \/ Ret

IrSpec == IrInit /\ [][IrNext]_irvars

----------------------------------------------------------------------------
(* Properties.                                                             *)

(* Seen through the register map and the nodes' origins, a run of the      *)
(* lowered program is a run of the verified eBPF program: it defines and   *)
(* loses the same registers, branches to the same instructions, returns    *)
(* where the program exits and leaves the code only where it would leave   *)
(* the program.  Prologues and epilogues are not seen.                     *)
Source ==
  INSTANCE VerifiedRun WITH
    status <- irs,
    epc    <- IF irs = "idle" THEN 0 ELSE Here.pc,
    live   <- {r \in Regs : Phys(r) \in defined}
ImplementsVerifiedRun == Source!RunSpec

(* In a program that does not branch to its first instruction, the body    *)
(* runs in exactly one frame if the program has one, and the frame is gone *)
(* when it returns.                                                        *)
EntryIsNotATarget == \A p \in Pcs(prog) : IsBranch(At(prog, p)) => Target(prog, p) # 0
BodyRunsInOneFrame ==
  irs \in {"running", "halted"} /\ EntryIsNotATarget =>
    depth = IF frameSize > 0 /\ Here.op \notin {"prologue", "ret"} THEN 1 ELSE 0

(* jit-ir/src/lib.rs:109, "tear down JIT stack frame (before Ret)": no     *)
(* frame is left when the program returns.                                 *)
ReturnsWithoutFrame == irs = "halted" => depth = 0
============================================================================

----------------------------- MODULE Lowering ------------------------------
(***************************************************************************)
(* lower_to_ir (crates/jit-regalloc/src/lib.rs), as compile() runs it on   *)
(* an accepted program: one step finds the leaders and sizes the frame,    *)
(* one step lowers each instruction, and one flushes the last block.       *)
(*                                                                         *)
(* An IR node is a record [op, dst, src, target, pc] over physical         *)
(* registers; op names the IrNode variant, target is a BasicBlockId.  The  *)
(* offset, width and operator are copied from the instruction, so they are *)
(* not repeated.  The field pc is history: the instruction a node is from. *)
(***************************************************************************)
EXTENDS Verifier, RegMaps

CONSTANT RegMap                  \* RegMap::map: the machine register of each eBPF register

(* No two eBPF registers share a machine register.                         *)
ASSUME RegMapAssumption ==
  /\ RegMap \in [Regs -> Nat]
  /\ \A r, s \in Regs : RegMap[r] = RegMap[s] => r = s

(* decode_program has no opcode for a tail call.                           *)
ASSUME DecodedAssumption == \A p \in Programs : TailCallFree(p)

VARIABLES
  stage,       \* "waiting" for a verdict, "lowering", "lowered"
  leaders,     \* is_leader
  frameSize,   \* frame_size
  lpc,         \* the instruction the emission loop is at
  blocks,      \* the finished blocks, each [id, nodes]
  current,     \* current_nodes
  bbId         \* bb_id

lvars == <<stage, leaders, frameSize, lpc, blocks, current, bbId>>

----------------------------------------------------------------------------
(* Leaders and block ids.                                                  *)

EndsLoweredBlock(i) == i.kind \in {"ja", "jcond", "exit", "tailcall"}
\* Faulty: the instruction after a branch does not begin a block.
LeadersNotAfterBranch ==
  {0} \cup ({Target(prog, p) : p \in {q \in Pcs(prog) : IsBranch(At(prog, q))}} \cap Pcs(prog))
      \cup {p + 1 : p \in {q \in Pcs(prog) : At(prog, q).kind = "exit" /\ q + 1 < N}}
Leaders ==
  {0} \cup ({Target(prog, p) : p \in {q \in Pcs(prog) : IsBranch(At(prog, q))}} \cap Pcs(prog))
      \cup {p + 1 : p \in {q \in Pcs(prog) : EndsLoweredBlock(At(prog, q)) /\ q + 1 < N}}

\* Faulty: blocks are numbered from one.
PcToBbFromOne(p) == Cardinality({l \in leaders : l <= p})
PcToBb(p) == Cardinality({l \in leaders : l <= p}) - 1

(* The frame: deep enough for every access through R10, at least 64 bytes  *)
(* if anything has to be saved, and a multiple of 16.                      *)
CALLEE_SAVED == 6 .. 9
FrameAccess(i) == IsMemAccess(i) /\ MemBase(i) = R10
NeedsFrame(i)  ==
  FrameAccess(i) \/ (WritesDst(i) /\ i.dst \in CALLEE_SAVED) \/ i.kind \in {"call", "tailcall"}

U16 == 256 * 256                \* the values of a u16

(* There is room in the eBPF frame for the least frame the lowering gives  *)
(* out, and an offset into it, rounded up, fits a u16; the code's frame is *)
(* 512 bytes.                                                              *)
ASSUME FrameAssumption == STACK_SIZE \in 64 .. U16 - 16

Deepest(needs) == CHOOSE n \in needs : \A m \in needs : m <= n
\* Faulty: rounds down to a multiple of 16.
AlignedDown(n) == (n \div 16) * 16
Aligned(n) == ((n + 15) \div 16) * 16
FrameSize ==
  LET insns   == {At(prog, p) : p \in Pcs(prog)}
      deepest == Deepest({0} \cup {(-i.off) % U16 : i \in {j \in insns : FrameAccess(j)}})
  IN  Aligned(IF deepest < 64 /\ \E i \in insns : NeedsFrame(i) THEN 64 ELSE deepest)

----------------------------------------------------------------------------
(* The nodes an instruction becomes.                                       *)

NoReg   == -1
Phys(r) == IF r \in Regs THEN RegMap[r] ELSE NoReg
Node(op, d, s, t, p) == [op |-> op, dst |-> d, src |-> s, target |-> t, pc |-> p]
Bare(op, p)  == Node(op, NoReg, NoReg, 0, p)

IrOp(k) ==
  IF k \in {"mov", "alu"} THEN k ELSE IF k = "storereg" THEN "store"
  ELSE IF k = "cmpxchg" THEN "atomic" ELSE IF k = "jcond" THEN "branch"
  ELSE IF k = "ja" THEN "jump" ELSE k

Translated(i, p) ==
  Node(IrOp(i.kind), Phys(i.dst), Phys(i.src),
       IF IsBranch(i) THEN PcToBb(Target(prog, p)) ELSE 0, p)

\* Faulty: no epilogue before the return.
ExitNodesBare(p) == <<Bare("ret", p)>>
ExitNodes(p) ==
  IF frameSize > 0 THEN <<Bare("epilogue", p), Bare("ret", p)>> ELSE <<Bare("ret", p)>>

Lowered(p) ==
  LET i == At(prog, p) IN
  IF i.kind = "exit" THEN ExitNodes(p)
  ELSE IF i.kind = "tailcall" THEN <<Bare("call", p), Bare("ret", p)>>
  ELSE <<Translated(i, p)>>

(* Only the first block gets a prologue, before its first instruction.     *)
PrologueAt(p) == IF p = 0 /\ frameSize > 0 THEN <<Bare("prologue", p)>> ELSE <<>>
NewNodes(p)   == PrologueAt(p) \o Lowered(p)

FindLeaders ==
  /\ phase = "done" /\ result.verdict = "Ok" /\ stage = "waiting"
  /\ stage' = "lowering"
  /\ leaders' = Leaders
  /\ frameSize' = FrameSize
  /\ UNCHANGED <<vvars, lpc, blocks, current, bbId>>

\* Faulty: the last node of the block before it is lost.
LowerLeaderDropsNode ==
  /\ stage = "lowering" /\ lpc < N /\ lpc \in leaders /\ Len(current) > 1
  /\ blocks' = Append(blocks, [id |-> bbId, nodes |-> SubSeq(current, 1, Len(current) - 1)])
  /\ bbId' = bbId + 1
  /\ current' = NewNodes(lpc)
  /\ lpc' = lpc + 1
  /\ UNCHANGED <<vvars, stage, leaders, frameSize>>

\* Faulty: the block id stays.
LowerLeaderKeepsId ==
  /\ stage = "lowering" /\ lpc < N /\ lpc \in leaders /\ current # <<>>
  /\ blocks' = Append(blocks, [id |-> bbId, nodes |-> current])
  /\ current' = NewNodes(lpc)
  /\ lpc' = lpc + 1
  /\ UNCHANGED <<vvars, stage, leaders, frameSize, bbId>>

(* A leader closes the block before it.                                    *)
LowerLeader ==
  /\ stage = "lowering" /\ lpc < N /\ lpc \in leaders /\ current # <<>>
  /\ blocks' = Append(blocks, [id |-> bbId, nodes |-> current])
  /\ bbId' = bbId + 1
  /\ current' = NewNodes(lpc)
  /\ lpc' = lpc + 1
  /\ UNCHANGED <<vvars, stage, leaders, frameSize>>

LowerInBlock ==
  /\ stage = "lowering" /\ lpc < N /\ (lpc \notin leaders \/ current = <<>>)
  /\ current' = current \o NewNodes(lpc)
  /\ lpc' = lpc + 1
  /\ UNCHANGED <<vvars, stage, leaders, frameSize, blocks, bbId>>

Flush ==
  /\ stage = "lowering" /\ lpc = N
  /\ stage' = "lowered"
  /\ blocks' = IF current = <<>> THEN blocks
               ELSE Append(blocks, [id |-> bbId, nodes |-> current])
  /\ current' = <<>>
  /\ UNCHANGED <<vvars, leaders, frameSize, lpc, bbId>>

LowerInit ==
  /\ Init /\ stage = "waiting" /\ leaders = {} /\ frameSize = 0
  /\ lpc = 0 /\ blocks = <<>> /\ current = <<>> /\ bbId = 0
LowerNext ==
  (Next /\ UNCHANGED lvars) \/ FindLeaders \/ LowerLeader \/ LowerInBlock \/ Flush

LowerSpec == LowerInit /\ [][LowerNext]_<<vvars, lvars>>

----------------------------------------------------------------------------
(* Properties.                                                             *)

IrOps == {"mov", "alu", "load", "store", "storeimm", "ldimm", "branch", "jump",
          "call", "ret", "atomic", "endian", "prologue", "epilogue"}
IrNodes == [op : IrOps, dst : Nat \cup {NoReg}, src : Nat \cup {NoReg},
            target : Nat, pc : Pcs(prog)]

(* The blocks are numbered by their position while they are built, and     *)
(* none is empty.                                                          *)
LoweringTypeOK ==
  /\ stage \in {"waiting", "lowering", "lowered"}
  /\ leaders \subseteq Pcs(prog) /\ frameSize \in Nat
  /\ lpc \in 0 .. N /\ bbId \in Nat
  /\ current \in Seq(IrNodes)
  /\ blocks \in Seq([id : Nat, nodes : Seq(IrNodes) \ {<<>>}])
  /\ \A k \in DOMAIN blocks : blocks[k].id = k - 1

(* Every branch of the lowered program names a block, and that block       *)
(* begins with the instruction the eBPF branch goes to: the ids handed out *)
(* in advance by pc_to_bb and those given while emitting are the same.     *)
BranchesReachTheirTarget ==
  stage = "lowered" =>
    \A k \in DOMAIN blocks : \A n \in DOMAIN blocks[k].nodes :
      LET x == blocks[k].nodes[n] IN
      x.op \in {"branch", "jump"} =>
        /\ x.target + 1 \in DOMAIN blocks
        /\ blocks[x.target + 1].id = x.target
        /\ blocks[x.target + 1].nodes[1].pc = Target(prog, x.pc)

(* verify_program's result, which compile() returns as num_blocks beside   *)
(* the IR, is the number of blocks of that IR: two analyses, written       *)
(* separately, divide the program alike.                                   *)
BlockCountsAgree == stage = "lowered" => Len(blocks) = Cardinality(starts)

(* The frame, laid below the frame pointer, holds the first byte of every  *)
(* access an accepted program makes through R10; it is aligned, no larger  *)
(* than the eBPF stack needs, and there whenever a callee-saved register   *)
(* is written or a helper called.  The other bytes of an access may lie    *)
(* past its end (run FrameAccess), and in it where the prologue saves      *)
(* registers: no room is added for those.                                  *)
AccessesBeginInFrame ==
  stage = "lowered" =>
    /\ \A p \in Pcs(prog) :
         /\ FrameAccess(At(prog, p)) => At(prog, p).off + frameSize \in 0 .. frameSize - 1
         /\ NeedsFrame(At(prog, p)) => frameSize >= 64
    /\ frameSize % 16 = 0 /\ frameSize <= Aligned(STACK_SIZE)
============================================================================

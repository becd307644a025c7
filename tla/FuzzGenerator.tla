--------------------------- MODULE FuzzGenerator ---------------------------
(***************************************************************************)
(* generate_program and the compilation in fuzz_one (fuzz/src/lib.rs), in  *)
(* front of the decoder and the verifier: a program comes from a client or *)
(* is generated, step by step, then both are treated alike.                *)
(*                                                                         *)
(* The random generator is a choice of any value of the range asked for.   *)
(* Operators of one arm and the immediates are data: one of each stands    *)
(* for all, since neither decoder nor verifier tells them apart.           *)
(***************************************************************************)
EXTENDS Decoder

CONSTANTS
  max_insns,                    \* the size asked for
  InitRegs,                     \* init_regs: R2 to R9
  DstRegs                       \* the registers range(0, 5) chooses from

ASSUME GeneratorAssumption ==
  max_insns \in Nat /\ InitRegs \subseteq 2 .. 9 /\ DstRegs \subseteq 0 .. 4
(* No program asked for is too large: the callers ask for 10 and 20 slots  *)
(* (fuzz/src/lib.rs:236), and MAX_INSNS is a million.                      *)
ASSUME SizeAssumption ==
  max_insns <= MAX_INSNS /\ Cardinality(InitRegs) + 3 <= MAX_INSNS
(* The analysis is given the two sweeps that settle a program without      *)
(* backward branches; verify.rs:20 gives it 32.                            *)
ASSUME SweepsAssumption == MAX_BACK_EDGE_TRAVERSALS >= 2

VARIABLES
  n,           \* `n`, the size drawn
  header       \* slots before the loop: the initialisations

gvars == <<n, header>>

make_raw(opcode, dst, src, off) ==
  [opcode |-> opcode, dst |-> dst, src |-> src, off |-> off, imm |-> 0]
MovImm(r)      == make_raw(BPF_ALU64 + BPF_MOV, r, 0, 0)
AluImm(c, r)   == make_raw(c, r, 0, 0)
AluReg(d, s)   == make_raw(BPF_ALU64 + 8, d, s, 0)
JumpIf(r, off) == make_raw(BPF_JMP + 16, r, 0, off)
ExitSlot       == make_raw(BPF_JMP + BPF_EXIT, 0, 0, 0)

Monus(a, b) == IF a > b THEN a - b ELSE 0

(* R0, R1 and any of the others, in ascending order.                       *)
DrawHeader ==
  /\ dstage = "generating" /\ raw = <<>>
  /\ \E k \in 0 .. Monus(max_insns, 3) : n' = 2 + k
  /\ \E S \in SUBSET InitRegs : \E order \in [1 .. Cardinality(S) -> S] :
       /\ \A i, j \in DOMAIN order : i < j => order[i] < order[j]
       /\ raw' = [k \in 1 .. 2 + Cardinality(S) |->
                    MovImm(IF k <= 2 THEN k - 1 ELSE order[k - 2])]
  /\ header' = Len(raw')
  /\ UNCHANGED <<vvars, dstage, dpc, insns, decodeError>>

remaining == Monus(Monus(n, header), 1)
Loop      == dstage = "generating" /\ raw # <<>> /\ Len(raw) < header + remaining
space_left == remaining - (Len(raw) - header)

Push(r) == raw' = Append(raw, r) /\ UNCHANGED <<vvars, dstage, dpc, insns, decodeError, gvars>>

PushArithmetic ==
  /\ Loop
  /\ \E d, s \in DstRegs :
       \E r \in {AluImm(BPF_ALU64, d), AluImm(BPF_ALU, d), AluReg(d, s), MovImm(d)} : Push(r)

\* Faulty: the branch may also reach past the end.
OffsetsTooLong == 1 .. 5
BranchOffsets == 1 .. (IF space_left - 1 < 5 THEN space_left - 1 ELSE 5) - 1
PushBranch ==
  /\ Loop /\ space_left > 2
  /\ \E d \in DstRegs, off \in BranchOffsets : Push(JumpIf(d, off))

(* No room for a branch: a move to R0 instead.                             *)
PushMov == Loop /\ space_left <= 2 /\ Push(MovImm(R0))

PushExit ==
  /\ dstage = "generating" /\ raw # <<>> /\ Len(raw) >= header + remaining
  /\ raw' = Append(raw, ExitSlot)
  /\ dstage' = "decoding"
  /\ UNCHANGED <<vvars, dpc, insns, decodeError, gvars>>

(* The program is a client's, or yet to be generated.                      *)
PipelineInit ==
  /\ IdleVerifier /\ n = 0 /\ header = 0
  /\ dpc = 0 /\ insns = <<>> /\ decodeError = [error |-> "none", pc |-> 0]
  /\ \/ raw \in RawPrograms /\ dstage = "decoding"
     \/ raw = <<>> /\ dstage = "generating"
GenerateNext == DrawHeader \/ PushArithmetic \/ PushBranch \/ PushMov \/ PushExit
PipelineNext ==
  \/ GenerateNext
  \/ DecodeNext /\ UNCHANGED gvars
  \/ VerifyDecoded /\ UNCHANGED gvars

PipelineVars == <<vvars, dvars, gvars>>
PipelineSpec == PipelineInit /\ [][PipelineNext]_PipelineVars /\ WF_PipelineVars(PipelineNext)

----------------------------------------------------------------------------
(* Properties.                                                             *)

Generated == n > 0
Judged    == dstage = "rejected" \/ phase = "done"
Initialised == {raw[k].dst : k \in 1 .. header}

(* fuzz/src/lib.rs:191 counts a program that does not compile and goes on. *)
(* The only such programs are those that read one of R2 to R4 without      *)
(* having drawn its initialisation: they always decode, no branch leaves   *)
(* them, no block is unreachable, and the sweeps settle.                   *)
GeneratedRejectedOnlyForUninit ==
  Generated /\ Judged =>
    /\ dstage = "decoded"
    /\ \/ result.verdict = "Ok"
       \/ result.verdict = "UninitializedRegRead" /\ result.reg \in (2 .. 4) \ Initialised

(* compile() comes to an end on every input: every program, generated or   *)
(* not, is refused by the decoder or gets a verdict.                       *)
EveryProgramIsJudged == <>Judged
============================================================================

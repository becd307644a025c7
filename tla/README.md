# Verification project for NVMirror

NVMirror compiles eBPF programs to machine code for NVMe controllers:
decode -> verify -> lower -> emit -> run from an executable buffer. This
directory holds TLA+ models of that pipeline, the TLC configurations that check
them, and proofs that TLAPS checks. `PROJECT.json` maps every definition to the
lines it models.

## 1. Inventory

| component | source | state | operations |
|---|---|---|---|
| instruction set | `crates/ebpf-core/src/isa.rs` | none | `Insn`, `BpfReg`, `MemWidth` |
| decoder | `crates/ebpf-core/src/decode.rs` | position in the raw slots, output | `decode_program`, one arm per class |
| verifier | `crates/ebpf-core/src/verify.rs` | block starts, successors, per block `reg_state_in` and `reachable`, the sweep's `changed` and `iterations` | `find_bb_starts`, `build_cfg`, `dataflow_analysis`, `check_exit_reachability` |
| lowering | `crates/jit-regalloc/src/lib.rs` | leaders, `pc_to_bb`, `frame_size`, finished blocks, the current block | `lower_to_ir`, `RegMap` |
| IR | `crates/jit-ir/src/lib.rs` | none (data types) | `CodeEmitter::emit_program` |
| emitters | `crates/jit-aarch64`, `crates/jit-riscv` | code buffer, label offsets, relocations | `emit_node`, `finalize`, `calculate_size` |
| engine | `crates/jit-engine/src/lib.rs` | none | `compile`, `compile_sized` |
| reference interpreter | same file, `mod interpreter` | registers, stack, pc, halted | `step`, `run` |
| executable buffer | `crates/nvme-shim/src/lib.rs` | mapping, length, write protection | `new`, `write_code`, `as_fn_ptr`, drop |
| helper table | same file | 256 entries | `register`, `resolve` |
| fuzzer | `fuzz/src/lib.rs` | generator state | `generate_program`, `fuzz_one` |
| tools | `tools/` | none | printing |

**Interaction.** `compile()` runs the stages one after the other, each on the
previous one's value; an error of any stage ends it. There are no threads,
messages or callbacks in the compiler. What makes the code hard is therefore
not interleaving but (a) the verifier's fixed point, whose
meaning depends on the order in which sweeps visit and weaken blocks, (b) the
agreement of analyses written twice (blocks in verifier and lowering, ids handed
out before and during emission, sizes computed and emitted), (c) boundaries of
integers and frames, (d) the behaviour of the accepted program, which may
branch anywhere and loop, and (e) the agreement of two processors with an
interpreter. Interleaving begins with the executable buffer: `as_fn_ptr` returns
a plain function pointer that any thread may call while the owner writes.

**What makes each component correct.** Verifier: accepted implies safe to run
(no undefined register used, frame accesses in bounds, control stays inside,
termination), rejected implies a true complaint. Lowering: a run of the result is
a run of the program. Emitters: a branch lands on its label or is refused, the
dry-run size bounds the code. Call frame: every operand is in its machine
register, and what a return restores is what the prologue saved. Buffer: code is
never executed while writable. Fuzzer: what it generates is accepted. The code
has part of this; section 4 says which part, and shows what it does not have.

## 2. Plan

| step | modules | status |
|---|---|---|
| 1 | `Bpf`, `Verifier`, `VerifierReference`, `VerifierProofs` | done |
| 2 | `VerifiedRun` (verifier composed with execution), `VerifiedRunProofs` | done |
| 3 | `Lowering`, `IrRun` (lowering composed with the verifier; its runs refine `VerifiedRun`), `LoweringProofs`, `IrRunProofs` (with a proof of the refinement) | done |
| 4 | `Emitter`: labels, relocations with the immediates' limits, code sizes, the dry run; `EmitterProofs` | done |
| 5 | `CallFrame`: prologue, epilogue, helper call and return over machine registers and stack slots, both targets (with `RegMaps`); `CallFrameProofs` | done |
| 6 | `Decoder`: slots, wide loads, errors; `DecoderProofs` | done |
| 7 | `ExecBuffer`: buffer life cycle, caches, write protection; `ExecBufferProofs` | done |
| 8 | `NativeStep`: one instruction on both processors against the interpreter, at scaled width (with `Words`, `Interpreter`, `MachineCode`, `NativeEmit`) | done |
| 9 | `FuzzGenerator` in front of `Decoder` and `Verifier`, proved about in `DecoderProofs` | done |

Nothing of the plan is left. What only TLC checks, and why, is said at the end of
section 5.

## 3. Modules

**`Bpf`** is the decoded instruction set: a record with the kind, the registers,
the offset and the width, and `ExecSuccessors`, where control may go next.
ALU and comparison operators are abstracted: no property of whole programs
distinguishes them (`NativeStep` has them).
A comparison may go either way.

**`Verifier`** is `verify_program`. A basic block is named by its first
instruction (the code uses its rank; the order is the same) and a `RegFile` by
the set of its `Init` registers. Steps: `BuildCfg` (the two passes that only
read the program; their errors are `EmptyProgram` and `BranchOutOfBounds`), then
one action per sweep start, skipped block, entered block, checked instruction,
propagation, sweep end; then the exit check. Every `return Err` is an action:
`BackEdgeBudgetExceeded`, `RejectWriteToR10`, `RejectUninitRead`,
`RejectStackOffset`, `RejectBlock` (unreachable code and missing fallthrough),
`NoExitInstruction`. The code merges into the successors one after the other;
`Propagate` does it in one step, since nothing is read in between. `checked` and
`seen` are history variables: the instructions this sweep has passed, and the
state each was last checked in. No guard reads them.

**`VerifierReference`** defines, over paths and with nothing shared with the
sweeps, what the verdict should mean: `PathStates` are the pairs of an instruction
and "register r is uninitialised here" that some path reaches. The runs compare
the two, and `VerifierProofs` proves that they agree. It assumes that no program
contains a tail call, which the sweeps would fall through and a path ends at.

**`VerifiedRun`** composes the verifier with the execution of an accepted
program, as `compile()` gates it: `StartRun` needs the verdict `Ok`. Execution
follows the interpreter's `step`, with values abstracted to "somebody defined
it". Index `epc` may leave the program (`Leave`), where the interpreter stops
and emitted code runs on.

**`Lowering`** composes the verifier with `lower_to_ir`: `FindLeaders` (leaders,
`pc_to_bb`, frame size), one step per instruction (`LowerLeader` when it closes a
block, `LowerInBlock` otherwise) and `Flush`. A node carries, as history, the
instruction it comes from. The register map is a constant, any injective one;
`aarch64_regmap` and `riscv64_regmap` are the two in the code.

**`IrRun`** executes the lowered program in the order `emit_program` lays blocks
out, and counts frames pushed and popped. A node means here what its instruction
means (`IrDefines`, `IrClobbers`, on the images of the eBPF registers): the IR
gives a call no registers. What the code emitted for a node does to the machine
is the next module's subject.

**`CallFrame`** adds the machine to `IrRun`: every step of a run also changes
`mreg`, `sp` and `slots` as the instructions emitted for its node do. A value is
its origin (caller, program, helper, memory, ...), which is all that saving,
restoring and clobbering distinguish. `RegMaps` holds the register maps and scratch
registers of both targets. The target is chosen when the code is entered, so the
refinement of `VerifiedRun` is checked through `FrameSpec` as well. The
properties state four exceptions of the code, at the places that cause them:
the epilogue of a 512-byte frame wraps on AArch64, s7 is not saved on RISC-V,
after a helper call R0's register on AArch64 (X7) is not the result's (X0), and a
compare-exchange on AArch64 overwrites R1's register, which is X0. That no prologue
sets the register of R10 is run `FrameAccess`.

**`Emitter`** composes the lowering with `emit_program`, `emit_node` and
`finalize` of both targets: a step emits a label or a node, or resolves a
relocation. `StartEmission` chooses the target. Offsets count words of four
bytes, which every instruction of both targets has. `bbOffsets` and
`relocations` are the code's `bb_offsets` and `relocations`; `eb` and `en` are
the loop variables of `emit_program`, `reloc` that of `finalize`. A word is its
kind and its immediate field; which block it belongs to and which it branches
to are history, read by no guard. How many words a node expands to depends on
operators and immediates, so a step chooses among the counts the code has for
its kind of node (`WordCounts`); RISC-V's `Jset` is the extra word of
`TestWords`, and the offset of its relocation is corrected as in the code.
RISC-V emits a JAL for a conditional `Ja`, which a 32-bit branch can be, and
records it to be patched as a branch (`BranchWords`, `RelocKind`).
`Field` keeps the low bits of the distance, as the encoders mask it, and
`SignExtended` is what the processor makes of them.

**`Decoder`** is `decode_program`: one step per instruction, whose checks are a
sequence of pairs, condition and error, in the order of the arm's `?` and
`return Err`; the first that holds is reported. `insns` keeps with each
instruction the slot it began at (history). The output becomes the verifier's
program, as in `compile()`.

**`FuzzGenerator`** puts `generate_program` in front of it: header, loop body,
branch, filler and exit, each draw of the random generator an `\E` over its range.
A run of `PipelineSpec` either generates a program or starts with a client's
slots; the decoder hands the verifier its program while the run goes on, and the
verifier begins in `Unverified`, as for a program of `Programs` (`Init`). fuzz/src/lib.rs:10 says its templates "always pass the verifier"; which of
its programs do not is `GeneratedRejectedOnlyForUninit`.

**`ExecBuffer`** is the executable buffer with the threads that call it. A write
is four kinds of step, in the order of `write_code` (writable, copy a word,
invalidate, protect). Each thread has an instruction cache that may fetch any
word at any moment and keep it. `installed` and `clean` are history. Execution
knows of code only how long it is and whether it may run past its end. The
properties are about *clean* calls, those no write overlaps: the code does
nothing to keep writes and calls apart, and a call during a write finds anything.

**`NativeStep`** runs the machine code of one instruction, one machine
instruction per step, next to the interpreter's result. `NativeEmit` is the
selection of instructions (the `emit_*_node` functions), `MachineCode` the
encoders by what of an operand reaches its field, plus the processors, which are
external; `Interpreter` is `mod interpreter` for one instruction. `Words` scales:
64, 32, 16 and 8 bits become 16, 8, 4 and 2, the 12-bit immediate of arithmetic
3 bits, so that a constant still takes up to four MOVZ/MOVK, or a LUI and an
ADDI with the sign carried between them. Offsets of loads and stores keep their
real width.

The modules `MC...` hold the programs, codes and values for TLC, the modules
`...Proofs` the theorems. Operators with a comment "Faulty:" are plausible
mistakes in the definition that follows them; substituting one must break the
property it is paired with in `PROJECT.json`.

## 4. Runs

The runs of whole programs use the code's constants, a budget of 32 sweeps and
a 512-byte frame. Programs are bounded: all programs of at most four
instructions over a control-flow alphabet of eleven (forward, backward,
out-of-range jumps, calls, exits, definitions and uses), seven-instruction
programs around two-way merges in both directions, and every instruction kind at
every edge of the frame. Five to seven instructions are enough for a block
entered from before and after, a loop inside a branch, and a merge that needs a
third sweep. Deadlock is not checked: a verdict, a return or a dropped buffer
ends every behaviour.

| run | shows |
|---|---|
| `VerifiedRun` | at convergence a register is `Init` at a block exactly if every path initialises it; what an error says is true of the program, except for the budget error, which only a program with many backward branches can get, looping or not; quiet sweeps are consistent; the sweeps are at most two per backward branch and two more (`SweepsFollowBackwardBranches`); entry states only shrink. Includes chains of 1, 8, 29 and 33 backward jumps, the last one past the budget although it does not loop. In the executions of what is accepted, no undefined register is an operand or returned, frame accesses begin inside, and control leaves only past a final conditional branch |
| `IrRun` | ids, block counts and frame of the lowered program (an access begins in it); its runs are runs of the eBPF program (`ImplementsVerifiedRun`, a refinement with `status`, `epc` and `live` read off the machine); on both targets, that the machine registers of a node's operands hold the program's values (`OperandsHoldTheirValues`), what a return restores and what survives a helper call. `MAX_FRAMES = 2` bounds the frames a loop through instruction 0 pushes |
| `Emitter` | on both targets, branches land on their block (but for the JAL of a conditional `Ja`), refusals are justified, the dry run bounds the code. Every kind of node stands between a forward branch and its target and between a loop's head and its end. The ranges `ShortCond` (6 and 4 words) and `ShortJump` (8 and 7) replace the code's 2^18 and 2^25, 2^10 and 2^18, so that programs of this size reach both ends of a range and exceed it both ways; the proofs hold for every range |
| `Pipeline` | every opcode byte with good and bad fields, and branches over wide loads in both directions: the decoder's output is a program, the first fault is the one reported, branches shift by the wide loads they cross; every program the generator makes, of up to seven instructions over three drawn and three initialised registers, is accepted or reads one of R2 to R4 it did not initialise; every submission gets an answer. `MAX_INSNS = 8` replaces a million; one submission has nine slots |
| `ExecBuffer` | with two threads, pages of two words and a maximum of two pages: a clean call executes the code written last, stays inside it, and macOS's per-thread write protection never faults. Codes are empty, shorter than a page, a full page with a fall-through end, longer, and too long, so a page's tail of an older code, a write refused by a small mapping, and a run past the mapping all occur |
| `NativeStep` | for both targets, every operator, register and constant form, values at the edges of each width: exactly when arithmetic, branches and accesses of the native code are the interpreter's. The three properties are equivalences: where the two differ is said, and that they differ nowhere else |

Six runs find what the repository says and the code does not do:

| run | the claim | what happens |
|---|---|---|
| `LoopAccepted` | verify.rs:10 programs must terminate | the budget counts sweeps; a loop is accepted and repeats for ever (fairness: the machine keeps executing, weak fairness of the next step) |
| `FallOff` | verify.rs:112 all paths reach an exit | a conditional branch as the last instruction falls off the end |
| `HelperArguments` | verify.rs:6 no reads from uninitialized registers, verify.rs:330 helpers expect R1-R5, the caller must initialise them | nothing checks what an instruction uses without naming it: a call with R1 alone is accepted, and so is a compare-exchange with R0 undefined (verify.rs:349), the run's other program |
| `FrameAccess` | verify.rs:8 accesses stay within the frame; verify.rs:53 and jit-regalloc:73, :109 R10 is the frame pointer, always valid | only the first byte is checked, so a doubleword at R10 - 4 is accepted; and no prologue writes X25 or s6, so the access goes where the caller's register points |
| `EntryLoop` | jit-ir:109 the epilogue tears the frame down | a branch to instruction 0 runs the prologue again, once per iteration |
| `NativeMismatch` | fuzz lib.rs:12 JIT output matches the interpreter exactly | a little-endian conversion truncates in the interpreter and is no instruction on AArch64 |

**Fairness.** `PipelineSpec` assumes weak fairness of its next step and nothing
of single actions: generation, decoding and verification are one sequential
computation, which the operating system lets proceed. Under it
`EveryProgramIsJudged`. `LoopAccepted` assumes the same of the machine.

**Other divergences seen**, stated in properties or left out of them as noted:

* The budget (verify.rs:19) rejects a chain of 33 backward jumps without a loop:
  its error does not mean that the program loops. `SweepsFollowBackwardBranches`
  says which programs it cannot refuse.
* After a helper call on AArch64 the result is in X0 and R0's X7 holds what the
  helper left there; the MOV X0, X7 of a return copies that over the result
  (jit-aarch64:407, :413). `ValuesSurviveCalls` names it (`OtherValues`).
* A call goes through X9 or s7, registers that a helper and the emitters change and no
  node loads with a helper's address (jit-aarch64:405 says the caller has).
* Opcode 0x06 decodes to a conditional branch whose operation is `Ja`
  (decode.rs:135), and the verifier accepts it; jit-riscv:289 and jit-aarch64:519 say
  it cannot happen. RISC-V emits a JAL and patches it in the format of a branch
  (jit-riscv:476), so it jumps elsewhere and writes a register.
* Negating the least value (jit-engine:314, :332) is a plain minus: in a build
  with overflow checks, as cargo's dev and test profiles are, the interpreter
  panics where the native code wraps. `Interpreter` is the release build.
* The generator's programs do not always pass the verifier, as fuzz lib.rs:10
  says: some read a register of R2 to R4 nothing initialised
  (`GeneratedRejectedOnlyForUninit`).
* The dry run (jit-ir:150, "exact") is an upper bound: `DryRunBoundsCode`.
* AArch64: Jset is a test for inequality; And on memory is LDCLR; compare-exchange
  compares and writes X0, which holds R1; offsets of loads and stores that are
  negative or no multiple of the width reach other places
  (`BranchesMatch`, `AccessesMatch`).
* RISC-V: LUI gets its argument already shifted, so constants outside
  `RVExact` are wrong; division by zero gives all ones; W-form results are
  sign-extended; 32-bit comparisons are of 64 bits; byte swaps are missing; the
  compare-exchange loop overwrites its address (`ArithmeticMatches`,
  `BranchesMatch`, `AccessesMatch`).
* Fetching atomics and exchange leave the old contents in no register, on either
  target (jit-aarch64:316, jit-riscv:321); `AtomicMatches` is about the cell, and
  on AArch64 says that no register changes.
* The interpreter takes an atomic for a no-op (jit-engine:269); `AtomicMatches`
  therefore compares with the meaning of the operator (isa.rs, `AtomicOp`).
* The interpreter compares the zero-extended operands of 32-bit signed branches
  (jit-engine:344), the AArch64 code the signed ones.

A tail call is part of the instruction set but `decode_program` never yields
one (`DecoderOutputIsProgram`), so no set of programs contains it; `Lowering` and
`VerifierReference` assume its absence, the soundness of the verifier does not.

## 5. Proofs

For every set of programs, every budget and every frame size:

* `TypeCorrect`: the verifier's state keeps its shape.
* `SweepConsistent`: the key invariant, `QuietSweepIsConsistent`. The state the
  verifier ends in is not a solution because of any single step; it is one
  because the last sweep changed nothing. The invariant states this for the
  part of a sweep already done: as long as `changed` is false, every
  instruction checked in this sweep passed in the state recorded for it, and
  what it hands on is no less than what its successors were, or will be,
  checked with. `Propagate` either keeps it or sets `changed`. When the loop
  ends, all reachable blocks are in it.
* `EntryStatesDescend`: entry states only lose registers.
* `SweepsBounded`: a sweep goes through the program forward, so it follows every
  path up to its next step backward. `Within` counts such steps: level k has what
  a path with at most k of them leads to. `LevelsInv`: sweep k + 1 hands on what
  level k has, behind its cursor, and the sweeps before it have done so with the
  levels below. A level that is not yet all paths has taken a backward branch, in
  one of its two states, that no level before it took (`LevelsHavePaths`), so
  twice the number of backward branches is enough, and the sweep after the last
  level only sees that nothing changes (`SweepInv`).
* `SolutionIsMeet`: the least solution over paths against the result of sweeps, in
  two halves. Everything the analysis finds is witnessed by a path (`PathsInv`,
  inductive at every single step: a block is reachable only if a path enters it, a
  register has left its state only if a path brings it uninitialised). Conversely
  the converged state is closed under the steps of a path (from
  `QuietSweepIsConsistent`), and `PathStates` is the least set that is
  (`ConvergedCoversPaths`). That a bounded number of rounds reaches that set
  (`PathStatesClosed`) is a counting argument: each round before the last adds
  one of finitely many pairs. No induction theorem of the library can be
  instantiated, so the inductions are over a set of naturals
  (`NaturalsInductively`).
* `RejectionsAreJustified`: from the same invariant, with the cursor of the step
  that rejects; the clause of the budget from `SweepsBounded`.
* `VerifierSoundForOperands`, `VerifierSoundForFrame`,
  `ControlLeavesOnlyPastFinalBranch`: from the invariant, at acceptance the
  solution is closed under `ExecSuccessors`; along an execution the defined
  registers include the solution's (`RunInvariant`), so the checks made then
  hold of every instruction executed. `RunTypeCorrect` is the type invariant.

* `LoweringTypeCorrect`, `LoweredBranchesCorrect`, `BlockCountsCorrect`: block
  ids are handed out twice, by `pc_to_bb` before the emission loop and by the
  counter `bb_id` in it. The invariant of the loop (`LowerInv`) says why they
  agree: the open block began at the leader whose rank is `bb_id`, no leader
  between it and the next instruction was passed over, and every leader passed
  began a block. That a branch's target is a leader at all comes from the
  verifier's invariant, at acceptance (`AcceptedLeaders`).
* `AccessesBegin`: the frame is the maximum over all accesses through R10, rounded
  up, and a node's access is its instruction's; the verifier bounds the offset,
  so the size fits its integer. This is about the first byte of an access, the one
  both stages look at; run `FrameAccess` has an access that ends outside.
* `LoweredRunsAsVerified`: `LayoutInv` relates the position
  of a run in the lowered program to an instruction of the eBPF program: a block's
  nodes are the instructions from its leader on, in order, and after its last node
  the next block begins. `SolutionInv` is the verifier's solution at that
  instruction. Then the refinement is shown for the initial states and for every
  kind of step; the prologue, the epilogue and the lowering itself are stutters.
* `BodyHasOneFrame`: `DepthInv` says that a program none of whose branches leads to
  instruction 0 enters the block of the prologue once.
* `OperandsAreTheirs`, `RegistersSurvive`, `CallerRestored`: `MachineInv` gives the
  shape of the machine's state, `OwnedInv` that of the registers with
  a value only those of R1 and R10 can hold what the caller left there, which with
  `NodeOperandsDefined` (a node's operands have values) is the first
  theorem, `ProtectedInv` what each protected register and each stack slot of the
  prologue holds at every moment, and `RestoreInv` what the epilogue has brought
  back so far, for both targets and with the exceptions the properties name.
* `EmitterTypeCorrect`, `BranchesResolved`, `RefusalsJustified`: `EmitInv` says
  which labels are known at every moment (`Opened`), that each of them divides
  the words emitted so far into those of earlier and of later blocks
  (`LabelInv`), and that every branch word has a relocation of its offset,
  target and kind, which has patched it once resolved (`RelocationInv`). Labels
  are all known when `finalize` begins, so a refusal can only be about distance.
  `FieldKeepsDistance` is the arithmetic: masking and sign-extending an
  encodable distance gives it back. The JAL of a conditional `Ja` has its
  relocation too, but `BranchesLandOnTheirBlock` leaves it out.
* `DryRunSufficient`: every word emitted is paid for by a node emitted
  (`SizeInv`), at the ratio of the target (`ExpansionBounds`, over every count
  in the tables).

* `DecoderTypeCorrect`, `DecoderOutputIsProgram`: lemmas about one slot
  (`ErrorFacts`, `DecodedFacts`: a slot without faults becomes an instruction
  with registers R0 to R10 and is no tail call), then `DecodeInv`, that every
  instruction put out is its decoded slot (`Translated`).
* `FirstFaultIsReported`: `Heads`, the slots at which an instruction begins, is a
  recursive function of the slots; `HeadsInv` says that the cursor is at one of
  them, that those behind it are faultless, and that they are the slots recorded
  with the output.
* `WideLoadsShiftBranches`: the invariant `Spaced` counts: two instructions are
  as many slots apart as instructions, plus one for each wide load between them.
  A branch is such a pair.
* `VerdictsBehindDecoder`: the verifier's invariants again, of a program that
  arrives in the middle of a run. Together they are inductive (`JudgingInv`,
  `JudgingStep`) and hold of any program without tail calls before its first pass
  (`JudgingStart`); that the decoder hands over nothing else is
  `OutputIsProgram`. `PipelineInv` joins them with the invariants of the decoder
  and the generator. All theorems of `DecoderProofs` are about `PipelineSpec`.
* `GeneratedProgramsJudged`: why the fuzzer's programs compile. `GeneratorInv`:
  the slots are moves to R0, R1 and other registers, a body whose branches go
  forward and stay short of the exit, the exit; none is faulty, so slot p becomes
  instruction p (`GeneratedDecodesTo`). Such a program has no access and no write
  to R10, falls from every instruction to the next, and settles in two sweeps
  (it has no backward branch: `SweepInv`), so once the sweeps are over they have checked every instruction:
  no block is dead or a dead end (`GeneratedConverges`). `KnownInv` says that
  what the initialisations before an instruction define is in every state the
  analysis keeps of it; only R2 to R4 can then be missing when one is read
  (`VerdictStep`). Each of `GeneratorInv` and `KnownInv` was first checked by TLC
  with the constants of `Pipeline`.
* `CleanCallsRunTheLastCode`, `CleanCallsStayInside`, `WriteProtectionHolds`:
  `WriteProgress` says for each moment of `write_code` what has reached memory and
  what the caches may still hold; `CleanCalls` that a call which saw no write has
  none in progress; `Modes` what each thread's state is. For any number of
  threads, any codes and any page size; that a code fits its mapping is
  `RoundedUpFits`.

Assumptions: the three named ones of `Verifier` (programs are sequences of
instructions, budget and frame are positive); for the reference of the verifier
and for the lowering that no program contains a tail call, which the decoder
guarantees (`DecoderOutputIsProgram`; `VerdictsBehindDecoder` does without); for the lowering that the register map is
injective and that the frame is of 64 to 65,520 bytes
(`FrameAssumption`; it is 512, and sizes are rounded up in a `u16`); for the call frame
that it is of at most 512 bytes (`PairOffsetAssumption`: the offset of a pair has
seven bits of eight bytes); for the emitters that every branch reaches at least
one word; for the decoder that raw slots have the fields a slot has room for; for
the generator that the sizes asked for are within `MAX_INSNS` (`SizeAssumption`: the
callers ask for 10 and 20 slots of a million) and that the budget allows the two
sweeps a forward program takes (`SweepsAssumption`: it is 32); for
the buffer that the maximum is a whole number of pages and that empty code runs
past its end.

Only model-checked: the three properties
of `NativeStep`, whose words need bitwise operators, which the prover cannot use;
`EveryProgramIsJudged` and `AcceptedProgramsTerminate`, since liveness and
fairness are outside the prover's reach.

## 6. Not modelled

* The helper table is an array with a bounds check and no caller; emitted calls
  go through a register nothing loads. The firmware variant of the buffer is
  never executed.
* The disassembler tool prints; the benchmark tool's `main` is empty.
* `Spill` and `Fill` nodes, which nothing produces. Where the JAL of a conditional
  `Ja` on RISC-V goes, and what it writes: it ends a run of `NativeStep` as "wild",
  `Emitter` places and patches it and says nothing of its landing, and for `IrRun`
  and `CallFrame` it is a branch like any other.
* The bytes of the interpreter's stack, and values over runs of several
  instructions: `NativeStep` compares one instruction at a time. Atomics of four
  bytes, which both emitters make eight bytes wide, are run but not compared.
* A program's stores into the slots of its own prologue: they go through R10,
  which points where the caller says (run `FrameAccess`), and are taken to lie
  outside. What survives a frame is therefore proved of programs whose caller
  passes in R10's register an address away from the slots.
* An unsupported target, the conversion of bytes to slots, and the shrinking
  that the fuzzer's header announces and its code does not contain.

------------------------------ MODULE MCIrRun ------------------------------
(***************************************************************************)
(* Programs for model checking the lowering and the runs of its result.    *)
(***************************************************************************)
EXTENDS CallFrame

(* Every kind of instruction, in front of a two-way join; frames of every  *)
(* rounding.                                                               *)
Probes ==
  {Mov(2, 1), Mov(6, 1), Mov(9, Imm), Alu(0, 1), LoadImm64(3), LoadImm64(7), Endian(0), Call,
   Load(8, 1, 4, 4), StoreReg(1, 0, 2, 2), StoreImm(1, 8, 4), Atomic(1, 0, 0, 8), CmpXchg(1, 0, 0, 8)}
  \cup {Load(2, 10, o, 8) : o \in {-512, -65, -1}}
  \cup {StoreReg(10, 0, o, 8) : o \in {-73, -64}} \cup {StoreImm(10, o, 8) : o \in {-81, -80}}
  \cup {Atomic(10, 1, o, 8) : o \in {-511, -100}} \cup {CmpXchg(10, 1, o, 8) : o \in {-512, -97}}
ProbePrograms ==
  {<<Mov(0, Imm), i, JmpCond(0, Imm, o), j, Exit>> : i, j \in Probes, o \in {-3, 0, 1}}

(* Control flow: forward and backward branches, some to the first          *)
(* instruction, several exits, a conditional branch as the last one.       *)
Body == {Mov(6, Imm), Mov(7, 0), Call, Exit, Ja(1), Ja(-3), JmpCond(0, Imm, 1), JmpCond(0, Imm, -4)}
FlowPrograms ==
  {<<Mov(0, Imm), a, b, c, d, e>> : a, b, c \in Body, d \in Body, e \in {Exit, JmpCond(0, Imm, -2)}}

(* Values used after a helper call, in one frame or in several.            *)
KeptPrograms ==
  {<<Mov(r, 1), Call, Mov(0, r), i, Exit>> : r \in 6 .. 9, i \in {Mov(1, 0), Ja(-3), Call}}
  \cup {<<Mov(r, 1), Call, StoreReg(10, r, -8, 8), Mov(0, r), Exit>> : r \in 6 .. 9}

(* A loop through the first instruction of a program with a frame, and out *)
(* of it to the exit.                                                      *)
EntryLoop == {<<Mov(0, Imm), Call, JmpCond(0, Imm, -3), Exit>>}

MCPrograms == ProbePrograms \cup FlowPrograms \cup KeptPrograms

(* A doubleword stored four bytes below the frame pointer.                 *)
WideStoreProgram == {<<Mov(0, Imm), StoreReg(10, 1, -4, 8), Exit>>}
============================================================================

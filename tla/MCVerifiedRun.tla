--------------------------- MODULE MCVerifiedRun ---------------------------
(***************************************************************************)
(* Programs for model checking the verifier and the executions of what it  *)
(* accepts.  Most are rejected.                                            *)
(***************************************************************************)
EXTENDS VerifiedRun, VerifierReference

(* Any one instruction before the exit, with R0 defined in front of it,    *)
(* behind it or not at all; offsets on both sides of the frame's two ends. *)
Offsets == {-513, -512, -8, -1, 0}
Probes ==
  {Mov(0, Imm), Mov(10, Imm), Mov(2, 1), Mov(2, 3), Alu(0, 2), Alu(2, 1), Alu(10, 10), Alu(2, 3),
   LoadImm64(10), LoadImm64(3), Endian(0), Endian(5), Endian(10), Call, Exit,
   Load(10, 1, 0, 8), Load(2, 1, 4, 4), StoreReg(1, 3, 0, 8), StoreReg(3, 1, 0, 8), StoreImm(1, 8, 4),
   Atomic(1, 0, 4, 8), Atomic(4, 0, 4, 8), CmpXchg(1, 2, 0, 8)}
  \cup {Load(2, b, o, 8) : b \in {4, 10}, o \in Offsets}
  \cup {StoreReg(10, 1, o, 8) : o \in Offsets}
  \cup {StoreImm(b, o, 4) : b \in {6, 10}, o \in Offsets}
  \cup {Atomic(10, 0, o, 8) : o \in Offsets} \cup {CmpXchg(10, 1, o, 8) : o \in Offsets}
ProbePrograms ==
  UNION {{<<Mov(0, Imm), i, Exit>>, <<i, Mov(0, 1), Exit>>, <<i, Exit>>} : i \in Probes}

(* All programs of up to four instructions over a control-flow alphabet:   *)
(* R0 is the result, R6 a register only some paths initialise.             *)
Alphabet ==
  {Mov(0, Imm), Mov(6, Imm), Mov(0, 6), Call, Exit}
  \cup {Ja(o) : o \in {-3, -2, 1}} \cup {JmpCond(1, Imm, o) : o \in {-3, -2, 1}}
ShortPrograms == UNION {[1 .. n -> Alphabet] : n \in 0 .. 4}

(* Longer ones around two blocks entered in both directions: the merges    *)
(* that need a second and a third sweep.  Some end in a branch.            *)
Middle == {Mov(6, Imm), Mov(0, 6), Call, Ja(1), Ja(-3), JmpCond(0, Imm, 1), JmpCond(0, Imm, -3)}
LongPrograms ==
  {<<Mov(0, Imm), a, b, c, d, e, Exit>> :
     a \in {JmpCond(0, Imm, 2), Ja(2), Ja(3), Mov(6, Imm)}, b, c, d, e \in Middle}
  \cup {<<Mov(0, Imm), a, b, c, d, JmpCond(0, Imm, -2)>> :
          a \in {JmpCond(0, Imm, 2), Mov(6, Imm)}, b, c, d \in Middle}

(* A jump to the end and k jumps back, each to the one before it: no loop, *)
(* and every sweep discovers one block.                                    *)
BackwardChain(k) ==
  <<Mov(0, Imm), Ja(k), Exit>> \o [j \in 1 .. k |-> Ja(-2)]

MCPrograms == {BackwardChain(k) : k \in {1, 8, 29, 33}} \cup ProbePrograms \cup ShortPrograms \cup LongPrograms

(* A loop whose branch compares a register the loop never changes: with    *)
(* JEQ R0, 0 it is taken every time.                                       *)
LoopProgram == {<<Mov(0, Imm), Mov(6, Imm), JmpCond(0, Imm, -2), Exit>>}

(* A conditional branch as the last instruction.                           *)
FallOffProgram == {<<Mov(0, Imm), Ja(1), Exit, JmpCond(0, Imm, -2)>>}

(* A helper is called with R1 alone; R0 is compared before it has a value. *)
UndefinedUsePrograms == {<<Call, Exit>>, <<CmpXchg(10, 1, -8, 8), Mov(0, Imm), Exit>>}
============================================================================

----------------------------- MODULE MCEmitter -----------------------------
(***************************************************************************)
(* Programs and branch ranges for model checking the emitters.             *)
(***************************************************************************)
EXTENDS Emitter

(* One node of each shape between a conditional branch and its target, and *)
(* between a loop's head and its end; two in one block.                    *)
Between ==
  {Mov(6, Imm), Alu(0, 1), Alu(0, Imm), LoadImm64(3), Endian(0), Call, Load(2, 1, 4, 4),
   StoreReg(10, 0, -8, 8), StoreImm(10, -8, 8), Atomic(1, 0, -8, 8), Atomic(1, 0, 0, 8),
   Atomic(1, 0, 8, 8), CmpXchg(1, 0, 0, 8)}
Forward  == {<<Mov(0, 1), JmpCond(0, s, 1), i, Exit>> : s \in {1, Imm}, i \in Between}
Backward == {<<Mov(0, 1), i, JmpCond(0, 1, -2), Exit>> : i \in Between}
Jumps    == {<<Mov(0, 1), Ja(1), Exit, i, JmpCond(0, Imm, -4), Ja(-4)>> : i \in Between}
            \cup {<<Mov(0, 1), Ja(1), Exit, i, Ja(-3)>> : i \in Between}
Straight == {<<Mov(0, 1), i, j, Exit>> : i, j \in Between}
EmitPrograms == Forward \cup Backward \cup Jumps \cup Straight

(* Ranges short enough to be exceeded, in both directions.                 *)
ShortCond == [aarch64 |-> 6, riscv64 |-> 4]
ShortJump == [aarch64 |-> 8, riscv64 |-> 7]
============================================================================

----------------------------- MODULE MCPipeline -----------------------------
(***************************************************************************)
(* Raw programs for model checking the decoder in front of the verifier.   *)
(***************************************************************************)
EXTENDS FuzzGenerator

Slot(o, d, s, off, imm) == [opcode |-> o, dst |-> d, src |-> s, off |-> off, imm |-> imm]
ExitOp == Slot(149, 0, 0, 0, 0)

(* Every opcode, with good and bad registers and with immediates that are  *)
(* an atomic operator, a width of a byte swap, or neither.                 *)
Fields == {<<0, 1, 0>>, <<10, 11, 16>>, <<11, 0, 225>>, <<1, 12, 241>>, <<2, 10, 1>>, <<1, 0, 33>>}
OpcodeProbes ==
  {<<Slot(o, f[1], f[2], 0, f[3]), ExitOp>> : o \in 0 .. 255, f \in Fields}
  \cup {<<Slot(o, 12, 0, 0, 0)>> : o \in {0, 24, 5, 6, 143, 149}}

(* Branches over wide loads, in both directions; the second slots of the   *)
(* loads hold anything, and the last load may be cut off.                  *)
Wide(r)    == Slot(24, r, 0, 0, 7)
Branch(o)  == Slot(21, 0, 0, o, 0)
Alphabet   == {Wide(0), Slot(183, 0, 0, 0, 0), Slot(255, 15, 15, -1, 0), Branch(1), Branch(-2), Branch(0)}
WidePrograms ==
  {<<Slot(183, 0, 0, 0, 0)>> \o f \o <<ExitOp>> : f \in UNION {[1 .. k -> Alphabet] : k \in 1 .. 5}}
Jumpy == {<<Branch(o), Wide(0), Slot(0, 0, 0, 0, 0), Branch(p), Wide(1), ExitOp, Slot(5, 0, 0, q, 0), ExitOp>> :
            o, p, q \in {-3, -2, -1, 0, 1, 2, 3}}

MCRawPrograms == {<<>>} \cup OpcodeProbes \cup WidePrograms \cup Jumpy \cup {[k \in 1 .. 9 |-> ExitOp]}
Nothing       == {<<>>}
MCInitRegs    == {2, 3, 6}
MCDstRegs     == {0, 2, 3}
============================================================================

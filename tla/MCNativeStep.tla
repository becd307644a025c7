---------------------------- MODULE MCNativeStep ----------------------------
(***************************************************************************)
(* Values at the edges of every width and field, at the scale of Words.    *)
(***************************************************************************)
EXTENDS NativeStep

MCOps == {"add", "sub", "mul", "div", "mod", "or", "and", "xor", "lsh", "rsh", "arsh", "mov", "neg"}
MCJmps == DOMAIN Condition \ {"ja"}

MCWords == {0, 1, 3, 8, 127, 128, 255, 256, 32767, 32768, 65535, 42330}
MCImms  == {-128, -13, -12, -6, -5, -4, -1, 0, 1, 3, 4, 7, 8, 19, 127}
MCImm64 == MCWords \cup {4, 12, 257, 259, 260, 1023, 1024, 4096, 65530, 65535 - 12}
MCOffs  == {-32768, -2049, -2048, -8, -1, 0, 1, 2, 4, 8, 2047, 2048, 4095, 4096, 8190, 16380, 32760, 32767}

I(kind, op, w, dst, src, imm, off, width, to_be) ==
  [kind |-> kind, op |-> op, w |-> w, dst |-> dst, src |-> src, imm |-> imm,
   off |-> off, width |-> width, to_be |-> to_be]
T(i, a, b, cell) == [i |-> i, a |-> a, b |-> b, cell |-> cell]


AluTests ==
       {T(I("alu", op, w, 0, 6, 0, 0, 8, FALSE), MCWords, MCWords, {0}) : op \in MCOps, w \in {W, X}}
  \cup {T(I("alu", op, w, 10, 10, 0, 0, 8, FALSE), MCWords, {0}, {0}) : op \in MCOps, w \in {W, X}}
  \cup {T(I("alu", op, w, 2, NoReg, v, 0, 8, FALSE), MCWords, {0}, {0}) : op \in MCOps, w \in {W, X}, v \in MCImms}
  \cup {T(I("ldimm", "", X, 7, NoReg, v, 0, 8, FALSE), {9}, {0}, {0}) : v \in MCImm64}
  \cup {T(I("endian", "", X, d, NoReg, 0, 0, n, be), MCWords, {0}, {0}) :
          d \in {0, 9}, n \in {HALF, W, X}, be \in BOOLEAN}

JmpTests ==
       {T(I("jcond", op, w, 1, 8, 0, 0, 8, FALSE), MCWords, MCWords, {0}) : op \in MCJmps, w \in {W, X}}
  \cup {T(I("jcond", op, w, 1, NoReg, v, 0, 8, FALSE), MCWords, {0}, {0}) : op \in MCJmps, w \in {W, X}, v \in MCImms}
  \cup {T(I("jcond", "ja", W, 1, 8, 0, 0, 8, FALSE), {1}, {2}, {0})}

MemTests ==
       {T(I(k, "", X, 3, 4, 0, off, n, FALSE), {0, 40000}, {0, 513}, {42330}) :
          k \in {"load", "storereg"}, off \in MCOffs, n \in {1, 2, 4, 8}}
  \cup {T(I("storeimm", "", X, 3, NoReg, v, off, n, FALSE), {40000}, {0}, {0}) :
          v \in MCImms, off \in MCOffs, n \in {1, 2, 4, 8}}
  \cup {T(I("atomic", op, X, 6, 7, 0, off, n, FALSE), {5, 40000}, {0, 5, 6, 65535}, {0, 5, 6, 21930}) :
          op \in {"add", "or", "and", "xor", "xchg", "cmpxchg"}, off \in {-8, -4, -1, 0, 3, 4, 7}, n \in {4, 8}}

MCTests == AluTests \cup JmpTests \cup MemTests
=============================================================================

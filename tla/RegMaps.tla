------------------------------ MODULE RegMaps -------------------------------
(***************************************************************************)
(* The register mapping tables of crates/jit-regalloc/src/lib.rs: where    *)
(* each eBPF register, R0 to R10, lives on each target.                    *)
(***************************************************************************)
EXTENDS Integers

Targets == {"aarch64", "riscv64"}

\* Faulty: R6 to R9 in X12 to X15, which a helper need not keep.
aarch64_regmap_scratch == [r \in 0 .. 10 |->
  IF r = 0 THEN 7 ELSE IF r <= 5 THEN r - 1 ELSE IF r = 10 THEN 25 ELSE r + 6]
aarch64_regmap == [r \in 0 .. 10 |->
  IF r = 0 THEN 7 ELSE IF r <= 5 THEN r - 1 ELSE IF r = 10 THEN 25 ELSE r + 13]
riscv64_regmap == [r \in 0 .. 10 |-> IF r <= 5 THEN r + 10 ELSE r + 12]

regmap == [aarch64 |-> aarch64_regmap, riscv64 |-> riscv64_regmap]

(* RegMap::tmp, the register the emitters build constants in.              *)
tmp == [aarch64 |-> 9, riscv64 |-> 23]
=============================================================================

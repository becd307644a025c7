--------------------------- MODULE EmitterProofs ----------------------------
(***************************************************************************)
(* The emitters are right about their offsets, for every program and every *)
(* branch range: labels, relocations, patched fields and the dry run's     *)
(* size.  The invariant says of every moment which labels are known, that  *)
(* each of them divides the words emitted so far, and that every branch    *)
(* word has the relocation that will patch it, or has patched it.          *)
(***************************************************************************)
EXTENDS Emitter, LoweringProofs

----------------------------------------------------------------------------
(* What the emitter needs to know of the lowered program.                  *)

Shape ==
  /\ Len(blocks) \in Nat /\ DOMAIN blocks = 1 .. Len(blocks)
  /\ \A k \in 1 .. Len(blocks) :
       /\ blocks[k].id = k - 1
       /\ Len(blocks[k].nodes) \in Nat \ {0} /\ DOMAIN blocks[k].nodes = 1 .. Len(blocks[k].nodes)
       /\ \A n \in 1 .. Len(blocks[k].nodes) :
            /\ blocks[k].nodes[n].op \in IrOps
            /\ stage = "lowered" /\ blocks[k].nodes[n].op \in {"branch", "jump"} =>
                 blocks[k].nodes[n].target \in 0 .. Len(blocks) - 1

(* What the lowering hands over has the shape the emitters rely on.        *)
LEMMA LoweredShape == StructInv /\ LowerInv => Shape
<1> SUFFICES ASSUME StructInv, LowerInv PROVE Shape
  OBVIOUS
<1> DEFINE B == [id : Nat, nodes : Seq(IrNodes) \ {<<>>}]
<1>1. blocks \in Seq(B) /\ \A k \in DOMAIN blocks : blocks[k].id = k - 1
  BY DEF LowerInv, LoweringTypeOK
<1>2. /\ Len(blocks) \in Nat /\ DOMAIN blocks = 1 .. Len(blocks)
      /\ \A k \in 1 .. Len(blocks) : blocks[k] \in B
  <2> HIDE DEF B
  <2> QED BY <1>1
<1>3. ASSUME NEW k \in 1 .. Len(blocks)
      PROVE  /\ Len(blocks[k].nodes) \in Nat \ {0}
             /\ DOMAIN blocks[k].nodes = 1 .. Len(blocks[k].nodes)
             /\ \A n \in 1 .. Len(blocks[k].nodes) :
                  blocks[k].nodes[n].op \in IrOps /\ blocks[k].nodes[n].target \in Nat
  <2> DEFINE s == blocks[k].nodes
  <2>1. s \in Seq(IrNodes) /\ s # <<>>
    BY <1>2
  <2>2. \A x \in IrNodes : x.op \in IrOps /\ x.target \in Nat
    BY DEF IrNodes
  <2> HIDE DEF s
  <2>3. /\ Len(s) \in Nat \ {0} /\ DOMAIN s = 1 .. Len(s)
        /\ \A n \in 1 .. Len(s) : s[n] \in IrNodes
    BY <2>1
  <2>4. \A n \in 1 .. Len(s) : s[n].op \in IrOps /\ s[n].target \in Nat
    BY <2>2, <2>3
  <2> QED
    BY <2>3, <2>4 DEF s
<1>4. ASSUME NEW k \in 1 .. Len(blocks), NEW n \in 1 .. Len(blocks[k].nodes), stage = "lowered",
             blocks[k].nodes[n].op \in {"branch", "jump"}
      PROVE  blocks[k].nodes[n].target \in 0 .. Len(blocks) - 1
  <2>1. blocks[k].nodes[n].target + 1 \in DOMAIN blocks
    BY <1>2, <1>3, <1>4, LoweredBranches DEF BranchesReachTheirTarget
  <2> QED
    BY <2>1, <1>2, <1>3
<1> QED
  BY <1>1, <1>2, <1>3, <1>4 DEF Shape

(* No node expands to more words than the dry run counts for it.           *)
LEMMA ExpansionBounds ==
  ASSUME machine \in Targets
  PROVE  /\ MAX_EXPANSION_RATIO[machine] \in Nat
         /\ \A x : x.op \in IrOps \ {"branch", "jump"} =>
              \A n \in WordCounts(x) : n \in Nat /\ n <= MAX_EXPANSION_RATIO[machine]
         /\ \A m \in LoadImm32Words[machine] \cup {0}, test \in TestWords :
              /\ m \in Nat /\ test \in Nat
              /\ m + test + 1 <= MAX_EXPANSION_RATIO[machine]
<1> USE DEF Targets, MAX_EXPANSION_RATIO
<1>1. MAX_EXPANSION_RATIO[machine] \in Nat
  OBVIOUS
<1>2. ASSUME NEW x, x.op \in IrOps \ {"branch", "jump"}, NEW n \in WordCounts(x)
      PROVE  n \in Nat /\ n <= MAX_EXPANSION_RATIO[machine]
  <2>1. CASE x.op \in {"mov", "alu"}
    BY <1>2, <2>1 DEF WordCounts, AluWords
  <2>2. CASE x.op = "atomic"
    BY <1>2, <2>2 DEF WordCounts, AtomicWords
  <2>3. CASE x.op \in {"load", "store", "storeimm", "ldimm"}
    BY <1>2, <2>3 DEF WordCounts, OtherWords
  <2>4. CASE x.op \in {"call", "ret", "endian", "prologue", "epilogue"}
    BY <1>2, <2>4 DEF WordCounts, OtherWords
  <2> QED
    BY <1>2, <2>1, <2>2, <2>3, <2>4 DEF IrOps
<1>3. ASSUME NEW m \in LoadImm32Words[machine] \cup {0}, NEW test \in TestWords
      PROVE  m \in Nat /\ test \in Nat /\ m + test + 1 <= MAX_EXPANSION_RATIO[machine]
  BY DEF LoadImm32Words, TestWords
<1> QED
  BY <1>1, <1>2, <1>3

(* Remainders next to zero.                                                *)
LEMMA SmallRemainder ==
  ASSUME NEW M \in Nat \ {0}, NEW d \in Int, - M <= d, d < M
  PROVE  d % M = IF d < 0 THEN d + M ELSE d
<1>1. CASE d >= 0
  BY <1>1
<1>2. CASE d < 0
  BY <1>2
<1> QED
  BY <1>1, <1>2

(* The immediate field of an encodable distance, sign-extended, is the     *)
(* distance.                                                               *)
LEMMA FieldKeepsDistance ==
  ASSUME NEW kind, Reach(kind) \in Nat \ {0}, NEW d \in - Reach(kind) .. Reach(kind) - 1
  PROVE  Field(d, kind) \in Nat /\ SignExtended(Field(d, kind), kind) = d
<1>1. d % (2 * Reach(kind)) = IF d < 0 THEN d + 2 * Reach(kind) ELSE d
  <2> DEFINE M == 2 * Reach(kind)
  <2>1. M \in Nat \ {0} /\ d \in Int /\ - M <= d /\ d < M
    OBVIOUS
  <2> HIDE DEF M
  <2>2. d % M = IF d < 0 THEN d + M ELSE d
    BY <2>1, SmallRemainder
  <2> QED
    BY <2>2 DEF M
<1> QED
  BY <1>1 DEF Field, SignExtended

----------------------------------------------------------------------------
(* The invariant.                                                          *)

(* The label of block t has been emitted.                                  *)
Opened(t) == t < eb - 1 \/ (t = eb - 1 /\ en > 0)

PlaceInv ==
  /\ emission = "waiting" => /\ eb = 1 /\ en = 0 /\ buf = <<>> /\ DOMAIN bbOffsets = {}
                             /\ relocations = <<>> /\ reloc = 1
  /\ emission # "waiting" =>
       /\ stage = "lowered"
       /\ eb <= Len(blocks) => reloc = 1 /\ en <= Len(blocks[eb].nodes) /\ emission = "emitting"
       /\ eb > Len(blocks) => en = 0
  /\ emission = "done" => reloc > Len(relocations)
  /\ emission = "refused" => reloc <= Len(relocations) /\ ~ Encodable(relocations[reloc])

(* The words belong to blocks whose labels are known, and every known      *)
(* label divides them.                                                     *)
LabelInv ==
  /\ \A v \in DOMAIN buf : Opened(buf[v].bb)
  /\ DOMAIN bbOffsets = {t \in Nat : Opened(t)}
  /\ \A t \in DOMAIN bbOffsets : Begins(bbOffsets[t], t)

(* A relocation is of the branch word it points to, and that word is       *)
(* patched once the relocation is resolved.                                *)
OfItsWord(r) ==
  LET q == relocations[r]
      w == buf[q.offset + 1]
  IN  /\ RelocKind(w.kind) = q.kind /\ w.to = q.target /\ q.target \in 0 .. Len(blocks) - 1
      /\ r < reloc => Encodable(q) /\ w.imm = Field(Distance(q), q.kind)

RelocationInv ==
  /\ \A r \in DOMAIN relocations : OfItsWord(r)
  /\ \A v \in DOMAIN buf :
       buf[v].kind # "plain" => \E r \in DOMAIN relocations : relocations[r].offset = v - 1

(* The words emitted are paid for by the nodes emitted.                    *)
Emitted == {x \in NodeIds : x[1] < eb \/ (x[1] = eb /\ x[2] < en)}
SizeInv ==
  emission # "waiting" => Len(buf) <= Cardinality(Emitted) * MAX_EXPANSION_RATIO[machine]

EmitInv == EmitTypeOK /\ PlaceInv /\ LabelInv /\ RelocationInv

emitVars == <<vvars, lvars, cvars>>
Relocations == [offset : Nat, target : Nat, kind : {"cond", "jump"}]

(* The type invariant, with the bounds that move taken out of the sets.    *)
LEMMA EmitTypeFacts ==
  ASSUME EmitTypeOK
  PROVE  /\ Len(buf) \in Nat /\ DOMAIN buf = 1 .. Len(buf) /\ \A v \in 1 .. Len(buf) : buf[v] \in Words
         /\ Len(relocations) \in Nat /\ DOMAIN relocations = 1 .. Len(relocations)
         /\ relocations \in Seq(Relocations)
         /\ \A r \in 1 .. Len(relocations) :
              /\ relocations[r] \in Relocations /\ relocations[r].offset + 1 \in 1 .. Len(buf)
<1> DEFINE Q == [offset : 0 .. Len(buf) - 1, target : Nat, kind : {"cond", "jump"}]
<1>1. buf \in Seq(Words) /\ relocations \in Seq(Q)
  BY DEF EmitTypeOK
<1>2. Len(buf) \in Nat /\ DOMAIN buf = 1 .. Len(buf) /\ \A v \in 1 .. Len(buf) : buf[v] \in Words
  <2> HIDE DEF Q
  <2> QED BY <1>1
<1>3. Q \subseteq Relocations /\ \A q \in Q : q.offset + 1 \in 1 .. Len(buf)
  BY <1>2 DEF Relocations
<1> HIDE DEF Q
<1>4. relocations \in Seq(Relocations)
  BY <1>1, <1>3, SeqMonotonic
<1>5. /\ Len(relocations) \in Nat /\ DOMAIN relocations = 1 .. Len(relocations)
      /\ \A r \in 1 .. Len(relocations) : relocations[r] \in Q
  BY <1>1
<1> QED
  BY <1>2, <1>3, <1>4, <1>5

(* The converse, one state later.                                          *)
LEMMA RelocationsTyped ==
  ASSUME NEW m \in Nat, NEW s \in Seq(Relocations),
         \A r \in 1 .. Len(s) : s[r].offset < m
  PROVE  s \in Seq([offset : 0 .. m - 1, target : Nat, kind : {"cond", "jump"}])
<1> DEFINE Q == [offset : 0 .. m - 1, target : Nat, kind : {"cond", "jump"}]
<1>1. Len(s) \in Nat /\ s \in [1 .. Len(s) -> Relocations]
  BY LenProperties
<1>2. \A q \in Relocations : q.offset < m => q \in Q
  BY DEF Relocations
<1> HIDE DEF Q
<1>3. s \in [1 .. Len(s) -> Q]
  BY <1>1, <1>2
<1>4. s \in Seq(Q)
  BY <1>1, <1>3, SeqDef
<1> QED
  BY <1>4 DEF Q

(* Where the cursor goes next, and what that does to the labels known.     *)
LEMMA CursorFacts ==
  ASSUME Shape, EmitTypeOK, PlaceInv, Emitting, AdvanceEmission, blocks' = blocks
  PROVE  /\ eb \in 1 .. Len(blocks) /\ en \in 0 .. Len(blocks[eb].nodes) /\ reloc = 1
         /\ eb' \in 1 .. Len(blocks) + 1 /\ en' \in Nat
         /\ eb' <= Len(blocks) => en' <= Len(blocks[eb'].nodes)
         /\ eb' > Len(blocks) => en' = 0
         /\ en > 0 => \A t \in Nat : Opened(t)' <=> Opened(t)
         /\ en = 0 => \A t \in Nat : Opened(t)' <=> Opened(t) \/ t = eb - 1
<1>1. /\ eb \in 1 .. Len(blocks) /\ en \in 0 .. Len(blocks[eb].nodes) /\ reloc = 1
      /\ Len(blocks) \in Nat /\ Len(blocks[eb].nodes) \in Nat \ {0}
  BY DEF Shape, EmitTypeOK, PlaceInv, Emitting
<1>2. CASE en < Len(blocks[eb].nodes)
  <2>1. eb' = eb /\ en' = en + 1
    BY <1>2 DEF AdvanceEmission
  <2> QED
    BY <1>1, <1>2, <2>1 DEF Opened
<1>3. CASE ~ (en < Len(blocks[eb].nodes))
  <2>1. eb' = eb + 1 /\ en' = 0 /\ en > 0
    BY <1>1, <1>3 DEF AdvanceEmission
  <2>2. eb' <= Len(blocks) => Len(blocks[eb'].nodes) \in Nat
    BY <1>1, <2>1 DEF Shape
  <2> QED
    BY <1>1, <2>1, <2>2 DEF Opened
<1> QED
  BY <1>2, <1>3

(* What emitting appends.                                                  *)
LEMMA EmitFacts ==
  ASSUME EmitTypeOK, NEW n \in Nat, NEW w, w.kind \in WordKinds, w.imm \in Nat,
         w.to \in Nat, blocks[eb].id \in Nat, Emit(n, w)
  PROVE  /\ buf' \in Seq(Words) /\ Len(buf') = Len(buf) + n /\ DOMAIN buf' = 1 .. Len(buf) + n
         /\ \A v \in 1 .. Len(buf) : buf'[v] = buf[v]
         /\ \A v \in Len(buf) + 1 .. Len(buf) + n :
              /\ buf'[v].bb = blocks[eb].id
              /\ v # Len(buf) + n => buf'[v].kind = "plain"
              /\ v = Len(buf) + n => buf'[v].kind = w.kind /\ buf'[v].to = w.to
<1> DEFINE m == Len(buf) + n
<1>1. Len(buf) \in Nat /\ \A v \in 1 .. Len(buf) : buf[v] \in Words
  BY EmitTypeFacts
<1>2. Word(w) \in Words /\ Word(Plain) \in Words
  BY DEF Word, Words, WordKinds, Plain
<1>3. buf' = [v \in 1 .. m |-> IF v <= Len(buf) THEN buf[v]
                               ELSE IF v = m THEN Word(w) ELSE Word(Plain)]
  BY DEF Emit
<1>4. m \in Nat /\ buf' \in [1 .. m -> Words]
  BY <1>1, <1>2, <1>3
<1>5. buf' \in Seq(Words)
  <2> HIDE DEF m
  <2> QED BY <1>4, SeqDef
<1>6. Len(buf') = m /\ DOMAIN buf' = 1 .. m
  <2> HIDE DEF m
  <2> QED BY <1>4, <1>5, LenProperties
<1>7. \A v \in 1 .. Len(buf) : buf'[v] = buf[v]
  BY <1>1, <1>3
<1>8. \A v \in Len(buf) + 1 .. m : buf'[v] = IF v = m THEN Word(w) ELSE Word(Plain)
  BY <1>1, <1>3
<1>9. /\ Word(w).bb = blocks[eb].id /\ Word(w).kind = w.kind /\ Word(w).to = w.to
      /\ Word(Plain).bb = blocks[eb].id /\ Word(Plain).kind = "plain"
  BY DEF Word, Plain
<1> QED
  BY <1>5, <1>6, <1>7, <1>8, <1>9

----------------------------------------------------------------------------
(* A node's step: n words, the last of them w, with a relocation if w is a *)
(* branch.                                                                 *)
AddsWords(n, w) ==
  /\ Emitting /\ en > 0
  /\ Emit(n, w) /\ AdvanceEmission
  /\ relocations' = IF w.kind = "plain" THEN relocations
                    ELSE Append(relocations, Relocation(Len(buf) + n - 1, w.to, RelocKind(w.kind)))
  /\ UNCHANGED <<vvars, lvars, emission, machine, bbOffsets, reloc>>

(* Words are appended; labels and relocations of what is there stay.       *)
LEMMA AddsWordsStep ==
  ASSUME Shape, EmitInv, NEW n \in Nat, NEW w,
         w.kind \in WordKinds, w.imm \in Nat, w.to \in Nat,
         w.kind # "plain" => n > 0 /\ w.to \in 0 .. Len(blocks) - 1,
         AddsWords(n, w)
  PROVE  EmitInv'
<1> USE DEF EmitInv, lvars
<1>1. /\ eb \in 1 .. Len(blocks) /\ en > 0 /\ reloc = 1 /\ reloc' = 1
      /\ eb' \in 1 .. Len(blocks) + 1 /\ en' \in Nat
      /\ eb' <= Len(blocks) => en' <= Len(blocks[eb'].nodes)
      /\ eb' > Len(blocks) => en' = 0
      /\ \A t \in Nat : Opened(t)' <=> Opened(t)
      /\ emission = "emitting" /\ emission' = "emitting" /\ stage' = "lowered" /\ blocks' = blocks
  BY CursorFacts DEF AddsWords, Emitting, PlaceInv
<1>2. blocks[eb].id = eb - 1 /\ eb - 1 \in Nat /\ Len(blocks) \in Nat
  BY <1>1 DEF Shape
<1>3. /\ buf' \in Seq(Words) /\ Len(buf') = Len(buf) + n /\ DOMAIN buf' = 1 .. Len(buf) + n
      /\ \A v \in 1 .. Len(buf) : buf'[v] = buf[v]
      /\ \A v \in Len(buf) + 1 .. Len(buf) + n :
           /\ buf'[v].bb = eb - 1
           /\ v # Len(buf) + n => buf'[v].kind = "plain"
           /\ v = Len(buf) + n => buf'[v].kind = w.kind /\ buf'[v].to = w.to
  BY <1>2, EmitFacts DEF AddsWords
<1>4. /\ Len(buf) \in Nat /\ DOMAIN buf = 1 .. Len(buf) /\ \A v \in 1 .. Len(buf) : buf[v].bb \in Nat
      /\ Len(relocations) \in Nat /\ DOMAIN relocations = 1 .. Len(relocations)
      /\ relocations \in Seq(Relocations)
      /\ \A r \in 1 .. Len(relocations) :
           relocations[r] \in Relocations /\ relocations[r].offset + 1 \in 1 .. Len(buf)
  BY EmitTypeFacts DEF Words
<1>5. /\ relocations' \in Seq(Relocations) /\ Len(relocations') \in Nat
      /\ DOMAIN relocations' = 1 .. Len(relocations')
      /\ \A r \in 1 .. Len(relocations) :
           r \in 1 .. Len(relocations') /\ relocations'[r] = relocations[r]
      /\ \A r \in 1 .. Len(relocations') :
           \/ r \in 1 .. Len(relocations)
           \/ /\ w.kind # "plain" /\ relocations'[r].offset = Len(buf) + n - 1
              /\ relocations'[r].target = w.to /\ relocations'[r].kind = RelocKind(w.kind)
      /\ w.kind # "plain" =>
           \E r \in 1 .. Len(relocations') : relocations'[r].offset = Len(buf) + n - 1
  <2> DEFINE q == Relocation(Len(buf) + n - 1, w.to, RelocKind(w.kind))
  <2>1. /\ w.kind # "plain" => q \in Relocations
        /\ q.offset = Len(buf) + n - 1 /\ q.target = w.to /\ q.kind = RelocKind(w.kind)
    BY <1>4 DEF Relocation, Relocations, RelocKind, WordKinds
  <2>2. relocations' = IF w.kind = "plain" THEN relocations ELSE Append(relocations, q)
    BY DEF AddsWords
  <2> HIDE DEF q
  <2>3. CASE w.kind = "plain"
    BY <1>4, <2>2, <2>3
  <2>4. CASE w.kind # "plain"
    <3>1. relocations' = Append(relocations, q) /\ q \in Relocations
      BY <2>1, <2>2, <2>4
    <3>2. /\ relocations' \in Seq(Relocations) /\ Len(relocations') = Len(relocations) + 1
          /\ DOMAIN relocations' = 1 .. Len(relocations')
          /\ \A r \in 1 .. Len(relocations) : relocations'[r] = relocations[r]
          /\ relocations'[Len(relocations) + 1] = q
      BY <1>4, <3>1
    <3>3. \A r \in 1 .. Len(relocations') : r \in 1 .. Len(relocations) \/ r = Len(relocations) + 1
      BY <1>4, <3>2
    <3>4. Len(relocations) + 1 \in 1 .. Len(relocations')
      BY <1>4, <3>2
    <3>5. \A r \in 1 .. Len(relocations) : r \in 1 .. Len(relocations')
      BY <1>4, <3>2
    <3> QED
      BY <2>1, <2>4, <3>2, <3>3, <3>4, <3>5
  <2> QED
    BY <2>3, <2>4
<1>6. reloc' = 1 /\ 1 \in 1 .. Len(relocations') + 1 /\ \A r \in 1 .. Len(relocations') : ~ (r < reloc')
  BY <1>1, <1>5
<1>7. EmitTypeOK'
  <2>1. \A r \in 1 .. Len(relocations') : relocations'[r].offset < Len(buf) + n
    <3>1. \A r \in 1 .. Len(relocations) : relocations[r].offset < Len(buf) + n
      BY <1>4 DEF Relocations
    <3>2. w.kind # "plain" => Len(buf) + n - 1 < Len(buf) + n
      BY <1>4
    <3>3. ASSUME NEW r \in 1 .. Len(relocations') PROVE relocations'[r].offset < Len(buf) + n
      <4>1. CASE r \in 1 .. Len(relocations)
        <5>1. relocations'[r] = relocations[r]
          BY <4>1, <1>5
        <5> QED
          BY <4>1, <5>1, <3>1
      <4>2. CASE w.kind # "plain" /\ relocations'[r].offset = Len(buf) + n - 1
        BY <4>2, <3>2
      <4> QED
        BY <4>1, <4>2, <1>5
    <3> QED
      BY <3>3
  <2>2. relocations' \in Seq([offset : 0 .. Len(buf') - 1, target : Nat, kind : {"cond", "jump"}])
    <3> DEFINE m == Len(buf) + n
    <3>1. m \in Nat /\ \A r \in 1 .. Len(relocations') : relocations'[r].offset < m
      BY <1>4, <2>1
    <3>2. m = Len(buf')
      BY <1>3
    <3> HIDE DEF m
    <3>3. relocations' \in Seq([offset : 0 .. m - 1, target : Nat, kind : {"cond", "jump"}])
      BY <1>5, <3>1, RelocationsTyped
    <3> QED
      BY <3>2, <3>3
  <2>3. /\ DOMAIN bbOffsets' \subseteq Nat
        /\ \A t \in DOMAIN bbOffsets' : bbOffsets'[t] \in 0 .. Len(buf')
    BY <1>3, <1>4 DEF EmitTypeOK, AddsWords
  <2>4. emission' \in {"waiting", "emitting", "done", "refused"} /\ machine' \in Targets
    BY DEF EmitTypeOK, AddsWords
  <2>5. eb' \in 1 .. Len(blocks') + 1 /\ en' \in Nat /\ reloc' \in 1 .. Len(relocations') + 1
    BY <1>1, <1>6
  <2> QED
    BY <1>3, <2>2, <2>3, <2>4, <2>5 DEF EmitTypeOK
<1>8. PlaceInv'
  BY <1>1 DEF PlaceInv
<1>9. LabelInv'
  <2>1. Opened(eb - 1)
    BY <1>1 DEF Opened
  <2>2. \A v \in DOMAIN buf' : Opened(buf'[v].bb) /\ buf'[v].bb \in Nat
    <3>1. \A v \in 1 .. Len(buf) : Opened(buf[v].bb) /\ buf[v].bb \in Nat
      BY <1>4 DEF LabelInv
    <3>2. \A v \in 1 .. Len(buf) + n : v \in 1 .. Len(buf) \/ v \in Len(buf) + 1 .. Len(buf) + n
      BY <1>4
    <3> QED
      BY <1>2, <1>3, <2>1, <3>1, <3>2
  <2>3. (\A v \in DOMAIN buf : Opened(buf[v].bb))'
    BY <1>1, <2>2
  <2>4. DOMAIN bbOffsets' = {t \in Nat : Opened(t)'}
    BY <1>1 DEF LabelInv, AddsWords
  <2>5. ASSUME NEW t \in DOMAIN bbOffsets PROVE Begins(bbOffsets[t], t)'
    <3>1. t \in Nat /\ t <= eb - 1 /\ bbOffsets' = bbOffsets
      BY <1>1 DEF LabelInv, Opened, AddsWords
    <3>2. /\ bbOffsets[t] \in 0 .. Len(buf)
          /\ \A v \in DOMAIN buf : v <= bbOffsets[t] <=> buf[v].bb < t
      BY DEF LabelInv, Begins
    <3>3. ASSUME NEW v \in DOMAIN buf' PROVE v <= bbOffsets[t] <=> buf'[v].bb < t
      <4>1. CASE v \in 1 .. Len(buf)
        BY <4>1, <1>3, <1>4, <3>2
      <4>2. CASE v \in Len(buf) + 1 .. Len(buf) + n
        <5>1. ~ (v <= bbOffsets[t])
          BY <4>2, <1>4, <3>2
        <5>2. ~ (buf'[v].bb < t)
          BY <4>2, <1>2, <1>3, <3>1
        <5> QED
          BY <5>1, <5>2
      <4> QED
        BY <4>1, <4>2, <1>3, <1>4
    <3> QED
      BY <1>3, <1>4, <3>1, <3>2, <3>3 DEF Begins
  <2>6. DOMAIN bbOffsets' = DOMAIN bbOffsets /\ bbOffsets' = bbOffsets
    BY DEF AddsWords
  <2> QED
    BY <2>3, <2>4, <2>5, <2>6 DEF LabelInv
<1>10. RelocationInv'
  <2>1. ASSUME NEW r \in 1 .. Len(relocations') PROVE OfItsWord(r)'
    <3>1. CASE r \in 1 .. Len(relocations)
      <4>1. relocations'[r] = relocations[r] /\ ~ (r < reloc') /\ OfItsWord(r)
        BY <3>1, <1>4, <1>5, <1>6 DEF RelocationInv
      <4>2. buf'[relocations[r].offset + 1] = buf[relocations[r].offset + 1]
        BY <3>1, <1>3, <1>4
      <4> QED
        BY <4>1, <4>2, <1>1 DEF OfItsWord
    <3>2. CASE r \notin 1 .. Len(relocations)
      <4>1. /\ w.kind # "plain" /\ relocations'[r].offset = Len(buf) + n - 1
            /\ relocations'[r].target = w.to /\ relocations'[r].kind = RelocKind(w.kind)
        BY <3>2, <1>5
      <4>2. buf'[Len(buf) + n].kind = w.kind /\ buf'[Len(buf) + n].to = w.to
        BY <4>1, <1>3, <1>4, SMTT(20)
      <4>3. relocations'[r].offset + 1 = Len(buf) + n /\ ~ (r < reloc')
        BY <4>1, <1>4, <1>6
      <4> QED
        BY <4>1, <4>2, <4>3, <1>1 DEF OfItsWord
    <3> QED
      BY <3>1, <3>2
  <2>2. ASSUME NEW v \in 1 .. Len(buf) + n, buf'[v].kind # "plain"
        PROVE  \E r \in 1 .. Len(relocations') : relocations'[r].offset = v - 1
    <3>1. CASE v \in 1 .. Len(buf)
      <4>1. PICK r \in 1 .. Len(relocations) : relocations[r].offset = v - 1
        BY <3>1, <2>2, <1>3, <1>4 DEF RelocationInv
      <4> QED
        BY <4>1, <1>5
    <3>2. CASE v \in Len(buf) + 1 .. Len(buf) + n
      <4>1. v = Len(buf) + n /\ w.kind # "plain"
        BY <3>2, <2>2, <1>3
      <4> QED
        BY <4>1, <1>5
    <3> QED
      BY <3>1, <3>2, <1>4
  <2> QED
    BY <2>1, <2>2, <1>3, <1>5 DEF RelocationInv
<1> QED
  BY <1>7, <1>8, <1>9, <1>10

(* Every node's step is one of these, with no more words than the dry run  *)
(* counts for the node.                                                    *)
LEMMA NodeStep ==
  ASSUME Shape, EmitInv, EmitStraight \/ EmitBranch \/ EmitJump
  PROVE  \E n \in Nat, w \in [kind : WordKinds, imm : Nat, to : Nat] :
           /\ n <= MAX_EXPANSION_RATIO[machine]
           /\ w.kind # "plain" => n > 0 /\ w.to \in 0 .. Len(blocks) - 1
           /\ AddsWords(n, w)
<1> DEFINE W == [kind : WordKinds, imm : Nat, to : Nat]
<1>1. machine \in Targets /\ Len(buf) \in Nat
  BY EmitTypeFacts DEF EmitInv, EmitTypeOK
<1>2. ASSUME NEW ops, AtNode(ops)
      PROVE  /\ Emitting /\ en > 0 /\ TheNode.op \in ops /\ TheNode.op \in IrOps
             /\ TheNode.op \in {"branch", "jump"} => TheNode.target \in 0 .. Len(blocks) - 1
  <2>1. eb \in 1 .. Len(blocks) /\ en \in 1 .. Len(blocks[eb].nodes) /\ stage = "lowered"
    BY <1>2 DEF AtNode, Emitting, EmitInv, EmitTypeOK, PlaceInv, Shape
  <2> QED
    BY <1>2, <2>1 DEF AtNode, TheNode, Shape
<1>3. CASE EmitStraight
  <2>1. PICK n \in WordCounts(TheNode) : Emit(n, Plain)
    BY <1>3 DEF EmitStraight
  <2>2. Emitting /\ en > 0 /\ TheNode.op \in IrOps \ {"branch", "jump"}
    BY <1>2, <1>3 DEF EmitStraight
  <2>3. n \in Nat /\ n <= MAX_EXPANSION_RATIO[machine]
    BY <1>1, <2>2, ExpansionBounds
  <2>4. Plain \in W /\ Plain.kind = "plain"
    BY DEF Plain, WordKinds
  <2>5. AddsWords(n, Plain)
    BY <1>3, <2>1, <2>2, <2>4 DEF EmitStraight, AddsWords
  <2> QED
    BY <2>3, <2>4, <2>5
<1>4. CASE EmitBranch
  <2>1. PICK m \in ConstantWords, test \in TestWords, k \in {"cond", "jal"} :
          /\ Emit(m + test + 1, Branch(k, TheNode.target))
          /\ relocations' = Append(relocations,
                              Relocation(BranchOffset(m, test), TheNode.target, RelocKind(k)))
    BY <1>4 DEF EmitBranch, BranchWords
  <2> DEFINE w == Branch(k, TheNode.target)
  <2>2. Emitting /\ en > 0 /\ TheNode.target \in 0 .. Len(blocks) - 1
    BY <1>2, <1>4 DEF EmitBranch
  <2>3. m \in Nat /\ test \in Nat /\ m + test + 1 <= MAX_EXPANSION_RATIO[machine]
    BY <1>1, ExpansionBounds DEF ConstantWords
  <2>4. w \in W /\ w.kind = k /\ k # "plain" /\ w.to = TheNode.target
    BY <2>2 DEF Branch, WordKinds
  <2>5. BranchOffset(m, test) = Len(buf) + (m + test + 1) - 1
    BY <1>1, <2>3 DEF BranchOffset
  <2>6. AddsWords(m + test + 1, w)
    BY <1>4, <2>1, <2>2, <2>4, <2>5 DEF EmitBranch, AddsWords
  <2>7. m + test + 1 \in Nat /\ m + test + 1 > 0
    BY <2>3
  <2> HIDE DEF w
  <2> QED
    BY <2>2, <2>3, <2>4, <2>6, <2>7
<1>5. CASE EmitJump
  <2> DEFINE w == Branch("jump", TheNode.target)
  <2>1. Emitting /\ en > 0 /\ TheNode.target \in 0 .. Len(blocks) - 1
    BY <1>2, <1>5 DEF EmitJump
  <2>2. w \in W /\ w.kind = "jump" /\ RelocKind(w.kind) = "jump" /\ w.to = TheNode.target
    BY <2>1 DEF Branch, WordKinds, RelocKind
  <2>3. Len(buf) = Len(buf) + 1 - 1 /\ 1 <= MAX_EXPANSION_RATIO[machine]
    BY <1>1 DEF MAX_EXPANSION_RATIO, Targets
  <2>4. AddsWords(1, w)
    BY <1>5, <2>1, <2>2, <2>3 DEF EmitJump, AddsWords
  <2> HIDE DEF w
  <2> QED
    BY <2>1, <2>2, <2>3, <2>4
<1> QED
  BY <1>3, <1>4, <1>5

(* A label's step: the words so far are exactly those of earlier blocks.   *)
LEMMA LabelStep ==
  ASSUME Shape, EmitInv, EmitLabel
  PROVE  EmitInv'
<1> USE DEF EmitInv, lvars
<1>1. /\ eb \in 1 .. Len(blocks) /\ en = 0 /\ reloc = 1 /\ reloc' = 1
      /\ eb' \in 1 .. Len(blocks) + 1 /\ en' \in Nat
      /\ eb' <= Len(blocks) => en' <= Len(blocks[eb'].nodes)
      /\ eb' > Len(blocks) => en' = 0
      /\ \A t \in Nat : Opened(t)' <=> Opened(t) \/ t = eb - 1
      /\ emission = "emitting" /\ emission' = "emitting" /\ stage' = "lowered" /\ blocks' = blocks
      /\ buf' = buf /\ relocations' = relocations /\ machine' = machine
  BY CursorFacts DEF EmitLabel, Emitting, PlaceInv
<1>2. blocks[eb].id = eb - 1 /\ eb - 1 \in Nat /\ Len(blocks) \in Nat
  BY <1>1 DEF Shape
<1>3. /\ Len(buf) \in Nat /\ DOMAIN buf = 1 .. Len(buf) /\ \A v \in 1 .. Len(buf) : buf[v].bb \in Nat
      /\ Len(relocations) \in Nat /\ DOMAIN relocations = 1 .. Len(relocations)
  BY EmitTypeFacts DEF Words
<1>4. bbOffsets' = [b \in DOMAIN bbOffsets \cup {eb - 1} |->
                      IF b = eb - 1 THEN Len(buf) ELSE bbOffsets[b]]
  BY <1>2 DEF EmitLabel
<1>5. /\ DOMAIN bbOffsets = {t \in Nat : Opened(t)} /\ ~ Opened(eb - 1)
      /\ \A t \in DOMAIN bbOffsets : Begins(bbOffsets[t], t)
      /\ \A v \in DOMAIN buf : Opened(buf[v].bb)
  BY <1>1 DEF LabelInv, Opened
<1>6. DOMAIN bbOffsets' = {t \in Nat : Opened(t)'}
  BY <1>1, <1>2, <1>4, <1>5
<1>7. ASSUME NEW t \in DOMAIN bbOffsets' PROVE Begins(bbOffsets[t], t)'
  <2>1. CASE t = eb - 1
    <3>1. bbOffsets'[t] = Len(buf)
      BY <1>4, <2>1
    <3>2. \A v \in DOMAIN buf : v <= Len(buf) /\ buf[v].bb < t
      BY <1>1, <1>2, <1>3, <1>5, <2>1 DEF Opened
    <3>3. Len(buf) \in 0 .. Len(buf)
      BY <1>3
    <3> QED
      BY <1>1, <3>1, <3>2, <3>3 DEF Begins
  <2>2. CASE t # eb - 1
    <3>1. t \in DOMAIN bbOffsets /\ bbOffsets'[t] = bbOffsets[t]
      BY <1>4, <2>2
    <3> QED
      BY <1>1, <1>5, <3>1 DEF Begins
  <2> QED
    BY <2>1, <2>2
<1>8. EmitTypeOK'
  <2>1. \A t \in DOMAIN bbOffsets' : bbOffsets'[t] \in 0 .. Len(buf')
    BY <1>7 DEF Begins
  <2>2. DOMAIN bbOffsets' \subseteq Nat
    BY <1>6
  <2> QED
    BY <1>1, <2>1, <2>2 DEF EmitTypeOK
<1>9. PlaceInv'
  BY <1>1 DEF PlaceInv
<1>10. LabelInv'
  <2>1. (\A v \in DOMAIN buf : Opened(buf[v].bb))'
    BY <1>1, <1>3, <1>5
  <2> QED
    BY <1>6, <1>7, <2>1 DEF LabelInv
<1>11. RelocationInv'
  <2>1. \A r \in DOMAIN relocations : OfItsWord(r) /\ ~ (r < reloc)
    BY <1>1, <1>3 DEF RelocationInv
  <2>2. ASSUME NEW r \in DOMAIN relocations PROVE OfItsWord(r)'
    BY <1>1, <2>1 DEF OfItsWord
  <2> QED
    BY <1>1, <2>2 DEF RelocationInv
<1> QED
  BY <1>8, <1>9, <1>10, <1>11

(* The reach of a relocation is a positive number of words.                *)
LEMMA ReachFacts ==
  ASSUME machine \in Targets
  PROVE  \A kind : Reach(kind) \in Nat \ {0}
BY ReachAssumption DEF Reach

(* Resolving a relocation patches the field of its word and nothing else;  *)
(* a relocation of the same word that was resolved before agrees.          *)
LEMMA ResolveStep ==
  ASSUME Shape, EmitInv, Resolve
  PROVE  EmitInv'
<1> USE DEF EmitInv, lvars
<1> DEFINE q == relocations[reloc]
           p == q.offset + 1
           f == Field(Distance(q), q.kind)
<1>1. /\ buf \in Seq(Words) /\ Len(buf) \in Nat /\ DOMAIN buf = 1 .. Len(buf)
      /\ \A v \in 1 .. Len(buf) : buf[v] \in Words
      /\ Len(relocations) \in Nat /\ DOMAIN relocations = 1 .. Len(relocations)
      /\ \A r \in 1 .. Len(relocations) :
           /\ relocations[r] \in Relocations /\ relocations[r].offset + 1 \in 1 .. Len(buf)
  BY EmitTypeFacts DEF EmitTypeOK
<1>2. /\ reloc \in 1 .. Len(relocations) /\ reloc' = reloc + 1 /\ Encodable(q)
      /\ emission = "emitting" /\ eb > Len(blocks) /\ relocations' = relocations
      /\ UNCHANGED <<emission, stage, machine, blocks, eb, en, bbOffsets>>
  BY <1>1 DEF Resolve, Finalizing, EmitTypeOK
<1>3. f \in Nat
  <2>1. Reach(q.kind) \in Nat \ {0}
    BY ReachFacts DEF EmitTypeOK
  <2>2. Distance(q) \in - Reach(q.kind) .. Reach(q.kind) - 1
    BY <1>2 DEF Encodable
  <2> QED
    BY <2>1, <2>2, FieldKeepsDistance
<1>4. p \in 1 .. Len(buf) /\ q \in Relocations
  BY <1>1, <1>2
<1>5. buf' = [buf EXCEPT ![p] = [buf[p] EXCEPT !.imm = f]]
  BY DEF Resolve
<1>6. [buf[p] EXCEPT !.imm = f] \in Words
  BY <1>1, <1>3, <1>4 DEF Words
<1> HIDE DEF f, p, q
<1>7. /\ buf' \in Seq(Words) /\ Len(buf') = Len(buf) /\ DOMAIN buf' = DOMAIN buf
      /\ \A v \in 1 .. Len(buf) : v # p => buf'[v] = buf[v]
      /\ buf'[p] = [buf[p] EXCEPT !.imm = f]
  <2> DEFINE e == [buf[p] EXCEPT !.imm = f]
  <2>1. e \in Words /\ buf' = [buf EXCEPT ![p] = e]
    BY <1>5, <1>6
  <2> HIDE DEF e
  <2>2. /\ buf' \in Seq(Words) /\ Len(buf') = Len(buf)
        /\ \A v \in 1 .. Len(buf) : buf'[v] = IF v = p THEN e ELSE buf[v]
    BY <2>1, <1>1, <1>4, ExceptSeq
  <2>3. DOMAIN buf' = DOMAIN buf
    BY <2>1
  <2> QED
    BY <2>2, <2>3, <1>4 DEF e
<1>8. /\ \A v \in 1 .. Len(buf) : /\ buf'[v].kind = buf[v].kind /\ buf'[v].to = buf[v].to
                                 /\ buf'[v].bb = buf[v].bb
      /\ buf'[p].imm = f
  <2>1. /\ buf'[p].kind = buf[p].kind /\ buf'[p].to = buf[p].to /\ buf'[p].bb = buf[p].bb
        /\ buf'[p].imm = f
    BY <1>1, <1>4, <1>7 DEF Words
  <2> QED
    BY <1>7, <2>1
<1>9. EmitTypeOK'
  BY <1>1, <1>2, <1>7, SMTT(20) DEF EmitTypeOK
<1>10. PlaceInv'
  <2>1. ~ (eb <= Len(blocks))
    BY <1>2 DEF Shape, EmitTypeOK
  <2> QED
    BY <1>2, <2>1 DEF PlaceInv
<1>11. LabelInv'
  BY <1>1, <1>2, <1>7, <1>8 DEF LabelInv, Opened, Begins
<1>12. RelocationInv'
  <2>1. ASSUME NEW r \in 1 .. Len(relocations) PROVE OfItsWord(r)'
    <3> DEFINE s == relocations[r]
               o == s.offset + 1
    <3>1. /\ o \in 1 .. Len(buf) /\ RelocKind(buf[o].kind) = s.kind /\ buf[o].to = s.target
          /\ s.target \in 0 .. Len(blocks) - 1
          /\ r < reloc => Encodable(s) /\ buf[o].imm = Field(Distance(s), s.kind)
      BY <1>1 DEF RelocationInv, OfItsWord
    <3>2. RelocKind(buf[p].kind) = q.kind /\ buf[p].to = q.target
      BY <1>1, <1>2 DEF RelocationInv, OfItsWord, p, q
    <3>3. ASSUME r < reloc + 1
          PROVE  Encodable(s) /\ buf'[o].imm = Field(Distance(s), s.kind)
      <4>1. CASE r = reloc
        <5>1. s = q /\ o = p
          BY <4>1 DEF p, q
        <5> QED
          BY <5>1, <1>2, <1>8 DEF f
      <4>2. CASE r # reloc /\ o # p
        BY <4>2, <1>2, <1>7, <3>1, <3>3
      <4>3. CASE r # reloc /\ o = p
        <5>1. s.kind = q.kind /\ s.target = q.target /\ s.offset = q.offset
          BY <4>3, <1>1, <1>4, <3>1, <3>2 DEF p, Relocations
        <5>2. Distance(s) = Distance(q)
          BY <5>1 DEF Distance
        <5> QED
          BY <4>3, <5>1, <5>2, <1>2, <1>8, <3>1, <3>3 DEF f
      <4> QED
        BY <4>1, <4>2, <4>3
    <3>4. Encodable(s) => Encodable(s)'
      BY <1>2 DEF Encodable, Distance, Reach
    <3>5. (Field(Distance(s), s.kind))' = Field(Distance(s), s.kind)
      BY <1>2 DEF Field, Distance, Reach
    <3> QED
      BY <1>2, <1>8, <3>1, <3>3, <3>4, <3>5 DEF OfItsWord
  <2>2. ASSUME NEW v \in 1 .. Len(buf), buf'[v].kind # "plain"
        PROVE  \E r \in 1 .. Len(relocations) : relocations[r].offset = v - 1
    BY <2>2, <1>1, <1>8 DEF RelocationInv
  <2> QED
    BY <1>1, <1>2, <1>7, <2>1, <2>2 DEF RelocationInv
<1> QED
  BY <1>9, <1>10, <1>11, <1>12

(* Nothing the invariant speaks of moves, except the stage of emission.    *)
LEMMA EmitFrame ==
  ASSUME EmitInv, UNCHANGED <<machine, eb, en, buf, bbOffsets, relocations, reloc>>,
         blocks' = blocks, emission' \in {"waiting", "emitting", "done", "refused"}
  PROVE  EmitTypeOK' /\ LabelInv' /\ RelocationInv'
<1> USE DEF EmitInv
<1>1. EmitTypeOK'
  BY DEF EmitTypeOK
<1>2. LabelInv'
  BY DEF LabelInv, Opened, Begins
<1>3. \A r \in DOMAIN relocations : OfItsWord(r) => OfItsWord(r)'
  BY DEF OfItsWord, Encodable, Field, Distance, Reach
<1>4. RelocationInv'
  BY <1>3 DEF RelocationInv
<1> QED
  BY <1>1, <1>2, <1>4

(* The invariant holds before the first word,                              *)
LEMMA EmitStart == EmitInit => EmitInv
<1> SUFFICES ASSUME EmitInit PROVE EmitInv
  OBVIOUS
<1>1. /\ emission = "waiting" /\ machine = "aarch64" /\ eb = 1 /\ en = 0
      /\ buf = <<>> /\ bbOffsets = <<>> /\ relocations = <<>> /\ reloc = 1 /\ blocks = <<>>
  BY DEF EmitInit, LowerInit
<1>2. EmitTypeOK
  <2>1. relocations \in Seq([offset : 0 .. Len(buf) - 1, target : Nat, kind : {"cond", "jump"}])
    BY <1>1, EmptySeq
  <2>2. buf \in Seq(Words) /\ Len(blocks) = 0 /\ Len(relocations) = 0
    BY <1>1, EmptySeq
  <2>3. DOMAIN bbOffsets = {}
    BY <1>1
  <2> QED
    BY <1>1, <2>1, <2>2, <2>3 DEF EmitTypeOK, Targets
<1>3. PlaceInv
  BY <1>1 DEF PlaceInv
<1>4. LabelInv
  <2>1. \A t \in Nat : ~ Opened(t)
    BY <1>1 DEF Opened
  <2>2. DOMAIN bbOffsets = {} /\ DOMAIN buf = {}
    BY <1>1
  <2> QED
    BY <2>1, <2>2 DEF LabelInv
<1>5. RelocationInv
  BY <1>1 DEF RelocationInv
<1> QED
  BY <1>2, <1>3, <1>4, <1>5 DEF EmitInv

(* every step of an emitter keeps it,                                      *)
LEMMA EmitStep ==
  StructInv /\ LowerInv /\ EmitInv /\ [EmitNext]_emitVars => (StructInv /\ LowerInv /\ EmitInv)'
<1> SUFFICES ASSUME StructInv, LowerInv, EmitInv, [EmitNext]_emitVars
             PROVE  (StructInv /\ LowerInv /\ EmitInv)'
  OBVIOUS
<1> USE DEF lvars
<1>1. [LowerNext]_lowerVars
  BY DEF EmitNext, emitVars, lowerVars, StartEmission, EmitLabel, EmitStraight, EmitBranch, EmitJump,
    Resolve, RelocationOutOfRange, ReturnCode
<1>2. StructInv' /\ LowerInv'
  BY <1>1, LowerStep
<1>3. Shape
  BY LoweredShape
<1>4. CASE LowerNext /\ UNCHANGED cvars
  <2>1. stage # "lowered"
    BY <1>4, WaitsForVerdict DEF LowerNext, FindLeaders, LowerLeader, LowerInBlock, Flush
  <2>2. /\ emission = "waiting" /\ eb = 1 /\ en = 0 /\ buf = <<>> /\ DOMAIN bbOffsets = {}
        /\ relocations = <<>> /\ reloc = 1 /\ UNCHANGED cvars
    BY <1>4, <2>1 DEF EmitInv, PlaceInv
  <2>3. Len(blocks') \in Nat
    <3> DEFINE B == [id : Nat, nodes : Seq(IrNodes) \ {<<>>}]
    <3>1. blocks' \in Seq(B')
      BY <1>2 DEF LowerInv, LoweringTypeOK
    <3> HIDE DEF B
    <3> QED BY <3>1
  <2>4. EmitTypeOK'
    BY <2>2, <2>3 DEF EmitInv, EmitTypeOK, cvars
  <2>5. PlaceInv' /\ LabelInv'
    BY <2>2 DEF EmitInv, PlaceInv, LabelInv, Opened, cvars
  <2>6. RelocationInv'
    BY <2>2 DEF RelocationInv, cvars
  <2> QED
    BY <1>2, <2>4, <2>5, <2>6 DEF EmitInv
<1>5. CASE StartEmission
  <2>1. /\ emission = "waiting" /\ stage = "lowered" /\ emission' = "emitting" /\ machine' \in Targets
        /\ eb = 1 /\ en = 0 /\ buf = <<>> /\ DOMAIN bbOffsets = {} /\ relocations = <<>> /\ reloc = 1
        /\ UNCHANGED <<stage, blocks, eb, en, buf, bbOffsets, relocations, reloc>>
    BY <1>5 DEF StartEmission, EmitInv, PlaceInv
  <2>2. EmitTypeOK'
    BY <2>1 DEF EmitInv, EmitTypeOK
  <2>3. PlaceInv'
    <3>1. eb <= Len(blocks) => Len(blocks[eb].nodes) \in Nat
      BY <1>3, <2>1 DEF Shape
    <3> QED
      BY <2>1, <3>1 DEF PlaceInv
  <2>4. LabelInv'
    BY <2>1 DEF EmitInv, LabelInv, Opened
  <2>5. RelocationInv'
    BY <2>1 DEF RelocationInv
  <2> QED
    BY <1>2, <2>2, <2>3, <2>4, <2>5 DEF EmitInv
<1>6. CASE EmitLabel
  BY <1>2, <1>3, <1>6, LabelStep
<1>7. CASE EmitStraight \/ EmitBranch \/ EmitJump
  <2>1. PICK n \in Nat, w \in [kind : WordKinds, imm : Nat, to : Nat] :
          /\ w.kind # "plain" => n > 0 /\ w.to \in 0 .. Len(blocks) - 1
          /\ AddsWords(n, w)
    BY <1>3, <1>7, NodeStep
  <2>2. w.kind \in WordKinds /\ w.imm \in Nat /\ w.to \in Nat
    OBVIOUS
  <2> QED
    BY <1>2, <1>3, <2>1, <2>2, AddsWordsStep
<1>8. CASE Resolve
  BY <1>2, <1>3, <1>8, ResolveStep
<1>9. CASE RelocationOutOfRange
  <2>1. /\ emission = "emitting" /\ eb > Len(blocks) /\ reloc <= Len(relocations)
        /\ ~ Encodable(relocations[reloc]) /\ emission' = "refused"
        /\ UNCHANGED <<stage, blocks, machine, eb, en, buf, bbOffsets, relocations, reloc>>
    BY <1>9 DEF RelocationOutOfRange, Finalizing
  <2>2. EmitTypeOK' /\ LabelInv' /\ RelocationInv'
    BY <2>1, EmitFrame
  <2>3. ~ Encodable(relocations[reloc])'
    BY <2>1 DEF Encodable, Distance, Reach
  <2>4. eb' > Len(blocks') /\ ~ (eb' <= Len(blocks'))
    BY <1>3, <2>1 DEF Shape, EmitInv, EmitTypeOK
  <2>5. PlaceInv'
    BY <2>1, <2>3, <2>4 DEF EmitInv, PlaceInv
  <2> QED
    BY <1>2, <2>2, <2>5 DEF EmitInv
<1>10. CASE ReturnCode
  <2>1. /\ emission = "emitting" /\ eb > Len(blocks) /\ reloc > Len(relocations) /\ emission' = "done"
        /\ UNCHANGED <<stage, blocks, machine, eb, en, buf, bbOffsets, relocations, reloc>>
    BY <1>10 DEF ReturnCode, Finalizing
  <2>2. EmitTypeOK' /\ LabelInv' /\ RelocationInv'
    BY <2>1, EmitFrame
  <2>3. eb' > Len(blocks') /\ ~ (eb' <= Len(blocks'))
    BY <1>3, <2>1 DEF Shape, EmitInv, EmitTypeOK
  <2>4. PlaceInv'
    BY <2>1, <2>3 DEF EmitInv, PlaceInv
  <2> QED
    BY <1>2, <2>2, <2>4 DEF EmitInv
<1>11. CASE UNCHANGED emitVars
  <2>1. UNCHANGED <<emission, stage, blocks, machine, eb, en, buf, bbOffsets, relocations, reloc>>
    BY <1>11 DEF emitVars, cvars
  <2>2. EmitTypeOK' /\ LabelInv' /\ RelocationInv'
    BY <2>1, EmitFrame DEF EmitInv, EmitTypeOK
  <2>3. Encodable(relocations[reloc])' = Encodable(relocations[reloc])
    BY <2>1 DEF Encodable, Distance, Reach
  <2>4. PlaceInv'
    BY <2>1, <2>3 DEF EmitInv, PlaceInv
  <2> QED
    BY <1>2, <2>2, <2>4 DEF EmitInv
<1> QED
  BY <1>4, <1>5, <1>6, <1>7, <1>8, <1>9, <1>10, <1>11 DEF EmitNext

(* so it always holds.                                                     *)
LEMMA EmitInvariant == EmitSpec => [](StructInv /\ LowerInv /\ EmitInv)
<1>1. EmitInit => StructInv /\ LowerInv /\ EmitInv
  BY EmitStart, LowerStart DEF EmitInit
<1> QED
  BY <1>1, EmitStep, PTL DEF EmitSpec, emitVars

----------------------------------------------------------------------------
(* The dry run.                                                            *)

(* There are finitely many nodes to pay for the words.                     *)
LEMMA NodesFinite ==
  ASSUME Shape
  PROVE  IsFiniteSet(NodeIds)
<1> DEFINE L == Len(blocks)
           S(k) == {<<k, n>> : n \in DOMAIN blocks[k].nodes}
           T == {S(k) : k \in 1 .. L}
           g == [k \in 1 .. L |-> S(k)]
<1>1. L \in Nat /\ NodeIds = UNION T
  BY DEF Shape, NodeIds
<1>2. ASSUME NEW k \in 1 .. L PROVE IsFiniteSet(S(k))
  <2> DEFINE m == Len(blocks[k].nodes)
  <2>1. m \in Nat /\ S(k) = {k} \X (1 .. m)
    BY DEF Shape
  <2> HIDE DEF m
  <2>2. IsFiniteSet({k}) /\ IsFiniteSet(1 .. m)
    <3>1. 1 \in Int /\ m \in Int
      BY <2>1
    <3>2. IsFiniteSet(1 .. m)
      BY <3>1, FS_Interval
    <3> QED
      BY <3>2, FS_Singleton
  <2>3. IsFiniteSet({k} \X (1 .. m))
    BY <2>2, FS_Product
  <2> QED
    BY <2>1, <2>3
<1>3. g \in Surjection(1 .. L, T)
  BY DEF Surjection
<1>4. IsFiniteSet(1 .. L)
  <2> HIDE DEF L
  <2> QED BY <1>1, FS_Interval
<1>5. \A U \in T : IsFiniteSet(U)
  BY <1>2
<1> HIDE DEF g, T, L
<1>6. IsFiniteSet(T)
  BY <1>3, <1>4, FS_Surjection
<1>7. IsFiniteSet(UNION T)
  BY <1>5, <1>6, FS_UNION
<1> QED
  BY <1>1, <1>7

(* Emitting a label pays for nothing, emitting a node for one node.        *)
LEMMA EmittedFacts ==
  ASSUME Shape, EmitTypeOK, PlaceInv, Emitting, AdvanceEmission, blocks' = blocks
  PROVE  IF en = 0 THEN Emitted' = Emitted
         ELSE Emitted' = Emitted \cup {<<eb, en>>} /\ <<eb, en>> \notin Emitted
<1>1. /\ eb \in 1 .. Len(blocks) /\ en \in 0 .. Len(blocks[eb].nodes) /\ Len(blocks) \in Nat
      /\ \A k \in 1 .. Len(blocks) : /\ DOMAIN blocks[k].nodes = 1 .. Len(blocks[k].nodes)
                                    /\ Len(blocks[k].nodes) \in Nat \ {0}
  BY CursorFacts DEF Shape
<1>2. \A x \in NodeIds : /\ x = <<x[1], x[2]>> /\ x[1] \in 1 .. Len(blocks)
                        /\ x[2] \in 1 .. Len(blocks[x[1]].nodes)
  BY <1>1 DEF NodeIds, Shape
<1>3. NodeIds' = NodeIds
  BY DEF NodeIds
<1>4. en # 0 => <<eb, en>> \in NodeIds
  BY <1>1 DEF NodeIds, Shape
<1>5. <<eb, en>> \notin Emitted
  BY <1>1 DEF Emitted
<1>6. ASSUME NEW x \in NodeIds
      PROVE  (x[1] < eb' \/ (x[1] = eb' /\ x[2] < en')) <=>
               (x[1] < eb \/ (x[1] = eb /\ x[2] < en)) \/ (en # 0 /\ x = <<eb, en>>)
  <2>1. x = <<eb, en>> <=> x[1] = eb /\ x[2] = en
    BY <1>2
  <2>2. x[1] \in Nat /\ x[2] \in Nat /\ x[2] > 0 /\ (x[1] = eb => x[2] <= Len(blocks[eb].nodes))
    BY <1>1, <1>2
  <2>3. CASE en < Len(blocks[eb].nodes)
    <3>1. eb' = eb /\ en' = en + 1
      BY <2>3 DEF AdvanceEmission
    <3> QED
      BY <1>1, <2>1, <2>2, <3>1
  <2>4. CASE ~ (en < Len(blocks[eb].nodes))
    <3>1. eb' = eb + 1 /\ en' = 0 /\ en = Len(blocks[eb].nodes)
      BY <1>1, <2>4 DEF AdvanceEmission
    <3>2. en > 0
      BY <1>1, <3>1
    <3> QED
      BY <1>1, <2>1, <2>2, <3>1, <3>2
  <2> QED
    BY <2>3, <2>4
<1>7. Emitted' = {x \in NodeIds : (x[1] < eb \/ (x[1] = eb /\ x[2] < en)) \/ (en # 0 /\ x = <<eb, en>>)}
  BY <1>3, <1>6 DEF Emitted
<1> QED
  BY <1>4, <1>5, <1>7 DEF Emitted

(* Emitted moves with the cursor only.                                     *)
LEMMA SizeFrame ==
  ASSUME SizeInv, UNCHANGED <<machine, buf>>, Emitted' = Emitted, emission # "waiting"
  PROVE  SizeInv'
BY DEF SizeInv

(* Every word a step emits is paid for by its node.                        *)
LEMMA SizeStep ==
  StructInv /\ LowerInv /\ EmitInv /\ SizeInv /\ [EmitNext]_emitVars => SizeInv'
<1> SUFFICES ASSUME StructInv, LowerInv, EmitInv, SizeInv, [EmitNext]_emitVars PROVE SizeInv'
  OBVIOUS
<1> USE DEF lvars
<1>1. Shape
  BY LoweredShape
<1>2. /\ EmitTypeOK /\ PlaceInv /\ machine \in Targets /\ Len(buf) \in Nat
  BY EmitTypeFacts DEF EmitInv, EmitTypeOK
<1>3. IsFiniteSet(Emitted) /\ Cardinality(Emitted) \in Nat
  <2>1. Emitted \in SUBSET NodeIds
    BY DEF Emitted
  <2>2. IsFiniteSet(Emitted)
    BY <1>1, <2>1, NodesFinite, FS_Subset
  <2> QED
    BY <2>2, FS_CardinalityType
<1>4. CASE LowerNext /\ UNCHANGED cvars
  <2>1. stage # "lowered"
    BY <1>4, WaitsForVerdict DEF LowerNext, FindLeaders, LowerLeader, LowerInBlock, Flush
  <2>2. emission' = "waiting"
    BY <1>2, <1>4, <2>1 DEF PlaceInv, cvars
  <2> QED
    BY <2>2 DEF SizeInv
<1>5. CASE StartEmission
  <2>1. eb = 1 /\ en = 0 /\ Len(buf) = 0 /\ machine' \in Targets /\ UNCHANGED <<blocks, buf, eb, en>>
    BY <1>2, <1>5 DEF StartEmission, PlaceInv
  <2>2. Emitted' = {}
    BY <1>1, <2>1 DEF Emitted, NodeIds, Shape
  <2>3. Cardinality(Emitted') = 0
    BY <2>2, FS_EmptySet
  <2>4. Len(buf') = 0 /\ MAX_EXPANSION_RATIO[machine'] \in Nat
    BY <2>1 DEF Targets, MAX_EXPANSION_RATIO
  <2> QED
    BY <2>3, <2>4 DEF SizeInv
<1>6. CASE EmitLabel
  <2>1. Emitted' = Emitted /\ emission # "waiting" /\ UNCHANGED <<machine, buf>>
    BY <1>1, <1>2, <1>6, EmittedFacts DEF EmitLabel, Emitting
  <2> QED
    BY <2>1, SizeFrame
<1>7. CASE EmitStraight \/ EmitBranch \/ EmitJump
  <2>1. PICK n \in Nat, w \in [kind : WordKinds, imm : Nat, to : Nat] :
          n <= MAX_EXPANSION_RATIO[machine] /\ AddsWords(n, w)
    BY <1>1, <1>7, NodeStep
  <2>2. /\ emission = "emitting" /\ machine' = machine /\ blocks' = blocks
        /\ Emitted' = Emitted \cup {<<eb, en>>} /\ <<eb, en>> \notin Emitted
    BY <1>1, <1>2, <2>1, EmittedFacts DEF AddsWords, Emitting
  <2>3. Cardinality(Emitted') = Cardinality(Emitted) + 1
    BY <1>3, <2>2, FS_AddElement
  <2>4. Len(buf') = Len(buf) + n
    <3>1. eb \in 1 .. Len(blocks)
      BY <1>1, <1>2, <2>1, CursorFacts, <2>2 DEF AddsWords
    <3>2. blocks[eb].id \in Nat
      BY <1>1, <3>1 DEF Shape
    <3>3. w.kind \in WordKinds /\ w.imm \in Nat /\ w.to \in Nat /\ Emit(n, w)
      BY <2>1 DEF AddsWords
    <3> QED
      BY <1>2, <3>2, <3>3, EmitFacts
  <2>5. Len(buf) <= Cardinality(Emitted) * MAX_EXPANSION_RATIO[machine]
    BY <2>2 DEF SizeInv
  <2>6. MAX_EXPANSION_RATIO[machine] \in {8, 10}
    BY <1>2 DEF Targets, MAX_EXPANSION_RATIO
  <2>7. Len(buf) + n <= (Cardinality(Emitted) + 1) * MAX_EXPANSION_RATIO[machine]
    BY <1>2, <1>3, <2>1, <2>5, <2>6
  <2> QED
    BY <2>2, <2>3, <2>4, <2>7 DEF SizeInv
<1>8. CASE Resolve
  <2>1. Emitted' = Emitted /\ emission # "waiting" /\ machine' = machine
    BY <1>8 DEF Resolve, Finalizing, Emitted, NodeIds
  <2>2. Len(buf') = Len(buf)
    <3>1. DOMAIN buf' = DOMAIN buf
      BY <1>8 DEF Resolve
    <3>2. EmitTypeOK'
      BY <1>1, <1>8, ResolveStep DEF EmitInv
    <3>3. Len(buf') \in Nat /\ DOMAIN buf' = 1 .. Len(buf')
      BY <3>2 DEF EmitTypeOK
    <3>4. DOMAIN buf = 1 .. Len(buf)
      BY <1>2, EmitTypeFacts
    <3>5. \A a, b \in Nat : 1 .. a = 1 .. b => a = b
      OBVIOUS
    <3> QED
      BY <1>2, <3>1, <3>3, <3>4, <3>5
  <2> QED
    BY <2>1, <2>2 DEF SizeInv
<1>9. CASE RelocationOutOfRange \/ ReturnCode
  <2>1. Emitted' = Emitted /\ emission # "waiting" /\ UNCHANGED <<machine, buf>>
    BY <1>9 DEF RelocationOutOfRange, ReturnCode, Finalizing, Emitted, NodeIds
  <2> QED
    BY <2>1, SizeFrame
<1>10. CASE UNCHANGED emitVars
  BY <1>10 DEF emitVars, cvars, SizeInv, Emitted, NodeIds
<1> QED
  BY <1>4, <1>5, <1>6, <1>7, <1>8, <1>9, <1>10 DEF EmitNext

----------------------------------------------------------------------------
(* The offsets recorded while emitting are offsets of the buffer.          *)
THEOREM EmitterTypeCorrect == EmitSpec => []EmitTypeOK
<1>1. EmitInv => EmitTypeOK
  BY DEF EmitInv
<1> QED
  BY <1>1, EmitInvariant, PTL

(* Every branch of the finished code, a conditional Ja on RISC-V excepted, *)
(* lands on the beginning of the block it was emitted for.                 *)
THEOREM BranchesResolved == EmitSpec => []BranchesLandOnTheirBlock
<1>1. EmitInv => BranchesLandOnTheirBlock
  <2> SUFFICES ASSUME EmitInv, emission = "done", NEW v \in DOMAIN buf,
                      buf[v].kind \in {"cond", "jump"}
               PROVE  Begins(Landing(v), buf[v].to)
    BY DEF BranchesLandOnTheirBlock
  <2>1. PICK r \in DOMAIN relocations : relocations[r].offset = v - 1
    BY DEF EmitInv, RelocationInv
  <2> DEFINE q == relocations[r]
  <2>2. /\ v \in Nat /\ r \in Nat /\ r < reloc /\ machine \in Targets /\ q.offset + 1 = v
    BY <2>1, EmitTypeFacts, SMTT(20) DEF EmitInv, PlaceInv, EmitTypeOK
  <2>3. /\ buf[v].kind = q.kind /\ buf[v].to = q.target /\ Encodable(q)
        /\ buf[v].imm = Field(Distance(q), q.kind)
    BY <2>2 DEF EmitInv, RelocationInv, OfItsWord, RelocKind
  <2>4. SignExtended(buf[v].imm, buf[v].kind) = Distance(q)
    BY <2>2, <2>3, ReachFacts, FieldKeepsDistance DEF Encodable
  <2>5. q.target \in DOMAIN bbOffsets /\ bbOffsets[q.target] \in Nat
    BY <2>3, SMTT(20) DEF Encodable, EmitInv, EmitTypeOK
  <2>6. Landing(v) = bbOffsets[q.target]
    BY <2>1, <2>2, <2>4, <2>5 DEF Landing, Distance
  <2> QED
    BY <2>3, <2>5, <2>6 DEF EmitInv, LabelInv
<1> QED
  BY <1>1, EmitInvariant, PTL

(* A program is refused only if one of its branches is too far from the    *)
(* block it goes to.                                                       *)
THEOREM RefusalsJustified == EmitSpec => []RefusedOnlyOutOfReach
<1>1. StructInv /\ LowerInv /\ EmitInv => RefusedOnlyOutOfReach
  <2> SUFFICES ASSUME StructInv, LowerInv, EmitInv, emission = "refused"
               PROVE  \E v \in DOMAIN buf :
                        /\ buf[v].kind # "plain"
                        /\ \/ Before(buf[v].to) - (v - 1) < - Reach(buf[v].kind)
                           \/ Before(buf[v].to) - (v - 1) >= Reach(buf[v].kind)
    BY DEF RefusedOnlyOutOfReach
  <2> DEFINE q == relocations[reloc]
             v == q.offset + 1
             o == bbOffsets[q.target]
  <2>1. /\ Shape /\ stage = "lowered" /\ reloc \in 1 .. Len(relocations) /\ ~ Encodable(q)
        /\ eb > Len(blocks) /\ machine \in Targets /\ eb \in 1 .. Len(blocks) + 1
    BY LoweredShape, EmitTypeFacts DEF EmitInv, PlaceInv, EmitTypeOK
  <2>2. /\ q \in Relocations /\ v \in 1 .. Len(buf) /\ DOMAIN buf = 1 .. Len(buf)
        /\ DOMAIN relocations = 1 .. Len(relocations) /\ Len(buf) \in Nat
    BY <2>1, EmitTypeFacts DEF EmitInv
  <2>3. RelocKind(buf[v].kind) = q.kind /\ buf[v].to = q.target /\ q.target \in 0 .. Len(blocks) - 1
    BY <2>1, <2>2 DEF EmitInv, RelocationInv, OfItsWord
  <2>4. q.target \in DOMAIN bbOffsets
    BY <2>1, <2>3 DEF EmitInv, LabelInv, Opened, Shape
  <2>5. o \in 0 .. Len(buf) /\ \A u \in DOMAIN buf : u <= o <=> buf[u].bb < q.target
    BY <2>4 DEF EmitInv, LabelInv, Begins
  <2>6. Before(q.target) = o
    <3>1. {u \in DOMAIN buf : buf[u].bb < q.target} = 1 .. o
      BY <2>2, <2>5
    <3>2. o \in Nat
      BY <2>2, <2>5
    <3> HIDE DEF o
    <3>3. Cardinality(1 .. o) = IF 1 > o THEN 0 ELSE o - 1 + 1
      BY <3>2, FS_Interval
    <3>4. Cardinality(1 .. o) = o
      BY <3>2, <3>3
    <3> QED
      BY <3>1, <3>4 DEF Before
  <2>7. Reach(q.kind) \in Nat \ {0} /\ q.offset \in Nat /\ q.kind # "plain"
    BY <2>1, <2>2, ReachFacts DEF Relocations
  <2>8. o - q.offset < - Reach(q.kind) \/ o - q.offset >= Reach(q.kind)
    BY <2>1, <2>2, <2>4, <2>5, <2>7 DEF Encodable, Distance
  <2>9. v - 1 = q.offset /\ Reach(buf[v].kind) = Reach(q.kind) /\ buf[v].kind # "plain"
    BY <2>3, <2>7 DEF Reach, RelocKind
  <2> QED
    BY <2>2, <2>3, <2>6, <2>7, <2>8, <2>9
<1> QED
  BY <1>1, EmitInvariant, PTL

(* The dry run's size bounds the code at every moment.                     *)
THEOREM DryRunSufficient == EmitSpec => []DryRunBoundsCode
<1>1. EmitInit => SizeInv
  BY DEF EmitInit, SizeInv
<1>2. StructInv /\ LowerInv /\ EmitInv /\ SizeInv => DryRunBoundsCode
  <2> SUFFICES ASSUME StructInv, LowerInv, EmitInv, SizeInv, emission # "waiting"
               PROVE  Len(buf) <= CalculateSize
    BY DEF DryRunBoundsCode
  <2>1. Shape /\ machine \in Targets /\ Len(buf) \in Nat /\ Len(blocks) \in Nat
    BY LoweredShape, EmitTypeFacts DEF EmitInv, EmitTypeOK, Shape
  <2>2. Emitted \in SUBSET NodeIds /\ IsFiniteSet(NodeIds)
    BY <2>1, NodesFinite DEF Emitted
  <2>3. IsFiniteSet(Emitted) /\ Cardinality(Emitted) <= Cardinality(NodeIds)
    BY <2>2, FS_Subset
  <2>4. Cardinality(Emitted) \in Nat /\ Cardinality(NodeIds) \in Nat
    BY <2>2, <2>3, FS_CardinalityType
  <2>5. MAX_EXPANSION_RATIO[machine] \in {8, 10}
    BY <2>1 DEF Targets, MAX_EXPANSION_RATIO
  <2>6. Len(buf) <= Cardinality(Emitted) * MAX_EXPANSION_RATIO[machine]
    BY DEF SizeInv
  <2> QED
    BY <2>1, <2>3, <2>4, <2>5, <2>6 DEF CalculateSize
<1>3. EmitSpec => []SizeInv
  BY <1>1, SizeStep, EmitInvariant, PTL DEF EmitSpec, emitVars
<1> QED
  BY <1>2, <1>3, EmitInvariant, PTL
=============================================================================

-------------------------- MODULE ExecBufferProofs --------------------------
(***************************************************************************)
(* Proofs about the executable buffer, for any number of threads, any set  *)
(* of codes and any sizes.                                                 *)
(***************************************************************************)
EXTENDS ExecBuffer, TLAPS

(* Rounding up to the page does not exceed a maximum made of whole pages.  *)
LEMMA RoundedUpFits ==
  ASSUME NEW n \in Nat, n <= MAX_JIT_BUFFER_SIZE
  PROVE  RoundedUp(n) \in 0 .. MAX_JIT_BUFFER_SIZE
<1> DEFINE G == GUARD_PAGE_SIZE
           M == MAX_JIT_BUFFER_SIZE
           q == M \div G
           k == (n + G - 1) \div G
<1>1. G \in Nat \ {0} /\ M \in Nat /\ M % G = 0 /\ n <= M
  BY BufferAssumption
<1>2. RoundedUp(n) = k * G
  BY DEF RoundedUp
<1> HIDE DEF G, M
<1>3. q \in Nat /\ M = q * G
  BY <1>1
<1>4. k \in Nat /\ k * G <= n + G - 1
  BY <1>1
<1> HIDE DEF q, k
<1>5. k * G < (q + 1) * G
  BY <1>1, <1>3, <1>4
<1>6. k < q + 1
  BY <1>1, <1>3, <1>4, <1>5
<1>7. k * G <= q * G
  BY <1>1, <1>3, <1>4, <1>6
<1>8. k * G \in Nat
  BY <1>1, <1>4
<1> QED
  BY <1>1, <1>2, <1>3, <1>7, <1>8 DEF M

----------------------------------------------------------------------------
(* The invariant.                                                          *)

Words == {Zero} \cup {WordOf(c, o) : c \in Codes, o \in Offsets}

(* Memory and caches hold words of codes.                                  *)
MemoryTyped ==
  /\ ram \in [Offsets -> Words]
  /\ icache \in [Threads -> [Offsets -> Words \cup {Absent}]]

(* What is being written, and what was written last, fit the mapping.      *)
WritesFit ==
  /\ wstep # "none" => writing \in Codes /\ Length[writing] <= size
  /\ installed # Nothing => installed \in Codes /\ code_len = Length[installed]
                              /\ code_len <= size

(* The words of code c below its length: in memory, and in caches that     *)
(* hold them at all.                                                       *)
InMemory(c) == \A o \in Offsets : o < Length[c] => ram[o] = WordOf(c, o)
InCaches(c) ==
  \A t \in Threads, o \in Offsets : o < Length[c] => icache[t][o] \in {Absent, WordOf(c, o)}

(* How far the write in progress has come, and what the last one left.     *)
WriteProgress ==
  /\ wstep = "copy" => \A o \in Offsets : o \in copied => ram[o] = WordOf(writing, o)
  /\ wstep \in {"flush", "protect"} => InMemory(writing)
  /\ wstep = "protect" => InCaches(writing)
  /\ wstep = "none" /\ installed # Nothing => InMemory(installed) /\ InCaches(installed)

(* A call no write has touched runs while none is in progress, inside the  *)
(* code.                                                                   *)
CleanCalls ==
  \A t \in Threads :
    clean[t] /\ running[t] # Idle =>
      /\ wstep = "none" /\ installed # Nothing
      /\ installed \notin FallsOff => running[t] < code_len

(* The write-protect states; the owner does not call while it writes.      *)
Modes ==
  /\ wstep # "none" => running[Owner] = Idle
  /\ platform = "macos" =>
       \A t \in Threads :
         mode[t] = IF t = Owner /\ wstep # "none" THEN "write" ELSE "exec"

(* Before there is a mapping nothing is written.                           *)
Unmapped == life \in {"none", "failed"} => wstep = "none" /\ installed = Nothing

BufferInv ==
  BufferTypeOK /\ Unmapped /\ MemoryTyped /\ WritesFit /\ WriteProgress /\ CleanCalls /\ Modes

(* The invariant holds of a new buffer,                                    *)
LEMMA BufferInitInv == BufferInit => BufferInv
<1> SUFFICES ASSUME BufferInit PROVE BufferInv
  OBVIOUS
<1>1. BufferTypeOK
  BY BufferAssumption DEF BufferInit, BufferTypeOK, Idle
<1>2. MemoryTyped
  BY DEF BufferInit, MemoryTyped, Words
<1>3. Unmapped /\ WritesFit /\ WriteProgress /\ CleanCalls /\ Modes
  BY DEF BufferInit, Unmapped, WritesFit, WriteProgress, CleanCalls, Modes, Idle
<1> QED
  BY <1>1, <1>2, <1>3 DEF BufferInv

(* Steps that touch neither memory, caches nor a write in progress.        *)
LEMMA NewKeepsInv == BufferInv /\ New => BufferInv'
<1> SUFFICES ASSUME BufferInv, New PROVE BufferInv'
  OBVIOUS
<1>1. size' \in 0 .. MAX_JIT_BUFFER_SIZE /\ life' \in {"mapped", "failed"} /\ life = "none"
  <2>1. PICK c \in Codes :
          IF Length[c] > MAX_JIT_BUFFER_SIZE \/ RoundedUp(Length[c]) = 0
          THEN life' = "failed" /\ UNCHANGED size
          ELSE life' = "mapped" /\ size' = RoundedUp(Length[c])
    BY DEF New
  <2>2. Length[c] \in Nat /\ MAX_JIT_BUFFER_SIZE \in Nat /\ size \in 0 .. MAX_JIT_BUFFER_SIZE
    BY BufferAssumption DEF BufferInv, BufferTypeOK
  <2>3. CASE Length[c] > MAX_JIT_BUFFER_SIZE \/ RoundedUp(Length[c]) = 0
    BY <2>1, <2>2, <2>3 DEF New
  <2>4. CASE ~ (Length[c] > MAX_JIT_BUFFER_SIZE \/ RoundedUp(Length[c]) = 0)
    <3>1. Length[c] <= MAX_JIT_BUFFER_SIZE
      BY <2>2, <2>4
    <3> QED BY <2>1, <2>2, <2>4, <3>1, RoundedUpFits DEF New
  <2> QED BY <2>3, <2>4
<1>2. UNCHANGED <<platform, code_len, ram, icache, mode, wstep, writing, copied,
                  running, clean, installed>>
  BY DEF New
<1>3. wstep = "none" /\ installed = Nothing
  BY <1>1 DEF BufferInv, Unmapped
<1>4. BufferTypeOK' /\ Unmapped'
  BY <1>1, <1>2 DEF BufferInv, BufferTypeOK, Unmapped
<1>5. MemoryTyped' /\ WriteProgress' /\ CleanCalls' /\ Modes'
  BY <1>2 DEF BufferInv, MemoryTyped, WriteProgress, InMemory, InCaches, CleanCalls, Modes
<1>6. WritesFit'
  BY <1>2, <1>3 DEF WritesFit
<1> QED
  BY <1>4, <1>5, <1>6 DEF BufferInv

(* set_writable leaves every other thread's state alone.                   *)
LEMMA SetWritable ==
  ASSUME BufferTypeOK, NEW w \in BOOLEAN, set_writable(w), platform = "macos"
  PROVE  \A t \in Threads :
           mode'[t] = IF t = Owner THEN (IF w THEN "write" ELSE "exec") ELSE mode[t]
BY BufferAssumption DEF BufferTypeOK, set_writable

(* The modes after a switch are modes.                                     *)
LEMMA SetWritableType ==
  ASSUME BufferTypeOK, NEW w \in BOOLEAN, set_writable(w)
  PROVE  mode' \in [Threads -> {"exec", "write"}]
BY BufferAssumption DEF BufferTypeOK, set_writable

(* and each step of the writer,                                            *)
LEMMA BeginWriteKeepsInv == BufferInv /\ BeginWrite => BufferInv'
<1> SUFFICES ASSUME BufferInv, BeginWrite PROVE BufferInv'
  OBVIOUS
<1>1. /\ UNCHANGED <<platform, life, size, code_len, ram, icache, running, installed>>
      /\ wstep = "none" /\ wstep' = "copy" /\ copied' = {} /\ life = "mapped"
      /\ writing' \in Codes /\ Length[writing'] <= size /\ running[Owner] = Idle
      /\ clean' = [t \in Threads |-> FALSE] /\ set_writable(TRUE)
  BY DEF BeginWrite, Fits
<1>2. BufferTypeOK' /\ Unmapped' /\ MemoryTyped'
  <2>1. mode' \in [Threads -> {"exec", "write"}]
    BY <1>1, SetWritableType DEF BufferInv
  <2> QED BY <1>1, <2>1 DEF BufferInv, BufferTypeOK, Unmapped, MemoryTyped
<1>3. WritesFit' /\ WriteProgress' /\ CleanCalls'
  BY <1>1 DEF BufferInv, WritesFit, WriteProgress, CleanCalls
<1>4. Modes'
  <2>1. ASSUME platform = "macos", NEW t \in Threads
        PROVE  mode'[t] = IF t = Owner THEN "write" ELSE "exec"
    BY <1>1, <2>1, SetWritable DEF BufferInv, Modes
  <2> QED BY <1>1, <2>1 DEF Modes
<1> QED
  BY <1>2, <1>3, <1>4 DEF BufferInv

(* the copy of a word,                                                     *)
LEMMA CopyWordKeepsInv == BufferInv /\ CopyWord => BufferInv'
<1> SUFFICES ASSUME BufferInv, CopyWord PROVE BufferInv'
  OBVIOUS
<1>1. PICK o \in 0 .. Length[writing] - 1 :
        /\ ram' = [ram EXCEPT ![o] = WordOf(writing, o)]
        /\ copied' = copied \cup {o}
  BY DEF CopyWord
<1>2. /\ UNCHANGED <<platform, life, size, code_len, icache, mode, wstep, writing,
                     running, clean, installed>>
      /\ wstep = "copy"
  BY DEF CopyWord
<1>3. o \in Offsets /\ WordOf(writing, o) \in Words
  <2>1. writing \in Codes /\ Length[writing] <= size /\ Length[writing] \in Nat
        /\ size \in 0 .. MAX_JIT_BUFFER_SIZE /\ MAX_JIT_BUFFER_SIZE \in Nat
    BY <1>2, BufferAssumption DEF BufferInv, WritesFit, BufferTypeOK
  <2>2. o \in Offsets
    BY <2>1 DEF Offsets
  <2> QED BY <2>1, <2>2 DEF Words
<1>4. MemoryTyped'
  <2>1. ram \in [Offsets -> Words]
    BY DEF BufferInv, MemoryTyped
  <2>2. ram' \in [Offsets -> Words]
    BY <1>1, <1>3, <2>1
  <2> QED BY <1>2, <2>2 DEF BufferInv, MemoryTyped
<1>5. WriteProgress'
  <2>1. \A p \in Offsets : ram'[p] = IF p = o THEN WordOf(writing, o) ELSE ram[p]
    BY <1>1, <1>3 DEF BufferInv, MemoryTyped
  <2>2. \A p \in Offsets : p \in copied' => ram'[p] = WordOf(writing, p)
    BY <1>1, <1>2, <2>1 DEF BufferInv, WriteProgress
  <2> QED BY <1>2, <2>2 DEF WriteProgress
<1>6. BufferTypeOK' /\ Unmapped' /\ WritesFit' /\ CleanCalls' /\ Modes'
  BY <1>2 DEF BufferInv, BufferTypeOK, Unmapped, WritesFit, CleanCalls, Modes
<1> QED
  BY <1>4, <1>5, <1>6 DEF BufferInv

(* the end of the copy,                                                    *)
LEMMA EndCopyKeepsInv == BufferInv /\ EndCopy => BufferInv'
<1> SUFFICES ASSUME BufferInv, EndCopy PROVE BufferInv'
  OBVIOUS
<1>1. /\ UNCHANGED <<platform, life, size, code_len, ram, icache, mode, writing, copied,
                     running, clean, installed>>
      /\ wstep = "copy" /\ wstep' = "flush" /\ copied = 0 .. Length[writing] - 1
  BY DEF EndCopy
<1>2. InMemory(writing)
  <2>1. Length[writing] \in Nat
    BY <1>1, BufferAssumption DEF BufferInv, WritesFit
  <2>2. \A o \in Offsets : o < Length[writing] => o \in copied
    BY <1>1, <2>1, BufferAssumption DEF Offsets
  <2> QED BY <1>1, <2>2 DEF BufferInv, WriteProgress, InMemory
<1>3. WriteProgress'
  BY <1>1, <1>2 DEF WriteProgress, InMemory
<1>4. BufferTypeOK' /\ MemoryTyped' /\ Unmapped' /\ WritesFit' /\ CleanCalls' /\ Modes'
  BY <1>1 DEF BufferInv, BufferTypeOK, MemoryTyped, Unmapped, WritesFit, CleanCalls, Modes
<1> QED
  BY <1>3, <1>4 DEF BufferInv

(* After the flush a cache holds none of the words just written: what it   *)
(* fetches from now on comes from memory.                                  *)
LEMMA FlushKeepsInv == BufferInv /\ Flush => BufferInv'
<1> SUFFICES ASSUME BufferInv, Flush PROVE BufferInv'
  OBVIOUS
<1>1. /\ UNCHANGED <<platform, life, size, code_len, ram, mode, writing, copied,
                     running, clean, installed>>
      /\ wstep = "flush" /\ wstep' = "protect"
      /\ icache' = [t \in Threads |-> [o \in Offsets |->
                      IF o < Length[writing] THEN Absent ELSE icache[t][o]]]
  BY DEF Flush, Invalidated
<1>2. MemoryTyped'
  BY <1>1 DEF BufferInv, MemoryTyped
<1>3. InCaches(writing)'
  BY <1>1 DEF InCaches
<1>4. WriteProgress'
  BY <1>1, <1>3 DEF BufferInv, WriteProgress, InMemory
<1>5. BufferTypeOK' /\ Unmapped' /\ WritesFit' /\ CleanCalls' /\ Modes'
  BY <1>1 DEF BufferInv, BufferTypeOK, Unmapped, WritesFit, CleanCalls, Modes
<1> QED
  BY <1>2, <1>4, <1>5 DEF BufferInv

(* the end of the write,                                                   *)
LEMMA EndWriteKeepsInv == BufferInv /\ EndWrite => BufferInv'
<1> SUFFICES ASSUME BufferInv, EndWrite PROVE BufferInv'
  OBVIOUS
<1>1. /\ UNCHANGED <<platform, life, size, ram, icache, writing, copied, running, clean>>
      /\ wstep = "protect" /\ wstep' = "none" /\ set_writable(FALSE)
      /\ code_len' = Length[writing] /\ installed' = writing
  BY DEF EndWrite
<1>2. BufferTypeOK' /\ Unmapped' /\ MemoryTyped'
  <2>1. mode' \in [Threads -> {"exec", "write"}]
    BY <1>1, SetWritableType DEF BufferInv
  <2>2. life \notin {"none", "failed"}
    BY <1>1 DEF BufferInv, Unmapped
  <2> QED BY <1>1, <2>1, <2>2 DEF BufferInv, BufferTypeOK, Unmapped, MemoryTyped
<1>3. WritesFit'
  BY <1>1 DEF BufferInv, WritesFit
<1>4. WriteProgress'
  BY <1>1 DEF BufferInv, WriteProgress, InMemory, InCaches
<1>5. CleanCalls'
  BY <1>1 DEF BufferInv, CleanCalls
<1>6. Modes'
  <2>1. ASSUME platform = "macos", NEW t \in Threads
        PROVE  mode'[t] = "exec"
    BY <1>1, <2>1, SetWritable DEF BufferInv, Modes
  <2> QED BY <1>1, <2>1 DEF Modes
<1> QED
  BY <1>2, <1>3, <1>4, <1>5, <1>6 DEF BufferInv

(* each step of a cache,                                                   *)
LEMMA PrefetchKeepsInv == BufferInv /\ Prefetch => BufferInv'
<1> SUFFICES ASSUME BufferInv, Prefetch PROVE BufferInv'
  OBVIOUS
<1>1. PICK u \in Threads, p \in Offsets : icache' = [icache EXCEPT ![u][p] = ram[p]]
  BY DEF Prefetch
<1>2. UNCHANGED <<platform, life, size, code_len, ram, mode, wstep, writing, copied,
                  running, clean, installed>>
  BY DEF Prefetch
<1>3. /\ ram[p] \in Words
      /\ icache' \in [Threads -> [Offsets -> Words \cup {Absent}]]
  BY <1>1 DEF BufferInv, MemoryTyped
<1>4. \A t \in Threads, o \in Offsets : icache'[t][o] \in {icache[t][o], ram[o]}
  BY <1>1 DEF BufferInv, MemoryTyped
<1>5. ASSUME NEW c, InMemory(c), InCaches(c)
      PROVE  InCaches(c)'
  <2>1. \A t \in Threads, o \in Offsets : o < Length[c] => icache'[t][o] \in {Absent, WordOf(c, o)}
    BY <1>4, <1>5 DEF InMemory, InCaches
  <2> QED BY <2>1 DEF InCaches
<1>6. WriteProgress'
  <2>1. wstep = "protect" => InCaches(writing)'
    BY <1>2, <1>5 DEF BufferInv, WriteProgress
  <2>2. wstep = "none" /\ installed # Nothing => InCaches(installed)'
    BY <1>2, <1>5 DEF BufferInv, WriteProgress
  <2> QED BY <1>2, <2>1, <2>2 DEF BufferInv, WriteProgress, InMemory, InCaches
<1>7. BufferTypeOK' /\ MemoryTyped' /\ Unmapped' /\ WritesFit' /\ CleanCalls' /\ Modes'
  BY <1>2, <1>3 DEF BufferInv, BufferTypeOK, MemoryTyped, Unmapped, WritesFit, CleanCalls, Modes
<1> QED
  BY <1>6, <1>7 DEF BufferInv

(* of a caller,                                                            *)
LEMMA CallKeepsInv == BufferInv /\ Call => BufferInv'
<1> SUFFICES ASSUME BufferInv, Call PROVE BufferInv'
  OBVIOUS
<1>1. PICK u \in Threads :
        /\ running[u] = Idle /\ (u = Owner => wstep = "none")
        /\ running' = [running EXCEPT ![u] = 0]
        /\ clean' = [clean EXCEPT ![u] = (wstep = "none")]
  BY DEF Call
<1>2. /\ UNCHANGED <<platform, life, size, code_len, ram, icache, mode, wstep, writing,
                     copied, installed>>
      /\ installed # Nothing
  BY DEF Call
<1>3. /\ running' \in [Threads -> Nat \cup {Idle}] /\ clean' \in [Threads -> BOOLEAN]
      /\ \A t \in Threads : /\ running'[t] = IF t = u THEN 0 ELSE running[t]
                            /\ clean'[t] = IF t = u THEN wstep = "none" ELSE clean[t]
  BY <1>1 DEF BufferInv, BufferTypeOK
<1>4. CleanCalls'
  <2>1. installed \notin FallsOff => 0 < code_len
    BY <1>2, BufferAssumption DEF BufferInv, WritesFit
  <2> QED BY <1>1, <1>2, <1>3, <2>1 DEF BufferInv, CleanCalls
<1>5. Modes'
  BY <1>1, <1>2, <1>3 DEF BufferInv, Modes
<1>6. BufferTypeOK' /\ Unmapped' /\ MemoryTyped' /\ WritesFit' /\ WriteProgress'
  BY <1>2, <1>3 DEF BufferInv, BufferTypeOK, Unmapped, MemoryTyped, WritesFit, WriteProgress,
                    InMemory, InCaches
<1> QED
  BY <1>4, <1>5, <1>6 DEF BufferInv

(* What a clean call finds within the code is the code.                    *)
LEMMA CleanFetch ==
  ASSUME BufferInv, NEW t \in Threads, clean[t], running[t] \in 0 .. size - 1,
         running[t] < code_len
  PROVE  Fetched(t, running[t]) = {WordOf(installed, running[t])}
<1> DEFINE o == running[t]
<1>1. o \in Offsets
  BY BufferAssumption DEF BufferInv, BufferTypeOK, Offsets
<1>2. o # Idle
  BY DEF Idle
<1>3. wstep = "none" /\ installed # Nothing
  BY <1>2 DEF BufferInv, CleanCalls
<1>4. InMemory(installed) /\ InCaches(installed) /\ code_len = Length[installed]
  BY <1>3 DEF BufferInv, WriteProgress, WritesFit
<1>5. ram[o] = WordOf(installed, o) /\ icache[t][o] \in {Absent, WordOf(installed, o)}
  BY <1>1, <1>4 DEF InMemory, InCaches
<1> QED
  BY <1>5 DEF Fetched

(* A word leads to a place, or out.                                        *)
LEMMA NextWordType ==
  ASSUME NEW w \in Words
  PROVE  NextWord(w) \subseteq Nat \cup {Idle}
<1>1. w = Zero \/ \E c \in Codes, o \in Offsets : w = WordOf(c, o)
  BY DEF Words
<1>2. CASE w = Zero
  BY <1>2 DEF NextWord
<1>3. ASSUME NEW c \in Codes, NEW o \in Offsets, w = WordOf(c, o)
      PROVE  NextWord(w) \subseteq Nat \cup {Idle}
  <2>1. w.code = c /\ w.word = o /\ Length[c] \in Nat /\ o \in Nat
    BY <1>3, BufferAssumption DEF WordOf, Offsets
  <2> QED BY <2>1 DEF NextWord
<1> QED
  BY <1>1, <1>2, <1>3

(* A clean call in a code that does not fall off goes on inside it.        *)
LEMMA CleanNext ==
  ASSUME BufferInv, installed \in Codes, installed # Nothing, installed \notin FallsOff,
         code_len = Length[installed], NEW o,
         NEW n \in NextWord(WordOf(installed, o))
  PROVE  n = Idle \/ n < code_len
<1>1. /\ WordOf(installed, o).code = installed /\ WordOf(installed, o).word = o
      /\ WordOf(installed, o) # Zero
  BY DEF WordOf, Zero
<1>2. Length[installed] \in Nat
  BY BufferAssumption
<1> QED
  BY <1>1, <1>2 DEF NextWord

(* of a thread that executes,                                              *)
LEMMA ExecuteKeepsInv == BufferInv /\ (Execute \/ Fault) => BufferInv'
<1> SUFFICES ASSUME BufferInv, Execute \/ Fault PROVE BufferInv'
  OBVIOUS
<1>1. PICK u \in Threads, n \in Nat \cup {Idle} :
        /\ running[u] # Idle /\ running' = [running EXCEPT ![u] = n]
        /\ \/ n = Idle
           \/ running[u] \in 0 .. size - 1
                /\ \E w \in Fetched(u, running[u]) : n \in NextWord(w)
  <2>1. CASE Fault
    <3>1. PICK u \in Threads : running[u] >= size /\ running' = [running EXCEPT ![u] = Idle]
      BY <2>1 DEF Fault
    <3>2. running[u] # Idle
      BY <3>1, BufferAssumption DEF BufferInv, BufferTypeOK, Idle
    <3> QED BY <3>1, <3>2
  <2>2. CASE Execute
    <3>1. PICK u \in Threads : running[u] \in 0 .. size - 1 /\
            \E w \in Fetched(u, running[u]) : \E n \in NextWord(w) :
              running' = [running EXCEPT ![u] = n]
      BY <2>2 DEF Execute
    <3>2. PICK w \in Fetched(u, running[u]) : \E n \in NextWord(w) :
            running' = [running EXCEPT ![u] = n]
      BY <3>1
    <3>3. PICK n \in NextWord(w) : running' = [running EXCEPT ![u] = n]
      BY <3>2
    <3>4. running[u] \in Offsets
      BY <3>1, BufferAssumption DEF BufferInv, BufferTypeOK, Offsets
    <3>5. w \in Words
      BY <3>4 DEF Fetched, BufferInv, MemoryTyped
    <3>6. n \in Nat \cup {Idle} /\ running[u] # Idle
      BY <3>1, <3>5, NextWordType DEF Idle
    <3> QED BY <3>1, <3>3, <3>6
  <2> QED BY <2>1, <2>2
<1>2. UNCHANGED <<platform, life, size, code_len, ram, icache, mode, wstep, writing,
                  copied, clean, installed>>
  BY DEF Execute, Fault
<1>3. /\ running' \in [Threads -> Nat \cup {Idle}]
      /\ \A t \in Threads : running'[t] = IF t = u THEN n ELSE running[t]
  BY <1>1 DEF BufferInv, BufferTypeOK
<1>4. CleanCalls'
  <2>1. ASSUME clean[u], n # Idle, installed \notin FallsOff
        PROVE  n < code_len
    <3>1. /\ installed # Nothing /\ running[u] < code_len
      BY <1>1, <2>1 DEF BufferInv, CleanCalls
    <3>2. Fetched(u, running[u]) = {WordOf(installed, running[u])}
      BY <1>1, <2>1, <3>1, CleanFetch
    <3>3. installed \in Codes /\ code_len = Length[installed]
      BY <3>1 DEF BufferInv, WritesFit
    <3>4. n \in NextWord(WordOf(installed, running[u]))
      BY <1>1, <2>1, <3>2
    <3> QED BY <2>1, <3>1, <3>3, <3>4, CleanNext
  <2>2. clean[u] => wstep = "none" /\ installed # Nothing
    BY <1>1 DEF BufferInv, CleanCalls
  <2> QED BY <1>2, <1>3, <2>1, <2>2 DEF BufferInv, CleanCalls
<1>5. Modes'
  <2>1. wstep # "none" => u # Owner
    BY <1>1 DEF BufferInv, Modes
  <2> QED BY <1>2, <1>3, <2>1, BufferAssumption DEF BufferInv, Modes
<1>6. BufferTypeOK' /\ Unmapped' /\ MemoryTyped' /\ WritesFit' /\ WriteProgress'
  BY <1>2, <1>3 DEF BufferInv, BufferTypeOK, Unmapped, MemoryTyped, WritesFit, WriteProgress,
                    InMemory, InCaches
<1> QED
  BY <1>4, <1>5, <1>6 DEF BufferInv

(* and the end of the buffer keeps it,                                     *)
LEMMA DropKeepsInv == BufferInv /\ (Drop \/ UNCHANGED bvars) => BufferInv'
BY DEF Drop, bvars, BufferInv, BufferTypeOK, Unmapped, MemoryTyped, WritesFit, WriteProgress,
       InMemory, InCaches, CleanCalls, Modes

(* so it always holds.                                                     *)
LEMMA BufferInvariant == BufferSpec => []BufferInv
<1>1. BufferInv /\ [BufferNext]_bvars => BufferInv'
  BY NewKeepsInv, DropKeepsInv, BeginWriteKeepsInv, CopyWordKeepsInv, EndCopyKeepsInv,
     FlushKeepsInv, EndWriteKeepsInv, PrefetchKeepsInv, CallKeepsInv, ExecuteKeepsInv
     DEF BufferNext
<1> QED
  BY <1>1, BufferInitInv, PTL DEF BufferSpec

----------------------------------------------------------------------------
(* Results.                                                                *)

(* A call that no write_code overlaps runs the code written last, whatever *)
(* the instruction caches held before (nvme-shim/src/lib.rs:101-102).      *)
THEOREM CleanCallsRunTheLastCode == BufferSpec => []ExecutesWhatWasWritten
<1>1. BufferInv => ExecutesWhatWasWritten
  BY CleanFetch DEF ExecutesWhatWasWritten
<1> QED
  BY <1>1, BufferInvariant, PTL

(* Such a call stays in its code and in the mapping, unless the code ends  *)
(* in a branch that may not be taken (nvme-shim/src/lib.rs:95).            *)
THEOREM CleanCallsStayInside == BufferSpec => []LeavesOnlyByFallingOff
<1>1. BufferInv => LeavesOnlyByFallingOff
  <2> SUFFICES ASSUME BufferInv, NEW t \in Threads, clean[t], running[t] # Idle,
                      installed \notin FallsOff
               PROVE  running[t] < code_len /\ running[t] < size
    BY DEF LeavesOnlyByFallingOff
  <2>1. installed # Nothing /\ running[t] < code_len
    BY DEF BufferInv, CleanCalls
  <2>2. code_len \in Nat /\ code_len <= size /\ size \in Nat
    BY <2>1, BufferAssumption DEF BufferInv, WritesFit, BufferTypeOK
  <2>3. running[t] \in Nat
    BY DEF BufferInv, BufferTypeOK
  <2> QED BY <2>1, <2>2, <2>3
<1> QED
  BY <1>1, BufferInvariant, PTL

(* No thread copies into, or executes, memory its own write-protect state  *)
(* forbids (set_writable, nvme-shim/src/lib.rs:242).                       *)
THEOREM WriteProtectionHolds == BufferSpec => []ModesNeverFault
<1>1. BufferInv => ModesNeverFault
  BY BufferAssumption DEF BufferInv, Modes, ModesNeverFault
<1> QED
  BY <1>1, BufferInvariant, PTL
=============================================================================

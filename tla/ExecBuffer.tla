----------------------------- MODULE ExecBuffer -----------------------------
(***************************************************************************)
(* exec_buffer::ExecBuffer on macOS and Linux                              *)
(* (crates/nvme-shim/src/lib.rs), over its whole life: allocation, any     *)
(* number of write_code calls, calls of the function pointer, drop.        *)
(*                                                                         *)
(* One thread owns the buffer and writes it; every thread may call the     *)
(* pointer as_fn_ptr returned, a plain function pointer that carries no    *)
(* borrow.  Memory is counted in instruction words.  Each thread has a     *)
(* core of its own, whose instruction cache may fetch any word at any time *)
(* and keep it until it is invalidated: stores do not reach it.            *)
(***************************************************************************)
EXTENDS Integers

CONSTANTS
  Threads, Owner,               \* who runs; the one that holds &mut self
  Codes, Length,                \* the programs written, and their words
  FallsOff,                     \* the codes control runs past: empty ones, and those
                                \* that end in a conditional branch
  MAX_JIT_BUFFER_SIZE,          \* 64 KB
  GUARD_PAGE_SIZE               \* 4 KB

ASSUME BufferAssumption ==
  /\ Owner \in Threads
  /\ Length \in [Codes -> Nat] /\ FallsOff \subseteq Codes
  /\ \A c \in Codes : Length[c] = 0 => c \in FallsOff
  /\ GUARD_PAGE_SIZE \in Nat \ {0}
  /\ MAX_JIT_BUFFER_SIZE \in Nat /\ MAX_JIT_BUFFER_SIZE % GUARD_PAGE_SIZE = 0

VARIABLES
  platform,    \* target_os
  life,        \* "none", "mapped", "failed", or "dropped"
  size,        \* the mapping's size
  code_len,    \* code_len
  ram,         \* the words of the mapping
  icache,      \* for each core, the words it has fetched
  mode,        \* each thread's pthread_jit_write_protect_np: "exec" or "write"
  wstep,       \* where write_code stands: "none", "copy", "flush", "protect"
  writing,     \* the code being written
  copied,      \* the words copied so far
  running,     \* each thread's call: the next word, or Idle
  clean,       \* history: no write has touched the buffer during the call
  installed    \* history: the code written last, or Nothing

bvars == <<platform, life, size, code_len, ram, icache, mode, wstep, writing,
           copied, running, clean, installed>>

Offsets  == 0 .. MAX_JIT_BUFFER_SIZE - 1
Idle     == -1
Nothing  == "nothing"
Zero     == [code |-> Nothing, word |-> 0]       \* an untouched word: an illegal instruction
Absent   == [code |-> "absent", word |-> 0]      \* not in the cache
WordOf(c, o) == [code |-> c, word |-> o]

----------------------------------------------------------------------------
(* Allocation.                                                             *)

RoundedUp(n) == ((n + GUARD_PAGE_SIZE - 1) \div GUARD_PAGE_SIZE) * GUARD_PAGE_SIZE

(* ExecBuffer::new(code.len()); mmap refuses an empty mapping.             *)
New ==
  /\ life = "none"
  /\ \E c \in Codes :
       LET n == RoundedUp(Length[c]) IN
       IF Length[c] > MAX_JIT_BUFFER_SIZE \/ n = 0
       THEN life' = "failed" /\ UNCHANGED size
       ELSE life' = "mapped" /\ size' = n
  /\ UNCHANGED <<platform, code_len, ram, icache, mode, wstep, writing, copied,
                 running, clean, installed>>

(* munmap.  The buffer's users drop it when no call is in progress.        *)
Drop ==
  /\ life = "mapped" /\ wstep = "none" /\ \A t \in Threads : running[t] = Idle
  /\ life' = "dropped"
  /\ UNCHANGED <<platform, size, code_len, ram, icache, mode, wstep, writing, copied,
                 running, clean, installed>>

----------------------------------------------------------------------------
(* write_code.                                                             *)

set_writable(writable) ==
  mode' = IF platform = "macos"
          THEN [mode EXCEPT ![Owner] = IF writable THEN "write" ELSE "exec"] ELSE mode

\* Faulty: the length is not looked at.
FitsAlways(c) == TRUE
Fits(c) == Length[c] <= size

BeginWrite ==
  /\ life = "mapped" /\ wstep = "none" /\ running[Owner] = Idle
  /\ \E c \in Codes : Fits(c) /\ writing' = c
  /\ set_writable(TRUE)
  /\ wstep' = "copy" /\ copied' = {}
  /\ clean' = [t \in Threads |-> FALSE]
  /\ UNCHANGED <<platform, life, size, code_len, ram, icache, running, installed>>

CopyWord ==
  /\ wstep = "copy"
  /\ \E o \in 0 .. Length[writing] - 1 :
       /\ o \notin copied
       /\ ram' = [ram EXCEPT ![o] = WordOf(writing, o)]
       /\ copied' = copied \cup {o}
  /\ UNCHANGED <<platform, life, size, code_len, icache, mode, wstep, writing,
                 running, clean, installed>>

EndCopy ==
  /\ wstep = "copy" /\ copied = 0 .. Length[writing] - 1
  /\ wstep' = "flush"
  /\ UNCHANGED <<platform, life, size, code_len, ram, icache, mode, writing, copied,
                 running, clean, installed>>

\* Faulty: the writer's own core only.
InvalidatedOwn(t, o) == t = Owner /\ o < Length[writing]
(* invalidate_icache(ptr, len): on every core, the words just written.     *)
Invalidated(t, o) == o < Length[writing]

Flush ==
  /\ wstep = "flush"
  /\ icache' = [t \in Threads |-> [o \in Offsets |->
                  IF Invalidated(t, o) THEN Absent ELSE icache[t][o]]]
  /\ wstep' = "protect"
  /\ UNCHANGED <<platform, life, size, code_len, ram, mode, writing, copied,
                 running, clean, installed>>

\* Faulty: the buffer stays writable.
EndWriteUnprotected ==
  /\ wstep = "protect"
  /\ code_len' = Length[writing] /\ installed' = writing
  /\ wstep' = "none"
  /\ UNCHANGED <<platform, life, size, ram, icache, mode, writing, copied, running, clean>>
EndWrite ==
  /\ wstep = "protect"
  /\ set_writable(FALSE)
  /\ code_len' = Length[writing] /\ installed' = writing
  /\ wstep' = "none"
  /\ UNCHANGED <<platform, life, size, ram, icache, writing, copied, running, clean>>

----------------------------------------------------------------------------
(* The processor: fetching ahead, and executing a call.                    *)

Prefetch ==
  /\ life = "mapped"
  /\ \E t \in Threads, o \in Offsets :
       /\ o < size /\ icache[t][o] = Absent
       /\ icache' = [icache EXCEPT ![t][o] = ram[o]]
  /\ UNCHANGED <<platform, life, size, code_len, ram, mode, wstep, writing, copied,
                 running, clean, installed>>

(* A call of the pointer, by the owner between writes or by any thread     *)
(* that was handed it.                                                     *)
Call ==
  /\ life = "mapped" /\ installed # Nothing
  /\ \E t \in Threads :
       /\ running[t] = Idle
       /\ t = Owner => wstep = "none"
       /\ running' = [running EXCEPT ![t] = 0]
       /\ clean' = [clean EXCEPT ![t] = (wstep = "none")]
  /\ UNCHANGED <<platform, life, size, code_len, ram, icache, mode, wstep, writing,
                 copied, installed>>

(* What thread t may fetch at o: the cached word, unless it was evicted.   *)
Fetched(t, o) == {ram[o]} \cup ({icache[t][o]} \ {Absent})

(* Where control goes after word w: anywhere in its code, out by its last  *)
(* word, and past it if that may fall through; an illegal word stops.      *)
NextWord(w) ==
  IF w = Zero THEN {Idle}
  ELSE (0 .. Length[w.code] - 1) \cup
       (IF w.word = Length[w.code] - 1
        THEN {Idle} \cup (IF w.code \in FallsOff THEN {w.word + 1} ELSE {}) ELSE {})

Execute ==
  /\ \E t \in Threads :
       /\ running[t] \in 0 .. size - 1
       /\ \E w \in Fetched(t, running[t]) :
            \E o \in NextWord(w) : running' = [running EXCEPT ![t] = o]
  /\ UNCHANGED <<platform, life, size, code_len, ram, icache, mode, wstep, writing,
                 copied, clean, installed>>

(* Past the mapping there is nothing to execute.                           *)
Fault ==
  /\ \E t \in Threads :
       /\ running[t] >= size
       /\ running' = [running EXCEPT ![t] = Idle]
  /\ UNCHANGED <<platform, life, size, code_len, ram, icache, mode, wstep, writing,
                 copied, clean, installed>>

----------------------------------------------------------------------------
BufferInit ==
  /\ platform \in {"macos", "linux"}
  /\ life = "none" /\ size = 0 /\ code_len = 0
  /\ ram = [o \in Offsets |-> Zero]
  /\ icache = [t \in Threads |-> [o \in Offsets |-> Absent]]
  /\ mode = [t \in Threads |-> "exec"]
  /\ wstep = "none" /\ writing = Nothing /\ copied = {}
  /\ running = [t \in Threads |-> Idle]
  /\ clean = [t \in Threads |-> TRUE]
  /\ installed = Nothing
BufferNext ==
  \/ New \/ Drop \/ BeginWrite \/ CopyWord \/ EndCopy \/ Flush \/ EndWrite
  \/ Prefetch \/ Call \/ Execute \/ Fault
BufferSpec == BufferInit /\ [][BufferNext]_bvars

----------------------------------------------------------------------------
(* Properties.                                                             *)

BufferTypeOK ==
  /\ platform \in {"macos", "linux"} /\ life \in {"none", "mapped", "failed", "dropped"}
  /\ size \in 0 .. MAX_JIT_BUFFER_SIZE
  /\ mode \in [Threads -> {"exec", "write"}] /\ wstep \in {"none", "copy", "flush", "protect"}
  /\ clean \in [Threads -> BOOLEAN]
  /\ running \in [Threads -> Nat \cup {Idle}]

(* Whatever its core had fetched before the last write, or during it, a    *)
(* call that no write overlaps finds, wherever it is within the length of  *)
(* the code written last, that code's word and nothing older.              *)
ExecutesWhatWasWritten ==
  \A t \in Threads :
    clean[t] /\ running[t] \in 0 .. size - 1 /\ running[t] < code_len =>
      Fetched(t, running[t]) = {WordOf(installed, running[t])}

(* Such a call stays inside its code and inside the mapping, unless the    *)
(* code itself ends in a branch that may not be taken.                     *)
LeavesOnlyByFallingOff ==
  \A t \in Threads :
    clean[t] /\ running[t] # Idle /\ installed \notin FallsOff =>
      running[t] < code_len /\ running[t] < size

(* macOS write-protects per thread: the writer copies with its own state   *)
(* writable, and every thread that executes has its state executable.      *)
ModesNeverFault ==
  platform = "macos" =>
    /\ wstep = "copy" => mode[Owner] = "write"
    /\ \A t \in Threads : running[t] # Idle => mode[t] = "exec"
============================================================================

---------------------------- MODULE GuestMemory ----------------------------
(***************************************************************************)
(* The guest's linear memory, and the pointers that cross between guest    *)
(* and host: read_guest, write_guest and invoke_agent in                   *)
(* crates/tds-host/src/runtime.rs, tds_alloc, tds_dealloc and leak_to_host *)
(* in crates/tds-agent/src/lib.rs, pack_ptr_len in crates/tds-abi/src/     *)
(* lib.rs.                                                                 *)
(*                                                                         *)
(* A run is either of the shipped agent, or of a guest that may pass and   *)
(* return any numbers at all.  Addresses are 0 .. Word - 1; the host adds  *)
(* them in 64 bits, so that its sums do not wrap.                          *)
(***************************************************************************)
EXTENDS Integers, FiniteSets

CONSTANTS
  Word,       \* 2^32 in the code
  Initial,    \* size of the memory when the module is instantiated
  MaxMemory   \* policy.limits.memory_bytes

ASSUME MemoryAssumption ==
  /\ Word \in Nat /\ MaxMemory \in Nat /\ Initial \in Nat
  /\ 2 <= Initial /\ Initial <= MaxMemory /\ MaxMemory <= Word

u32 == 0..(Word - 1)
Range32 == [ptr : u32, len : u32]

VARIABLES
  shipped,    \* the guest is the shipped agent
  size,       \* of the memory; it only grows
  blocks,     \* what the guest has allocated and not freed, of the ABI's buffers
  pc,         \* where invoke_agent is
  input,      \* ptr and len of the input
  packed,     \* what tds_run has returned
  copied,     \* history: the last copy of the host, and whether it was made
  freed       \* history: the last range passed to tds_dealloc, if it was live

memoryVars == <<shipped, size, blocks, pc, input, packed, copied, freed>>

Null == [ptr |-> 0, len |-> 0]

\* Mutant: the sum is taken in 32 bits.
InMemoryWrapping(range) == (range.ptr + range.len) % Word <= size

\* Mutant: the last byte of the memory is out of bounds.
InMemoryShort(range) == range.ptr + range.len < size

\* checked_add, and slice::get of start..end.
InMemory(range) == range.ptr + range.len <= size

pack_ptr_len(range) == range.ptr * Word + range.len

unpack_ptr_len(word) == [ptr |-> word \div Word, len |-> word % Word]

Overlap(a, b) == a.ptr < b.ptr + b.len /\ b.ptr < a.ptr + a.len

(***************************************************************************)
(* tds_alloc: null if the memory cannot grow enough, 1 for no bytes, else  *)
(* an aligned block that overlaps no other, so that it is not at 1 either. *)
(***************************************************************************)
Alloc(range, len) ==
  /\ size' \in size..MaxMemory
  /\ range \in Range32 /\ range.len = len
  /\ IF len = 0 THEN range.ptr = 1 /\ blocks' = blocks
     ELSE \/ range.ptr = 0 /\ blocks' = blocks
          \/ /\ range.ptr >= 2 /\ range.ptr + len <= size'
             /\ \A b \in blocks : ~Overlap(b, range)
             /\ blocks' = blocks \cup {range}

\* tds_dealloc ignores what tds_alloc does not allocate.
Dealloc(range) ==
  IF range.ptr \in {0, 1} \/ range.len = 0
  THEN blocks' = blocks /\ freed' = "ignored"
  ELSE /\ blocks' = blocks \ {range}
       /\ freed' = IF range \in blocks THEN "live" ELSE "dead"

\* A copy between host and guest memory.
Copy(range) == copied' = [range |-> range, size |-> size, done |-> InMemory(range)]

MemoryInit ==
  /\ shipped \in BOOLEAN
  /\ size = Initial
  /\ blocks = {}
  /\ pc = "alloc"
  /\ input = Null /\ packed = 0
  /\ copied = [range |-> Null, size |-> Initial, done |-> TRUE]
  /\ freed = "none"

-----------------------------------------------------------------------------
\* A guest that is not the shipped one may answer anything, and free nothing.
AnyAlloc(range, len) ==
  /\ size' \in size..MaxMemory
  /\ range \in Range32 /\ range.len = len
  /\ blocks' = blocks

\* The encoded input is never empty.
AllocInput(range) ==
  /\ pc = "alloc"
  /\ range.len > 0
  /\ IF shipped THEN Alloc(range, range.len) ELSE AnyAlloc(range, range.len)
  /\ input' = range
  /\ pc' = IF range.ptr = 0 THEN "error" ELSE "write"
  /\ UNCHANGED <<shipped, packed, copied, freed>>

WriteInput ==
  /\ pc = "write"
  /\ Copy(input)
  /\ pc' = IF InMemory(input) THEN "guest" ELSE "error"
  /\ UNCHANGED <<shipped, size, blocks, input, packed, freed>>

(***************************************************************************)
(* In tds_run the guest calls the host with ranges of its memory: of its   *)
(* buffers and its static data, or any.  What the host does with the bytes *)
(* is CapabilityHost's.                                                    *)
(***************************************************************************)
HostFunction(range) ==
  /\ pc = "guest"
  /\ shipped =>
       \/ range.ptr + range.len <= Initial
       \/ \E b \in blocks : b.ptr <= range.ptr /\ range.ptr + range.len <= b.ptr + b.len
  /\ Copy(range)
  /\ UNCHANGED <<shipped, size, blocks, pc, input, packed, freed>>

\* leak_to_host: a fresh buffer, or null if there is none.
ReturnOutput(range) ==
  /\ pc = "guest" /\ shipped
  /\ range.len > 0
  /\ Alloc(range, range.len)
  /\ packed' = pack_ptr_len(IF range.ptr = 0 THEN Null ELSE range)
  /\ pc' = "free_input"
  /\ UNCHANGED <<shipped, input, copied, freed>>

ReturnAnything(range) ==
  /\ pc = "guest" /\ ~shipped
  /\ packed' = pack_ptr_len(range)
  /\ size' \in size..MaxMemory
  /\ pc' = "free_input"
  /\ UNCHANGED <<shipped, blocks, input, copied, freed>>

FreeInput ==
  /\ pc = "free_input"
  /\ Dealloc(input)
  /\ pc' = LET range == unpack_ptr_len(packed)
           IN  IF range.ptr = 0 \/ range.len = 0 THEN "error" ELSE "read"
  /\ UNCHANGED <<shipped, size, input, packed, copied>>

\* The memory is looked up again: it may have grown since it was written to.
ReadOutput ==
  /\ pc = "read"
  /\ Copy(unpack_ptr_len(packed))
  /\ pc' = IF InMemory(unpack_ptr_len(packed)) THEN "free_output" ELSE "error"
  /\ UNCHANGED <<shipped, size, blocks, input, packed, freed>>

\* Mutant: what is freed is the input once more.
FreeInputTwice ==
  /\ pc = "free_output"
  /\ Dealloc(input)
  /\ pc' = "done"
  /\ UNCHANGED <<shipped, size, input, packed, copied>>

FreeOutput ==
  /\ pc = "free_output"
  /\ Dealloc(unpack_ptr_len(packed))
  /\ pc' = "done"
  /\ UNCHANGED <<shipped, size, input, packed, copied>>

MemoryNext ==
  \/ \E range \in Range32 :
       \/ AllocInput(range) \/ HostFunction(range)
       \/ ReturnOutput(range) \/ ReturnAnything(range)
  \/ WriteInput \/ FreeInput \/ ReadOutput \/ FreeOutput

MemorySpec == MemoryInit /\ [][MemoryNext]_memoryVars

-----------------------------------------------------------------------------
MemoryTypeOK ==
  /\ shipped \in BOOLEAN /\ size \in Initial..MaxMemory
  /\ blocks \subseteq Range32
  /\ pc \in {"alloc", "write", "guest", "free_input", "read", "free_output",
             "done", "error"}
  /\ input \in Range32
  /\ packed \in 0..(Word * Word - 1)
  /\ copied \in [range : Range32, size : Nat, done : BOOLEAN]
  /\ freed \in {"none", "ignored", "live", "dead"}

(***************************************************************************)
(* "refusing any range that is not wholly inside it.  Every pointer the    *)
(* guest hands us is treated as hostile" (runtime.rs:461-462): each byte   *)
(* the host copies is in the memory as it was at that moment, also when    *)
(* pointer and length add up to more than 32 bits.                         *)
(***************************************************************************)
CopiesStayInside ==
  copied.done =>
    \A a \in u32 :
      copied.range.ptr <= a /\ a < copied.range.ptr + copied.range.len => a < copied.size

(***************************************************************************)
(* The shipped agent never meets BAD_POINTER, wherever in a memory that    *)
(* has grown its buffers are, and the host can always write the input it   *)
(* allocated and read the output it was given.                             *)
(***************************************************************************)
OwnBuffersAccepted == shipped => copied.done

(***************************************************************************)
(* "must come from a matching tds_alloc call that has not been freed"      *)
(* (crates/tds-agent/src/lib.rs:53): with the shipped agent the host keeps *)
(* that promise, and a run that comes to its end leaves nothing allocated. *)
(***************************************************************************)
DeallocMatches ==
  shipped => freed # "dead" /\ (pc = "done" => blocks = {})

=============================================================================

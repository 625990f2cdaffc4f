----------------------------- MODULE PartsProofs -----------------------------
(***************************************************************************)
(* Theorems about the parts of host and agent that share no state with     *)
(* the rest: the guest's memory, truncate, startup, the host allowlist and *)
(* the echo of content blocks.                                             *)
(***************************************************************************)
EXTENDS Startup, Allowlist, EchoPath, GuestMemory, Truncate, SequenceFacts

(***************************************************************************)
(* GuestMemory                                                             *)
(***************************************************************************)

Output == unpack_ptr_len(packed)

\* A buffer the shipped agent has allocated.
Owned(range) ==
  range \in Range32 /\ range.ptr >= 2 /\ range.len > 0 /\ range.ptr + range.len <= size

(***************************************************************************)
(* What the shipped agent has allocated at each point of invoke_agent.     *)
(***************************************************************************)
OwnerInv ==
  /\ freed # "dead" /\ copied.done
  /\ \A b \in blocks : Owned(b)
  /\ pc = "alloc" => blocks = {}
  /\ pc \in {"write", "guest"} => blocks = {input}
  /\ pc = "free_input" =>
       \/ Output.ptr = 0 /\ blocks = {input}
       \/ blocks = {input, Output} /\ input # Output
  /\ pc \in {"read", "free_output"} => blocks = {Output}
  /\ pc = "done" => blocks = {}

MemoryInv ==
  /\ MemoryTypeOK
  /\ copied.done => copied.range.ptr + copied.range.len <= copied.size
  /\ shipped => OwnerInv

-----------------------------------------------------------------------------
LEMMA Sizes == Word \in Nat /\ Word >= 2 /\ Initial \in Nat /\ MaxMemory \in Nat
  BY MemoryAssumption

LEMMA Division ==
  ASSUME NEW x \in Nat, NEW w \in Nat, w >= 2,
         NEW q, NEW r, q = x \div w, r = x % w
  PROVE  q \in Nat /\ r \in Nat /\ r < w /\ x = w * q + r
  OBVIOUS

LEMMA Monotone ==
  ASSUME NEW j \in Nat, NEW k \in Nat, NEW w \in Nat, j <= k
  PROVE  j * w <= k * w /\ w * j <= w * k
  OBVIOUS

(***************************************************************************)
(* A packed pointer fits a word of twice the width, and unpacking undoes   *)
(* it (crates/tds-abi/src/lib.rs:79-87).                                   *)
(***************************************************************************)
THEOREM PackedComesBack ==
  ASSUME NEW range \in Range32
  PROVE  /\ pack_ptr_len(range) \in 0..(Word * Word - 1)
         /\ unpack_ptr_len(pack_ptr_len(range)) = range
  <1> DEFINE p == range.ptr
             l == range.len
             x == p * Word + l
             q == x \div Word
             r == x % Word
  <1>1. /\ p \in Nat /\ p <= Word - 1 /\ l \in Nat /\ l < Word
        /\ range = [ptr |-> p, len |-> l]
    BY Sizes DEF Range32, u32
  <1>2. p * Word \in Nat /\ x \in Nat /\ (p + 1) * Word = p * Word + Word
    BY <1>1, Sizes
  <1>3. /\ q \in Nat /\ r \in Nat /\ r < Word
        /\ x = Word * q + r
    <2>1. x \in Nat
      BY <1>2
    <2> HIDE DEF x
    <2> QED BY <2>1, Division, Sizes
  <1>4. q * Word \in Nat /\ Word * q = q * Word /\ (q + 1) * Word = q * Word + Word
    BY <1>3, Sizes
  <1>5. x <= Word * Word - 1
    <2>1. (p + 1) * Word <= Word * Word
      BY <1>1, Sizes
    <2>2. Word * Word \in Nat
      BY Sizes
    <2>3. x < (p + 1) * Word
      BY <1>1, <1>2, Sizes
    <2> QED BY <1>2, <2>1, <2>2, <2>3, Sizes
  <1>6. q = p
    <2>1. ASSUME q >= p + 1 PROVE FALSE
      <3>1. (p + 1) * Word <= q * Word
        <4> HIDE DEF p, x, q
        <4> QED BY <1>1, <1>3, <2>1, Sizes
      <3>2. x >= q * Word
        <4> HIDE DEF x, q, r
        <4> QED BY <1>2, <1>3, <1>4
      <3>3. x < (p + 1) * Word
        BY <1>1, <1>2, Sizes
      <3> HIDE DEF x, q, r
      <3> QED BY <1>2, <1>4, <3>1, <3>2, <3>3, Sizes
    <2>2. ASSUME q + 1 <= p PROVE FALSE
      <3>1. (q + 1) * Word <= p * Word
        BY <1>1, <1>3, <2>2, Sizes
      <3>2. x < (q + 1) * Word
        <4> HIDE DEF x, q, r
        <4> QED BY <1>2, <1>3, <1>4, Sizes
      <3>3. x >= p * Word
        BY <1>1, <1>2, Sizes
      <3> HIDE DEF x, q, r
      <3> QED BY <1>2, <1>4, <3>1, <3>2, <3>3, Sizes
    <2> HIDE DEF x, q, r
    <2> QED BY <1>1, <1>3, <2>1, <2>2
  <1>7. r = l
    <2>1. Word * q = p * Word
      BY <1>4, <1>6
    <2>2. x = p * Word + r
      BY <1>3, <2>1
    <2>3. x = p * Word + l
      OBVIOUS
    <2> HIDE DEF x, q, r
    <2> QED BY <1>1, <1>2, <1>3, <2>2, <2>3
  <1>8. pack_ptr_len(range) = x
    BY DEF pack_ptr_len
  <1>9. unpack_ptr_len(x) = [ptr |-> q, len |-> r]
    BY DEF unpack_ptr_len
  <1> HIDE DEF x, q, r
  <1> QED BY <1>1, <1>2, <1>5, <1>6, <1>7, <1>8, <1>9, Sizes

LEMMA NullIsRange == Null \in Range32 /\ unpack_ptr_len(0) = Null
  <1>1. Null \in Range32
    BY Sizes DEF Null, Range32, u32
  <1>2. pack_ptr_len(Null) = 0
    BY Sizes DEF Null, pack_ptr_len
  <1> QED BY <1>1, <1>2, PackedComesBack

\* Whatever a range is, the end of it is a number.
LEMMA RangeNat ==
  ASSUME NEW range \in Range32
  PROVE  range.ptr \in Nat /\ range.len \in Nat /\ range.ptr + range.len \in Nat
  BY Sizes DEF Range32, u32

\* Unpacking gives a range, whatever was packed.
LEMMA UnpackedIsRange == MemoryTypeOK => Output \in Range32
  <1> SUFFICES ASSUME MemoryTypeOK PROVE Output \in Range32
    OBVIOUS
  <1> DEFINE q == packed \div Word
             r == packed % Word
  <1>1. packed \in Nat /\ packed < Word * Word
    <2>1. Word * Word \in Nat
      BY Sizes
    <2> QED BY <2>1 DEF MemoryTypeOK
  <1>2. q \in Nat /\ r \in 0..(Word - 1) /\ packed = Word * q + r
    BY <1>1, Sizes
  <1>3. ASSUME q >= Word PROVE FALSE
    <2>1. Word * Word <= Word * q
      <3>1. q \in Nat /\ Word <= q
        BY <1>2, <1>3, Sizes
      <3> HIDE DEF q
      <3> QED BY <3>1, Monotone, Sizes
    <2>2. Word * q \in Nat /\ Word * Word \in Nat
      <3>1. q \in Nat
        BY <1>2
      <3> HIDE DEF q
      <3> QED BY <3>1, Sizes
    <2> HIDE DEF q, r
    <2> QED BY <1>1, <1>2, <2>1, <2>2
  <1>4. Output = [ptr |-> q, len |-> r]
    BY DEF Output, unpack_ptr_len
  <1> HIDE DEF q, r
  <1> QED BY <1>2, <1>3, <1>4, Sizes DEF Range32, u32

LEMMA InitMemory == MemoryInit => MemoryInv
  <1> SUFFICES ASSUME MemoryInit PROVE MemoryInv
    OBVIOUS
  <1>1. MemoryTypeOK
    <2>1. 0 \in 0..(Word * Word - 1)
      <3>1. Word * Word >= 1 /\ Word * Word \in Nat
        BY Sizes
      <3> QED BY <3>1
    <2> QED BY <2>1, NullIsRange, MemoryAssumption DEF MemoryInit, MemoryTypeOK
  <1> QED BY <1>1, MemoryAssumption DEF MemoryInit, MemoryInv, OwnerInv, Null

-----------------------------------------------------------------------------
\* A copy is made exactly if its range is inside.
LEMMA CopyInv ==
  ASSUME MemoryInv, NEW range \in Range32, Copy(range), UNCHANGED size
  PROVE  /\ copied' \in [range : Range32, size : Nat, done : BOOLEAN]
         /\ (copied.done => copied.range.ptr + copied.range.len <= copied.size)'
         /\ copied'.done <=> InMemory(range)
  <1>1. size \in Nat
    BY Sizes DEF MemoryInv, MemoryTypeOK
  <1>2. InMemory(range) \in BOOLEAN
    BY DEF InMemory
  <1> QED BY <1>1, <1>2 DEF Copy, InMemory

\* A memory only grows, and a block in it stays in it.
LEMMA BlocksStay ==
  ASSUME MemoryInv, size' \in size..MaxMemory
  PROVE  size' \in Initial..MaxMemory /\ \A b : Owned(b) => Owned(b)'
  <1>1. size \in Nat /\ size' \in Nat /\ size <= size' /\ Initial <= size
    BY Sizes DEF MemoryInv, MemoryTypeOK
  <1> QED BY <1>1, RangeNat, Sizes DEF Owned

\* tds_alloc of some bytes: null, or a block that is none of those there are.
LEMMA AllocGives ==
  ASSUME MemoryInv, shipped, NEW range \in Range32, range.len > 0, Alloc(range, range.len)
  PROVE  /\ size' \in size..MaxMemory /\ \A b : Owned(b) => Owned(b)'
         /\ \/ range.ptr = 0 /\ blocks' = blocks
            \/ /\ blocks' = blocks \cup {range} /\ Owned(range)'
               /\ range \notin blocks /\ range.ptr # 0
  <1>1. size' \in size..MaxMemory
    BY DEF Alloc
  <1>2. range.len # 0 /\ range.ptr \in Nat /\ range.len \in Nat
    BY RangeNat
  <1>3. Overlap(range, range)
    BY <1>2 DEF Overlap
  <1> QED BY <1>1, <1>2, <1>3, BlocksStay DEF Alloc, Owned

LEMMA AllocInputStep ==
  ASSUME MemoryInv, NEW range \in Range32, AllocInput(range) PROVE MemoryInv'
  <1> USE DEF MemoryInv, AllocInput
  <1>1. /\ size' \in Initial..MaxMemory /\ blocks' \subseteq Range32
        /\ input' \in Range32 /\ UNCHANGED <<shipped, packed, copied, freed>>
    <2>1. CASE shipped
      BY <2>1, AllocGives, BlocksStay DEF MemoryTypeOK
    <2>2. CASE ~shipped
      BY <2>2, BlocksStay DEF AnyAlloc, MemoryTypeOK
    <2> QED BY <2>1, <2>2
  <1>2. MemoryTypeOK'
    BY <1>1 DEF MemoryTypeOK
  <1>3. shipped => OwnerInv'
    <2> SUFFICES ASSUME shipped PROVE OwnerInv'
      OBVIOUS
    <2>1. blocks = {}
      BY DEF OwnerInv
    <2>2. CASE range.ptr = 0
      BY <1>1, <2>1, <2>2, AllocGives DEF OwnerInv
    <2>3. CASE range.ptr # 0
      <3>1. blocks' = {range} /\ Owned(range)'
        BY <2>1, <2>3, AllocGives
      <3>2. pc' = "write" /\ input' = range
        BY <2>3
      <3> QED BY <1>1, <3>1, <3>2 DEF OwnerInv
    <2> QED BY <2>2, <2>3
  <1> QED BY <1>1, <1>2, <1>3

LEMMA WriteInputStep == ASSUME MemoryInv, WriteInput PROVE MemoryInv'
  <1> USE DEF MemoryInv, WriteInput
  <1>1. /\ copied' \in [range : Range32, size : Nat, done : BOOLEAN]
        /\ (copied.done => copied.range.ptr + copied.range.len <= copied.size)'
        /\ copied'.done <=> InMemory(input)
    <2>1. input \in Range32
      BY DEF MemoryTypeOK
    <2> QED BY <2>1, CopyInv
  <1>2. MemoryTypeOK'
    BY <1>1 DEF MemoryTypeOK
  <1>3. shipped => OwnerInv'
    <2> SUFFICES ASSUME shipped PROVE OwnerInv'
      OBVIOUS
    <2>1. blocks = {input} /\ Owned(input)
      BY DEF OwnerInv
    <2>2. InMemory(input)
      BY <2>1 DEF Owned, InMemory
    <2>3. pc' = "guest"
      BY <2>2
    <2> QED BY <1>1, <2>1, <2>2, <2>3 DEF OwnerInv, Owned
  <1> QED BY <1>1, <1>2, <1>3

LEMMA HostFunctionStep ==
  ASSUME MemoryInv, NEW range \in Range32, HostFunction(range) PROVE MemoryInv'
  <1> USE DEF MemoryInv, HostFunction
  <1>1. /\ copied' \in [range : Range32, size : Nat, done : BOOLEAN]
        /\ (copied.done => copied.range.ptr + copied.range.len <= copied.size)'
        /\ copied'.done <=> InMemory(range)
    BY CopyInv
  <1>2. MemoryTypeOK'
    BY <1>1 DEF MemoryTypeOK
  <1>3. shipped => OwnerInv'
    <2> SUFFICES ASSUME shipped PROVE OwnerInv'
      OBVIOUS
    <2>1. InMemory(range)
      <3>1. size \in Nat /\ Initial <= size /\ range.ptr + range.len \in Nat
        BY RangeNat, Sizes DEF MemoryTypeOK
      <3>2. CASE range.ptr + range.len <= Initial
        BY <3>1, <3>2, Sizes DEF InMemory
      <3>3. CASE \E b \in blocks :
                   b.ptr <= range.ptr /\ range.ptr + range.len <= b.ptr + b.len
        <4>1. PICK b \in blocks : range.ptr + range.len <= b.ptr + b.len
          BY <3>3
        <4>2. Owned(b) /\ b.ptr + b.len \in Nat
          BY RangeNat DEF OwnerInv, Owned
        <4> QED BY <3>1, <4>1, <4>2 DEF Owned, InMemory
      <3> QED BY <3>2, <3>3
    <2>2. copied'.done
      BY <1>1, <2>1
    <2> QED BY <2>2 DEF OwnerInv, Owned, Output
  <1> QED BY <1>1, <1>2, <1>3

LEMMA ReturnOutputStep ==
  ASSUME MemoryInv, NEW range \in Range32, ReturnOutput(range) PROVE MemoryInv'
  <1> USE DEF MemoryInv, ReturnOutput
  <1> DEFINE returned == IF range.ptr = 0 THEN Null ELSE range
  <1>1. /\ size' \in size..MaxMemory /\ \A b : Owned(b) => Owned(b)'
        /\ \/ range.ptr = 0 /\ blocks' = blocks
           \/ /\ blocks' = blocks \cup {range} /\ Owned(range)'
              /\ range \notin blocks /\ range.ptr # 0
    BY AllocGives
  <1>2. packed' \in 0..(Word * Word - 1) /\ Output' = returned
    <2>1. returned \in Range32 /\ packed' = pack_ptr_len(returned)
      BY NullIsRange
    <2> HIDE DEF returned
    <2> QED BY <2>1, PackedComesBack DEF Output
  <1>3. MemoryTypeOK'
    BY <1>1, <1>2, BlocksStay DEF MemoryTypeOK
  <1>4. OwnerInv'
    <2>1. blocks = {input} /\ Owned(input) /\ pc' = "free_input"
      BY DEF OwnerInv
    <2>2. freed' # "dead" /\ copied'.done /\ input' = input
      BY DEF OwnerInv
    <2>3. CASE range.ptr = 0
      <3>1. Output'.ptr = 0 /\ blocks' = {input}
        BY <1>1, <1>2, <2>1, <2>3 DEF Null
      <3> QED BY <1>1, <2>1, <2>2, <3>1 DEF OwnerInv
    <2>4. CASE range.ptr # 0
      <3>1. Output' = range /\ blocks' = {input, range} /\ input # range /\ Owned(range)'
        BY <1>1, <1>2, <2>1, <2>4
      <3> QED BY <1>1, <2>1, <2>2, <3>1 DEF OwnerInv
    <2> QED BY <2>3, <2>4
  <1> QED BY <1>3, <1>4

LEMMA ReturnAnythingStep ==
  ASSUME MemoryInv, NEW range \in Range32, ReturnAnything(range) PROVE MemoryInv'
  <1> USE DEF MemoryInv, ReturnAnything
  <1>1. packed' \in 0..(Word * Word - 1)
    BY PackedComesBack
  <1>2. MemoryTypeOK'
    BY <1>1, BlocksStay DEF MemoryTypeOK
  <1> QED BY <1>2

LEMMA FreeInputStep == ASSUME MemoryInv, FreeInput PROVE MemoryInv'
  <1> USE DEF MemoryInv, FreeInput
  <1>1. MemoryTypeOK'
    BY DEF MemoryTypeOK, Dealloc
  <1>2. shipped => OwnerInv'
    <2> SUFFICES ASSUME shipped PROVE OwnerInv'
      OBVIOUS
    <2>1. input \in blocks /\ Owned(input) /\ \A b \in blocks : Owned(b)'
      BY DEF OwnerInv, Owned
    <2>2. input.ptr \notin {0, 1} /\ input.len # 0
      BY <2>1, RangeNat DEF Owned
    <2>3. blocks' = blocks \ {input} /\ freed' = "live"
      BY <2>1, <2>2 DEF Dealloc
    <2>4. UNCHANGED <<Output, copied>>
      BY DEF Output
    <2>5. pc' = IF Output.ptr = 0 \/ Output.len = 0 THEN "error" ELSE "read"
      BY DEF Output
    <2>6. pc' = "read" => blocks' = {Output}
      BY <2>3, <2>5 DEF OwnerInv
    <2> QED BY <2>1, <2>3, <2>4, <2>5, <2>6 DEF OwnerInv
  <1> QED BY <1>1, <1>2

LEMMA ReadOutputStep == ASSUME MemoryInv, ReadOutput PROVE MemoryInv'
  <1> USE DEF MemoryInv, ReadOutput
  <1>1. /\ copied' \in [range : Range32, size : Nat, done : BOOLEAN]
        /\ (copied.done => copied.range.ptr + copied.range.len <= copied.size)'
        /\ copied'.done <=> InMemory(Output)
    BY CopyInv, UnpackedIsRange DEF Output
  <1>2. MemoryTypeOK'
    BY <1>1 DEF MemoryTypeOK
  <1>3. shipped => OwnerInv'
    <2> SUFFICES ASSUME shipped PROVE OwnerInv'
      OBVIOUS
    <2>1. blocks = {Output} /\ Owned(Output)
      BY DEF OwnerInv
    <2>2. InMemory(Output)
      BY <2>1 DEF Owned, InMemory
    <2>3. pc' = "free_output" /\ UNCHANGED <<Output, blocks, size, freed>>
      BY <2>2 DEF Output
    <2> QED BY <1>1, <2>1, <2>2, <2>3 DEF OwnerInv, Owned
  <1> QED BY <1>1, <1>2, <1>3

LEMMA FreeOutputStep == ASSUME MemoryInv, FreeOutput PROVE MemoryInv'
  <1> USE DEF MemoryInv, FreeOutput
  <1>1. MemoryTypeOK'
    BY DEF MemoryTypeOK, Dealloc
  <1>2. shipped => OwnerInv'
    <2> SUFFICES ASSUME shipped PROVE OwnerInv'
      OBVIOUS
    <2>1. blocks = {Output} /\ Owned(Output)
      BY DEF OwnerInv
    <2>2. Output.ptr \notin {0, 1} /\ Output.len # 0
      BY <2>1, RangeNat DEF Owned
    <2>3. blocks' = {} /\ freed' = "live" /\ pc' = "done" /\ UNCHANGED copied
      BY <2>1, <2>2 DEF Dealloc, Output
    <2> QED BY <2>3 DEF OwnerInv
  <1> QED BY <1>1, <1>2

LEMMA StepMemory == MemoryInv /\ [MemoryNext]_memoryVars => MemoryInv'
  <1>1. ASSUME MemoryInv, UNCHANGED memoryVars PROVE MemoryInv'
    BY <1>1 DEF memoryVars, MemoryInv, MemoryTypeOK, OwnerInv, Owned, Output
  <1> QED
    BY <1>1, AllocInputStep, WriteInputStep, HostFunctionStep, ReturnOutputStep,
       ReturnAnythingStep, FreeInputStep, ReadOutputStep, FreeOutputStep DEF MemoryNext

LEMMA MemoryInvHolds == MemorySpec => []MemoryInv
  BY InitMemory, StepMemory, PTL DEF MemorySpec

-----------------------------------------------------------------------------
(***************************************************************************)
(* The state stays in its types; a packed pointer fits 64 bits.            *)
(***************************************************************************)
THEOREM MemoryTypeCorrect == MemorySpec => []MemoryTypeOK
  <1>1. MemoryInv => MemoryTypeOK
    BY DEF MemoryInv
  <1> QED BY MemoryInvHolds, <1>1, PTL

(***************************************************************************)
(* No guest, whatever it passes or returns, makes the host touch a byte    *)
(* outside its memory (runtime.rs:461-487).                                *)
(***************************************************************************)
THEOREM CopiesStayInsideHolds == MemorySpec => []CopiesStayInside
  <1>1. ASSUME MemoryInv, copied.done, NEW a \in u32,
               a < copied.range.ptr + copied.range.len
        PROVE  a < copied.size
    <2>1. /\ copied.range.ptr + copied.range.len \in Nat /\ copied.size \in Nat
          /\ copied.range.ptr + copied.range.len <= copied.size
      BY <1>1, RangeNat DEF MemoryInv, MemoryTypeOK
    <2>2. a \in Nat
      BY Sizes DEF u32
    <2> QED BY <1>1, <2>1, <2>2
  <1>2. MemoryInv => CopiesStayInside
    BY <1>1 DEF CopiesStayInside
  <1> QED BY MemoryInvHolds, <1>2, PTL

(***************************************************************************)
(* The shipped agent's own buffers are never refused.                      *)
(***************************************************************************)
THEOREM OwnBuffersAcceptedHolds == MemorySpec => []OwnBuffersAccepted
  <1>1. MemoryInv => OwnBuffersAccepted
    BY DEF MemoryInv, OwnerInv, OwnBuffersAccepted
  <1> QED BY MemoryInvHolds, <1>1, PTL

(***************************************************************************)
(* The host frees what the agent allocated, once, and all of it (crates/   *)
(* tds-agent/src/lib.rs:53, runtime.rs:261-286).                           *)
(***************************************************************************)
THEOREM DeallocMatchesHolds == MemorySpec => []DeallocMatches
  <1>1. MemoryInv => DeallocMatches
    BY DEF MemoryInv, OwnerInv, DeallocMatches
  <1> QED BY MemoryInvHolds, <1>1, PTL

-----------------------------------------------------------------------------
(***************************************************************************)
(* Truncate: what it keeps, for every text, limit and position of the cut. *)
(***************************************************************************)

\* No boundary within the limit has been passed on the way back.
BackInv ==
  /\ s \in Texts /\ max \in CutLimits /\ end \in Nat
  /\ stage \in {"start", "back", "whole", "cut"}
  /\ stage = "back" =>
       /\ end <= max /\ max < s.len
       /\ \A b \in s.boundaries : b <= max => b <= end
  /\ KeepsWhatFits

LEMMA TextShape ==
  ASSUME BackInv
  PROVE  /\ s.len \in Nat /\ max \in Nat
         /\ \A b \in s.boundaries : b \in Nat
         /\ 0 \in s.boundaries
         /\ \A i \in 0..s.len : \E b \in s.boundaries : b <= i /\ i <= b + 3
BY TextAssumption DEF BackInv, Text, Utf8

LEMMA BackInit == TruncateInit => BackInv
BY DEF TruncateInit, BackInv, KeepsWhatFits

LEMMA BackStep == BackInv /\ [TruncateNext]_truncateVars => BackInv'
<1> SUFFICES ASSUME BackInv, [TruncateNext]_truncateVars PROVE BackInv'
  OBVIOUS
<1>1. CASE ReturnWhole
  BY <1>1 DEF ReturnWhole, BackInv, KeepsWhatFits
<1>2. CASE TooLong
  BY <1>2, TextShape DEF TooLong, BackInv, KeepsWhatFits
<1>3. CASE StepBack
  <2>1. \A b \in s.boundaries : b <= max => b <= end - 1
    BY <1>3, TextShape DEF StepBack, BackInv, is_char_boundary
  <2>2. end - 1 \in Nat
    BY <1>3 DEF StepBack, BackInv
  <2> QED  BY <1>3, <2>1, <2>2, TextShape DEF StepBack, BackInv, KeepsWhatFits
<1>4. CASE Cut
  <2>1. end \in s.boundaries
    BY <1>4, TextShape DEF Cut, is_char_boundary
  <2>2. max <= end + 3
    <3>1. PICK b \in s.boundaries : b <= max /\ max <= b + 3
      BY <1>4, TextShape DEF Cut, BackInv
    <3> QED  BY <1>4, <3>1, TextShape DEF Cut, BackInv
  <2> QED  BY <1>4, <2>1, <2>2 DEF Cut, BackInv, KeepsWhatFits
<1>5. CASE UNCHANGED truncateVars
  BY <1>5 DEF truncateVars, BackInv, KeepsWhatFits
<1> QED  BY <1>1, <1>2, <1>3, <1>4, <1>5 DEF TruncateNext

\* truncate never panics, and keeps all that fits (lib.rs:289-298), whatever
\* the text and the limit.
THEOREM KeepsWhatFitsHolds == TruncateSpec => []KeepsWhatFits
<1>1. BackInv => KeepsWhatFits
  BY DEF BackInv
<1> QED  BY BackInit, BackStep, <1>1, PTL DEF TruncateSpec

-----------------------------------------------------------------------------
(***************************************************************************)
(* Startup                                                                 *)
(***************************************************************************)
PolicyAccepted == policyFile # "broken" /\ Validate(policy)
KeyThere == policy.llm.provider = "anthropic" => credential = "set"
ModuleAccepted == agent.wasm /\ VerifyModuleShape(agent)

\* The four checks, as far as they are made of a command.
Vetted(c) ==
  PolicyAccepted /\ agentFile /\ (c = "check_offline" \/ KeyThere) /\ ModuleAccepted

StartupStages ==
  {"policy", "module", "provider", "runtime", "refused", "ready", "ok",
   "listening", "unbound", "too_big", "misfit", "running"}

(***************************************************************************)
(* A command has passed the checks that lie behind it, and was refused for *)
(* one that fails; only serve listens, and only serve and run get to a     *)
(* first run.                                                              *)
(***************************************************************************)
ChecksBehind(c) ==
  /\ at[c] \notin {"refused", "policy"} => PolicyAccepted
  /\ at[c] \notin {"refused", "policy", "module"} => agentFile
  /\ at[c] \notin {"refused", "policy", "module", "provider"} =>
       c = "check_offline" \/ KeyThere
  /\ Passed(c) => ModuleAccepted
  /\ Refused(c) => ~Vetted(c)
  /\ at[c] = "provider" => c # "check_offline"
  /\ at[c] \in {"listening", "unbound"} => c = "serve"
  /\ at[c] \in {"too_big", "misfit", "running"} => c \in {"serve", "run"}

StartupInv ==
  /\ policy.limits \in Limits
  /\ at \in [Commands -> StartupStages]
  /\ \A c \in Commands : ChecksBehind(c)

\* Before its first check no command has accepted anything.
LEMMA InitStartup == ASSUME StartupInit PROVE StartupInv
PROOF
<1>1. Default.limits \in Limits
  BY DEF Default, DefaultLimits, Limits
<1>2. policy.limits \in Limits
  BY <1>1, StartupAssumption DEF StartupInit, Policy
<1>3. at \in [Commands -> StartupStages] /\ \A c \in Commands : at[c] = "policy"
  BY DEF StartupInit, StartupStages
<1>4. \A c \in Commands : ChecksBehind(c)
  BY <1>3 DEF ChecksBehind, Passed, Refused
<1> QED BY <1>2, <1>3, <1>4 DEF StartupInv

\* A step moves one command, and leaves what it looks at as it is.
LEMMA MovesOne ==
  ASSUME StartupInv, NEW c \in Commands, NEW to \in StartupStages,
         at' = [at EXCEPT ![c] = to], UNCHANGED inputs, ChecksBehind(c)'
  PROVE  StartupInv'
PROOF
<1>1. at' \in [Commands -> StartupStages]
  BY DEF StartupInv
<1>2. ASSUME NEW d \in Commands, d # c PROVE ChecksBehind(d)'
  <2>1. at'[d] = at[d] /\ ChecksBehind(d)
    BY <1>2 DEF StartupInv
  <2> QED BY <2>1 DEF ChecksBehind, Passed, Refused, Vetted, PolicyAccepted, KeyThere,
                      ModuleAccepted, inputs
<1> QED BY <1>1, <1>2 DEF StartupInv, inputs

\* Each check, passed or refused, keeps what the checks before it found.
LEMMA NextStartup ==
  ASSUME StartupInv, [StartupNext]_startupVars
  PROVE  StartupInv'
PROOF
<1>1. CASE UNCHANGED startupVars
  BY <1>1 DEF startupVars, inputs, StartupInv, ChecksBehind, Passed, Refused, Vetted,
              PolicyAccepted, KeyThere, ModuleAccepted
<1>2. ASSUME NEW c \in Commands,
             \/ LoadPolicy(c) \/ ReadModule(c) \/ BuildProvider(c) \/ NewRuntime(c)
             \/ Accepted(c) \/ Bind(c) \/ FirstRun(c)
      PROVE  StartupInv'
  <2> USE DEF ChecksBehind, Passed, Refused, Vetted, PolicyAccepted, KeyThere,
              ModuleAccepted, inputs, StartupStages
  <2>1. ChecksBehind(c)
    BY DEF StartupInv
  <2>2. CASE LoadPolicy(c)
    <3>1. PICK st \in StartupStages :
            /\ st = IF policyFile # "broken" /\ Validate(policy) THEN "module" ELSE "refused"
            /\ at' = [at EXCEPT ![c] = st] /\ at'[c] = st /\ UNCHANGED inputs
      BY <2>2 DEF LoadPolicy, Step, StartupInv
    <3>2. ChecksBehind(c)'
      BY <3>1
    <3> QED BY <3>1, <3>2, MovesOne
  <2>3. CASE ReadModule(c)
    <3>1. PICK st \in StartupStages :
            /\ st = IF agentFile THEN IF c = "check_offline" THEN "runtime" ELSE "provider"
                   ELSE "refused"
            /\ at' = [at EXCEPT ![c] = st] /\ at'[c] = st /\ at[c] = "module"
            /\ UNCHANGED inputs
      BY <2>3 DEF ReadModule, Step, StartupInv
    <3>2. ChecksBehind(c)'
      BY <2>1, <3>1
    <3> QED BY <3>1, <3>2, MovesOne
  <2>4. CASE BuildProvider(c)
    <3>1. PICK st \in StartupStages :
            /\ st = IF policy.llm.provider = "anthropic" => credential = "set"
                   THEN "runtime" ELSE "refused"
            /\ at' = [at EXCEPT ![c] = st] /\ at'[c] = st /\ at[c] = "provider"
            /\ UNCHANGED inputs
      BY <2>4 DEF BuildProvider, Step, StartupInv
    <3>2. ChecksBehind(c)'
      BY <2>1, <3>1
    <3> QED BY <3>1, <3>2, MovesOne
  <2>5. CASE NewRuntime(c)
    <3>1. PICK st \in StartupStages :
            /\ st = IF Validate(policy) /\ agent.wasm /\ VerifyModuleShape(agent)
                   THEN "ready" ELSE "refused"
            /\ at' = [at EXCEPT ![c] = st] /\ at'[c] = st /\ at[c] = "runtime"
            /\ UNCHANGED inputs
      BY <2>5 DEF NewRuntime, Step, StartupInv
    <3>2. ChecksBehind(c)'
      BY <2>1, <3>1
    <3> QED BY <3>1, <3>2, MovesOne
  <2>6. CASE Accepted(c)
    <3>1. PICK st \in StartupStages :
            /\ st = "ok" /\ at' = [at EXCEPT ![c] = st] /\ at'[c] = st /\ at[c] = "ready"
            /\ UNCHANGED inputs
      BY <2>6 DEF Accepted, Step, StartupInv
    <3>2. ChecksBehind(c)'
      BY <2>1, <3>1
    <3> QED BY <3>1, <3>2, MovesOne
  <2>7. CASE Bind(c)
    <3>1. PICK st \in {"listening", "unbound"} : at' = [at EXCEPT ![c] = st]
      BY <2>7 DEF Bind
    <3>2. at'[c] = st /\ at[c] = "ready" /\ c = "serve" /\ UNCHANGED inputs
      BY <2>7, <3>1 DEF Bind, StartupInv
    <3>3. ChecksBehind(c)'
      BY <2>1, <3>2
    <3> QED BY <3>1, <3>2, <3>3, MovesOne
  <2>8. CASE FirstRun(c)
    <3>1. PICK st \in {"too_big", "running", "misfit"} : at' = [at EXCEPT ![c] = st]
      BY <2>8 DEF FirstRun
    <3>2. at'[c] = st /\ at[c] \in {"ready", "listening"} /\ c \in {"serve", "run"}
          /\ UNCHANGED inputs
      BY <2>1, <2>8, <3>1 DEF FirstRun, StartupInv
    <3>3. ChecksBehind(c)'
      BY <2>1, <3>2
    <3> QED BY <3>1, <3>2, <3>3, MovesOne
  <2> QED BY <1>2, <2>2, <2>3, <2>4, <2>5, <2>6, <2>7, <2>8
<1> QED BY <1>1, <1>2 DEF StartupNext

(***************************************************************************)
(* check, serve and run accept the same policy, module and credential, and *)
(* whatever comes to run guest code has passed every check, for every      *)
(* policy file and every module.                                           *)
(***************************************************************************)
THEOREM ChecksHoldAlways == StartupSpec => []ChecksHold
PROOF
<1>1. StartupInv => ChecksHold
  <2> SUFFICES ASSUME StartupInv PROVE ChecksHold
    OBVIOUS
  <2>1. CheckSpeaksForServe
    <3>1. \A c \in {"check_offline", "check", "serve", "run"} :
            (Passed(c) => Vetted(c)) /\ (Refused(c) => ~Vetted(c))
      BY DEF StartupInv, Commands, ChecksBehind, Passed, Vetted
    <3> QED BY <3>1 DEF CheckSpeaksForServe, Vetted, KeyThere
  <2>2. ASSUME NEW c \in Commands, at[c] \in {"listening", "running", "misfit"}
        PROVE  /\ c \in {"serve", "run"}
               /\ \A limit \in DOMAIN policy.limits : policy.limits[limit] >= 1
               /\ Range(policy.tools.enabled) \subseteq KnownTools
               /\ agent.imports \subseteq HostFunctions
    <3>1. c \in {"serve", "run"} /\ Validate(policy) /\ VerifyModuleShape(agent)
      BY <2>2 DEF StartupInv, ChecksBehind, Passed, PolicyAccepted, ModuleAccepted
    <3>2. \A limit \in DOMAIN policy.limits : policy.limits[limit] >= 1
      <4>1. policy.limits \in Limits
        BY DEF StartupInv
      <4>2. /\ policy.limits.fuel >= 1 /\ policy.limits.wall_clock_ms >= 1
            /\ policy.limits.memory >= 1 /\ policy.limits.max_steps >= 1
        BY <3>1, <4>1 DEF Validate, Limits
      <4>3. DOMAIN policy.limits = {"fuel", "wall_clock_ms", "memory", "max_steps"}
        BY <4>1 DEF Limits
      <4> QED BY <4>2, <4>3
    <3> QED BY <3>1, <3>2 DEF Validate, VerifyModuleShape
  <2> QED BY <2>1, <2>2 DEF ChecksHold, NothingUnvettedRuns
<1> QED BY <1>1, InitStartup, NextStartup, PTL DEF StartupSpec

-----------------------------------------------------------------------------
(***************************************************************************)
(* EchoPath                                                                *)
(***************************************************************************)
Task == Decode([type |-> "text", fits |-> TRUE, body |-> "task", signature |-> "absent",
                extra |-> "none"])

\* What the guest's conversation is made of, and what of it goes over the wire.
Content == {Decode(json) : json \in Block} \cup {Results, Task}
Sentences == Seq(Content)
Json == {Encode(content) : content \in Content}

\* Content that has been decoded once comes back the same from every hop.
LEMMA DecodedIsStable ==
  ASSUME NEW content \in Content
  PROVE  Decode(Encode(content)) = content
PROOF
<1>1. ASSUME NEW json, json.type \in KnownTypes, json.fits
      PROVE  Decode(Encode(Decode(json))) = Decode(json)
  <2> DEFINE signature == IF json.signature = "null" THEN "absent" ELSE json.signature
  <2>1. signature # "null"
    OBVIOUS
  <2> HIDE DEF signature
  <2>2. Decode(json) = [arm |-> "known", type |-> json.type, body |-> json.body,
                        signature |-> signature]
    BY <1>1 DEF Decode, signature
  <2>3. Encode(Decode(json)) = [type |-> json.type, fits |-> TRUE, body |-> json.body,
                                signature |-> signature, extra |-> "none"]
    BY <2>2 DEF Encode
  <2> QED BY <1>1, <2>1, <2>2, <2>3 DEF Decode
<1>2. ASSUME NEW json, ~(json.type \in KnownTypes /\ json.fits)
      PROVE  Decode(Encode(Decode(json))) = Decode(json)
  <2>1. Decode(json) = [arm |-> "raw", json |-> json]
    BY <1>2 DEF Decode
  <2>2. Encode(Decode(json)) = json
    BY <2>1 DEF Encode
  <2> QED BY <2>2
<1>3. Decode(Encode(Task)) = Task
  <2> DEFINE json == [type |-> "text", fits |-> TRUE, body |-> "task",
                      signature |-> "absent", extra |-> "none"]
  <2>1. json.type \in KnownTypes /\ json.fits
    BY DEF KnownTypes
  <2> HIDE DEF json
  <2>2. Decode(Encode(Decode(json))) = Decode(json)
    BY <1>1, <2>1
  <2> QED BY <2>2 DEF Task, json
<1>4. Decode(Encode(Results)) = Results
  <2>1. Encode(Results) = [type |-> "tool_result", fits |-> TRUE, body |-> "results",
                           signature |-> "absent", extra |-> "none"]
    BY DEF Results, Encode
  <2> QED BY <2>1 DEF Decode, Results, KnownTypes
<1>5. CASE content \in {Decode(json) : json \in Block}
  <2>1. PICK json \in Block : content = Decode(json)
    BY <1>5
  <2> QED BY <1>1, <1>2, <2>1
<1> QED BY <1>3, <1>4, <1>5 DEF Content

\* An API block keeps what matters of it when it is decoded and encoded again.
LEMMA BlockIsKept ==
  ASSUME NEW json \in Block
  PROVE  KeptIn(json, Encode(Decode(json)))
PROOF
<1>1. CASE json.type \in KnownTypes /\ json.fits
  <2>1. json.type # "other"
    BY <1>1 DEF KnownTypes
  <2>2. Decode(json) = [arm |-> "known", type |-> json.type, body |-> json.body,
                        signature |-> IF json.signature = "null" THEN "absent"
                                      ELSE json.signature]
    BY <1>1 DEF Decode
  <2> QED BY <1>1, <2>1, <2>2 DEF Encode, KeptIn
<1>2. CASE ~(json.type \in KnownTypes /\ json.fits)
  <2>1. Encode(Decode(json)) = json
    BY <1>2 DEF Decode, Encode
  <2> QED BY <2>1 DEF KeptIn
<1> QED BY <1>1, <1>2

\* The guest's content as it is sent: as long, and the same after another hop.
LEMMA EncodedOnce ==
  ASSUME NEW m \in Sentences
  PROVE  /\ EncodeAll(m) \in Seq(Json)
         /\ DecodeAll(EncodeAll(m)) = m
         /\ EncodeAll(DecodeAll(EncodeAll(m))) = EncodeAll(m)
PROOF
<1> DEFINE n == Len(m)
           encoded == [i \in 1..n |-> Encode(m[i])]
<1>1. n \in Nat /\ DOMAIN m = 1..n /\ (\A i \in 1..n : m[i] \in Content)
      /\ m = [i \in 1..n |-> m[i]]
  BY DEF Sentences
<1>2. EncodeAll(m) = encoded
  BY <1>1 DEF EncodeAll
<1>3. encoded \in Seq(Json)
  <2>1. encoded \in [1..n -> Json]
    BY <1>1 DEF Json
  <2> HIDE DEF encoded
  <2> QED BY <1>1, <2>1
<1>4. DecodeAll(encoded) = [i \in 1..n |-> Decode(Encode(m[i]))]
  BY DEF DecodeAll
<1>5. DecodeAll(encoded) = m
  <2>1. \A i \in 1..n : Decode(Encode(m[i])) = m[i]
    BY <1>1, DecodedIsStable
  <2> QED BY <1>1, <1>4, <2>1
<1> QED BY <1>2, <1>3, <1>5

\* An answer is as long for the guest as for the API, and kept block by block.
LEMMA DecodedAnswer ==
  ASSUME NEW js \in Seq(Block)
  PROVE  /\ DecodeAll(js) \in Sentences
         /\ Len(EncodeAll(DecodeAll(js))) = Len(js)
         /\ \A i \in DOMAIN js : KeptIn(js[i], EncodeAll(DecodeAll(js))[i])
PROOF
<1> DEFINE n == Len(js)
           decoded == [i \in 1..n |-> Decode(js[i])]
           encoded == [i \in 1..n |-> Encode(Decode(js[i]))]
<1>1. n \in Nat /\ DOMAIN js = 1..n /\ \A i \in 1..n : js[i] \in Block
  OBVIOUS
<1>2. DecodeAll(js) = decoded
  BY <1>1 DEF DecodeAll
<1>3. EncodeAll(decoded) = encoded
  BY DEF EncodeAll
<1>4. decoded \in Sentences
  <2>1. decoded \in [1..n -> Content]
    BY <1>1 DEF Content
  <2> HIDE DEF decoded
  <2> QED BY <1>1, <2>1 DEF Sentences
<1>5. Len(encoded) = n
  BY <1>1
<1>6. \A i \in 1..n : KeptIn(js[i], encoded[i])
  BY <1>1, BlockIsKept
<1> QED BY <1>1, <1>2, <1>3, <1>4, <1>5, <1>6

\* A conversation, as it goes over the wire.
Wired(ms) == [i \in DOMAIN ms |-> EncodeAll(ms[i])]

\* Each message is written block by block; what was written, read and written
\* again is the same.
LEMMA WiredShape ==
  ASSUME NEW ms \in Seq(Sentences)
  PROVE  /\ Wired(ms) \in Seq(Seq(Json)) /\ Len(Wired(ms)) = Len(ms)
         /\ \A i \in 1..Len(ms) : Wired(ms)[i] = EncodeAll(ms[i])
         /\ [i \in DOMAIN Wired(ms) |-> EncodeAll(DecodeAll(Wired(ms)[i]))] = Wired(ms)
PROOF
<1> DEFINE n == Len(ms)
           wired == [i \in 1..n |-> EncodeAll(ms[i])]
<1>1. n \in Nat /\ DOMAIN ms = 1..n /\ \A i \in 1..n : ms[i] \in Sentences
  OBVIOUS
<1>2. Wired(ms) = wired
  BY <1>1 DEF Wired
<1>3. wired \in [1..n -> Seq(Json)]
  BY <1>1, EncodedOnce
<1>4. wired \in Seq(Seq(Json)) /\ Len(wired) = n
  <2> HIDE DEF wired
  <2> QED BY <1>1, <1>3
<1>5. \A i \in 1..n : EncodeAll(DecodeAll(wired[i])) = wired[i]
  BY <1>1, EncodedOnce
<1>6. [i \in 1..n |-> EncodeAll(DecodeAll(wired[i]))] = wired
  BY <1>5
<1>7. DOMAIN wired = 1..n
  OBVIOUS
<1> QED BY <1>2, <1>4, <1>6, <1>7

(***************************************************************************)
(* The conversation has each answer at its place, decoded once, and each   *)
(* request was what the conversation is up to its length.                  *)
(***************************************************************************)
EchoPlace ==
  /\ hop \in {"guest", "host", "api"} => Len(messages) = 2 * Len(answers) + 1
  /\ hop = "answer" => Len(messages) + 1 = 2 * Len(answers)
  /\ hop \in {"guest", "host", "api", "answer", "done"}
  /\ IF hop = "api" THEN Len(sent) = Len(answers) + 1 ELSE Len(sent) = Len(answers)
  /\ hop = "host" => wire = Wired(messages)
  /\ hop = "answer" => wire = EncodeAll(DecodeAll(answers[Len(answers)]))

Echoed ==
  \A k \in 1..Len(answers) :
    2 * k <= Len(messages) => messages[2 * k] = DecodeAll(answers[k])

SentBefore ==
  \A n \in 1..Len(sent) :
    /\ Len(sent[n]) = 2 * n - 1 /\ 2 * n - 1 <= Len(messages)
    /\ \A i \in 1..(2 * n - 1) : sent[n][i] = EncodeAll(messages[i])

EchoInv ==
  /\ messages \in Seq(Sentences)
  /\ answers \in Seq(Seq(Block)) /\ sent \in Seq(Seq(Seq(Json)))
  /\ EchoPlace /\ Echoed /\ SentBefore

\* Nothing has been sent yet.
LEMMA InitEcho == ASSUME EchoInit PROVE EchoInv
PROOF
<1>1. messages = <<<<Task>>>> /\ answers = <<>> /\ sent = <<>> /\ hop = "guest"
  BY DEF EchoInit, Task
<1>2. \A S, e : e \in S => <<e>> \in Seq(S) /\ Len(<<e>>) = 1
  OBVIOUS
<1>3. Task \in Content
  BY DEF Content
<1>4. messages \in Seq(Sentences) /\ Len(messages) = 1
  BY <1>1, <1>2, <1>3 DEF Sentences
<1>5. Len(answers) = 0 /\ Len(sent) = 0
  BY <1>1
<1>6. EchoPlace
  BY <1>1, <1>4, <1>5 DEF EchoPlace
<1>7. Echoed /\ SentBefore
  BY <1>5 DEF Echoed, SentBefore
<1> QED BY <1>1, <1>4, <1>6, <1>7 DEF EchoInv

\* An answer, its way through the guest, and the next request keep the
\* invariant.
LEMMA NextEcho == ASSUME EchoInv, [EchoNext]_echoVars PROVE EchoInv'
PROOF
<1>1. /\ messages \in Seq(Sentences) /\ answers \in Seq(Seq(Block))
      /\ sent \in Seq(Seq(Seq(Json)))
      /\ Len(messages) \in Nat /\ Len(answers) \in Nat /\ Len(sent) \in Nat
      /\ EchoPlace /\ Echoed /\ SentBefore
  BY DEF EchoInv
<1>2. CASE UNCHANGED echoVars
  BY <1>1, <1>2 DEF echoVars, EchoInv, EchoPlace, Echoed, SentBefore
<1>3. CASE Ask
  <2>1. /\ hop = "guest" /\ hop' = "host" /\ wire' = Wired(messages)
        /\ UNCHANGED <<messages, answers, sent>>
    BY <1>3 DEF Ask, Wired
  <2> QED BY <1>1, <2>1 DEF EchoInv, EchoPlace, Echoed, SentBefore
<1>4. CASE Forward
  <2> DEFINE wired == Wired(messages)
  <2>1. /\ hop = "host" /\ hop' = "api"
        /\ sent' = Append(sent, [i \in DOMAIN wire |-> EncodeAll(DecodeAll(wire[i]))])
        /\ UNCHANGED <<messages, answers>>
    BY <1>4 DEF Forward
  <2>2. sent' = Append(sent, wired)
    BY <1>1, <2>1, WiredShape DEF EchoPlace
  <2>3. /\ wired \in Seq(Seq(Json)) /\ Len(wired) = Len(messages)
        /\ \A i \in 1..Len(messages) : wired[i] = EncodeAll(messages[i])
    BY <1>1, WiredShape
  <2> HIDE DEF wired
  <2>4. /\ sent' \in Seq(Seq(Seq(Json))) /\ Len(sent') = Len(sent) + 1
        /\ sent'[Len(sent) + 1] = wired
        /\ \A n \in 1..Len(sent) : sent'[n] = sent[n]
    BY <1>1, <2>2, <2>3
  <2>5. Len(sent) = Len(answers) /\ Len(messages) = 2 * (Len(sent) + 1) - 1
    <3>1. Len(sent) = Len(answers) /\ Len(messages) = 2 * Len(answers) + 1
      BY <2>1, <1>1 DEF EchoPlace
    <3>2. \A x \in Nat : 2 * x + 1 = 2 * (x + 1) - 1
      OBVIOUS
    <3> QED BY <1>1, <3>1, <3>2
  <2>6. EchoPlace'
    BY <1>1, <2>1, <2>4, <2>5 DEF EchoPlace
  <2>7. SentBefore'
    <3> DEFINE Copies(request, n) ==
                 /\ Len(request) = 2 * n - 1 /\ 2 * n - 1 <= Len(messages)
                 /\ \A i \in 1..(2 * n - 1) : request[i] = EncodeAll(messages[i])
    <3> SUFFICES ASSUME NEW n \in 1..(Len(sent) + 1) PROVE Copies(sent'[n], n)
      BY <2>1, <2>4 DEF SentBefore
    <3>1. CASE n = Len(sent) + 1
      <4>1. Copies(sent'[Len(sent) + 1], Len(sent) + 1)
        <5> DEFINE last == 2 * (Len(sent) + 1) - 1
        <5>1. Len(messages) = last /\ last \in Int /\ last <= last
          BY <1>1, <2>5
        <5>2. sent'[Len(sent) + 1] = wired
          BY <2>4
        <5>3. Len(wired) = last /\ \A i \in 1..last : wired[i] = EncodeAll(messages[i])
          BY <2>3, <5>1
        <5> HIDE DEF last
        <5> QED BY <5>1, <5>2, <5>3 DEF last
      <4> QED BY <3>1, <4>1
    <3>2. CASE n \in 1..Len(sent)
      BY <1>1, <2>4, <3>2 DEF SentBefore
    <3>3. n = Len(sent) + 1 \/ n \in 1..Len(sent)
      BY <1>1
    <3> QED BY <3>1, <3>2, <3>3
  <2> QED BY <1>1, <2>1, <2>4, <2>6, <2>7 DEF EchoInv, Echoed
<1>5. ASSUME NEW n \in 0..MaxBlocks, NEW js \in [1..n -> Blocks], Answer(js)
      PROVE  EchoInv'
  <2>1. /\ hop = "api" /\ hop' = "answer" /\ answers' = Append(answers, js)
        /\ wire' = EncodeAll(DecodeAll(js)) /\ UNCHANGED <<messages, sent>>
    BY <1>5 DEF Answer
  <2>2. js \in Seq(Block)
    <3>1. js \in [1..n -> Block] /\ n \in Nat
      BY EchoAssumption
    <3> QED BY <3>1
  <2>3. /\ answers' \in Seq(Seq(Block)) /\ Len(answers') = Len(answers) + 1
        /\ answers'[Len(answers) + 1] = js
        /\ \A k \in 1..Len(answers) : answers'[k] = answers[k]
    BY <1>1, <2>1, <2>2
  <2>4. Len(messages) = 2 * Len(answers) + 1 /\ Len(sent) = Len(answers) + 1
    BY <1>1, <2>1 DEF EchoPlace
  <2>5. EchoPlace'
    BY <1>1, <2>1, <2>3, <2>4 DEF EchoPlace
  <2>6. Echoed'
    <3> SUFFICES ASSUME NEW k \in 1..(Len(answers) + 1), 2 * k <= Len(messages)
                 PROVE  messages[2 * k] = DecodeAll(answers'[k])
      BY <2>1, <2>3 DEF Echoed
    <3>1. k \in 1..Len(answers)
      BY <1>1, <2>4
    <3> QED BY <1>1, <2>3, <3>1 DEF Echoed
  <2> QED BY <1>1, <2>1, <2>3, <2>5, <2>6 DEF EchoInv, SentBefore
<1>6. CASE Read
  <2> DEFINE content == DecodeAll(wire)
             last == Len(messages) + 1
  <2>1. /\ hop = "answer" /\ UNCHANGED <<wire, answers, sent>>
        /\ \/ hop' = "done" /\ messages' = Append(messages, content)
           \/ hop' = "guest" /\ messages' = messages \o <<content, <<Results>>>>
    BY <1>6 DEF Read
  <2>2. last = 2 * Len(answers) /\ Len(answers) \in 1..Len(answers)
        /\ Len(sent) = Len(answers)
    BY <1>1, <2>1 DEF EchoPlace
  <2>3. answers[Len(answers)] \in Seq(Block)
    BY <1>1, <2>2
  <2>4. content = DecodeAll(answers[Len(answers)]) /\ content \in Sentences
    BY <1>1, <2>1, <2>3, DecodedAnswer, EncodedOnce DEF EchoPlace
  <2>5. <<Results>> \in Sentences
    <3>1. Results \in Content
      BY DEF Content
    <3> QED BY <3>1 DEF Sentences
  <2> HIDE DEF content
  <2>6. /\ messages' \in Seq(Sentences)
        /\ messages'[last] = content
        /\ \A i \in 1..Len(messages) : messages'[i] = messages[i]
        /\ Len(messages') = IF hop' = "done" THEN last ELSE last + 1
    <3>1. CASE hop' = "done" /\ messages' = Append(messages, content)
      BY <1>1, <2>4, <3>1
    <3>2. CASE hop' = "guest" /\ messages' = messages \o <<content, <<Results>>>>
      <4> DEFINE two == <<content, <<Results>>>>
      <4>1. two \in Seq(Sentences) /\ Len(two) = 2 /\ two[1] = content
        BY <2>4, <2>5
      <4> HIDE DEF two
      <4>2. messages' = messages \o two
        BY <3>2 DEF two
      <4>3. /\ messages' \in Seq(Sentences) /\ Len(messages') = Len(messages) + 2
            /\ \A i \in 1..Len(messages) : messages'[i] = messages[i]
            /\ messages'[Len(messages) + 1] = two[1]
        <5>1. messages \in Seq(Sentences) /\ Len(messages) \in Nat
          BY <1>1
        <5>2. /\ messages \o two \in Seq(Sentences)
              /\ Len(messages \o two) = Len(messages) + 2
              /\ \A i \in 1..Len(messages) : (messages \o two)[i] = messages[i]
              /\ (messages \o two)[Len(messages) + 1] = two[1]
          <6>1. two \in Seq(Sentences) /\ Len(two) = 2
            BY <4>1
          <6>2. ASSUME NEW x \in Seq(Sentences), NEW y \in Seq(Sentences), Len(y) = 2
                PROVE  /\ x \o y \in Seq(Sentences) /\ Len(x \o y) = Len(x) + 2
                       /\ \A i \in 1..Len(x) : (x \o y)[i] = x[i]
                       /\ (x \o y)[Len(x) + 1] = y[1]
            BY <6>2, TwoMore
          <6> QED BY <5>1, <6>1, <6>2, Zenon
        <5> QED BY <4>2, <5>2
      <4> QED BY <1>1, <3>2, <4>1, <4>3
    <3> QED BY <2>1, <3>1, <3>2
  <2>7. EchoPlace'
    BY <1>1, <2>1, <2>2, <2>6 DEF EchoPlace
  <2>8. Echoed'
    <3> SUFFICES ASSUME NEW k \in 1..Len(answers)
                 PROVE  messages'[2 * k] = DecodeAll(answers[k])
      BY <2>1 DEF Echoed
    <3>1. CASE k = Len(answers)
      BY <2>2, <2>4, <2>6, <3>1
    <3>2. CASE k # Len(answers)
      <4>1. 2 * k \in 1..Len(messages)
        BY <1>1, <2>2, <3>2
      <4> QED BY <1>1, <2>6, <4>1 DEF Echoed
    <3> QED BY <3>1, <3>2
  <2>9. SentBefore'
    <3> SUFFICES ASSUME NEW n \in 1..Len(sent)
                 PROVE  /\ Len(sent[n]) = 2 * n - 1 /\ 2 * n - 1 <= Len(messages')
                        /\ \A i \in 1..(2 * n - 1) : sent[n][i] = EncodeAll(messages'[i])
      BY <2>1 DEF SentBefore
    <3>1. /\ Len(sent[n]) = 2 * n - 1 /\ 2 * n - 1 <= Len(messages)
          /\ \A i \in 1..(2 * n - 1) : sent[n][i] = EncodeAll(messages[i])
      BY <1>1 DEF SentBefore
    <3>2. Len(messages) <= Len(messages')
      BY <1>1, <2>6
    <3>3. \A i \in 1..(2 * n - 1) : i \in 1..Len(messages)
      BY <1>1, <3>1
    <3>4. Len(sent[n]) = 2 * n - 1 /\ 2 * n - 1 <= Len(messages')
      BY <1>1, <2>6, <3>1, <3>2
    <3>5. ASSUME NEW i \in 1..(2 * n - 1)
          PROVE  sent[n][i] = EncodeAll(messages'[i])
      BY <2>6, <3>1, <3>3
    <3> QED BY <3>4, <3>5
  <2> QED BY <1>1, <2>1, <2>6, <2>7, <2>8, <2>9 DEF EchoInv
<1> QED BY <1>2, <1>3, <1>4, <1>5, <1>6 DEF EchoNext

(***************************************************************************)
(* Every later request of a run has each answer in its place, block by     *)
(* block as the API gave it as far as it matters, and repeats the request  *)
(* before it, for every API and any number of turns.                       *)
(***************************************************************************)
THEOREM EchoFaithfulHolds == EchoSpec => []EchoFaithful
PROOF
<1>1. EchoInv => EchoFaithful
  <2> SUFFICES ASSUME EchoInv PROVE EchoFaithful
    OBVIOUS
  <2>1. /\ messages \in Seq(Sentences) /\ answers \in Seq(Seq(Block))
        /\ sent \in Seq(Seq(Seq(Json)))
        /\ Len(messages) \in Nat /\ Len(answers) \in Nat /\ Len(sent) \in Nat
        /\ Len(sent) <= Len(answers) + 1
        /\ DOMAIN sent = 1..Len(sent)
        /\ Echoed /\ SentBefore
    BY DEF EchoInv, EchoPlace
  <2>2. ASSUME NEW n \in DOMAIN sent, NEW k \in 1..(n - 1)
        PROVE  /\ Len(sent[n][2 * k]) = Len(answers[k])
               /\ \A i \in DOMAIN answers[k] : KeptIn(answers[k][i], sent[n][2 * k][i])
    <3> DEFINE a == Len(answers)
               b == Len(sent)
    <3>1. a \in Nat /\ b \in Nat /\ b <= a + 1 /\ n \in 1..b
      BY <2>1
    <3>2. n \in Nat /\ k \in Nat /\ k >= 1 /\ k <= n - 1
      <4> HIDE DEF a, b
      <4> QED BY <3>1
    <3>3. k \in 1..a /\ 2 * k \in 1..(2 * n - 1)
      <4> HIDE DEF a, b
      <4> QED BY <3>1, <3>2
    <3>4. 2 * n - 1 <= Len(messages)
      BY <2>1, <3>1 DEF SentBefore
    <3>5. answers[k] \in Seq(Block) /\ 2 * k <= Len(messages)
      <4>1. 2 * k <= 2 * n - 1 /\ 2 * k \in Int /\ 2 * n - 1 \in Int
        BY <3>2
      <4>2. 2 * k <= Len(messages)
        BY <2>1, <3>4, <4>1
      <4>3. answers[k] \in Seq(Block)
        BY <2>1, <3>3
      <4> QED BY <4>2, <4>3
    <3>6. sent[n][2 * k] = EncodeAll(DecodeAll(answers[k]))
      BY <2>1, <3>1, <3>3, <3>5 DEF SentBefore, Echoed
    <3> QED BY <3>5, <3>6, DecodedAnswer
  <2>3. ASSUME NEW n \in 2..Len(sent)
        PROVE  /\ Len(sent[n]) >= Len(sent[n - 1])
               /\ \A i \in DOMAIN sent[n - 1] : sent[n][i] = sent[n - 1][i]
    <3>1. n \in 1..Len(sent) /\ n - 1 \in 1..Len(sent)
      BY <2>1
    <3>2. /\ Len(sent[n]) = 2 * n - 1 /\ Len(sent[n - 1]) = 2 * (n - 1) - 1
          /\ \A i \in 1..(2 * n - 1) : sent[n][i] = EncodeAll(messages[i])
          /\ \A i \in 1..(2 * (n - 1) - 1) : sent[n - 1][i] = EncodeAll(messages[i])
      BY <2>1, <3>1 DEF SentBefore
    <3>3. DOMAIN sent[n - 1] = 1..(2 * (n - 1) - 1)
      <4>1. sent[n - 1] \in Seq(Seq(Json))
        BY <2>1, <3>1
      <4> QED BY <3>2, <4>1
    <3>4. 2 * (n - 1) - 1 <= 2 * n - 1
          /\ \A i \in 1..(2 * (n - 1) - 1) : i \in 1..(2 * n - 1)
      BY <2>1
    <3> QED BY <3>2, <3>3, <3>4
  <2> QED BY <2>2, <2>3 DEF EchoFaithful, EchoKeepsBlocks, Echoes, EchoIsStable
<1> QED BY <1>1, InitEcho, NextEcho, PTL DEF EchoSpec

-----------------------------------------------------------------------------
(***************************************************************************)
(* Allowlist                                                               *)
(***************************************************************************)
Letter == Chars \cup {"a", "b", ".", "*"}
Name == Seq(Letter)
LabelSeq == Seq(Name) \ {<<>>}

\* One character more begins a label, or goes on with the last one.
NextLabels(labels, c) ==
  IF c = "." THEN Append(labels, <<>>)
  ELSE [labels EXCEPT ![Len(labels)] = Append(labels[Len(labels)], c)]

\* The labels of a name that goes on are labels again, at least one.
LEMMA NextLabelsShape ==
  ASSUME NEW labels \in LabelSeq, NEW c \in Letter
  PROVE  NextLabels(labels, c) \in LabelSeq
PROOF
<1>1. labels \in Seq(Name) /\ labels # <<>> /\ <<>> \in Name
  BY DEF LabelSeq, Name
<1>2. CASE c = "."
  BY <1>1, <1>2 DEF NextLabels, LabelSeq
<1>3. CASE c # "."
  <2> DEFINE n == Len(labels)
             last == Append(labels[n], c)
             more == [labels EXCEPT ![n] = last]
  <2>1. n \in Nat /\ n \in 1..n /\ labels \in [1..n -> Name]
    BY <1>1
  <2>2. last \in Name
    BY <2>1 DEF Name
  <2> HIDE DEF n, last
  <2>3. more \in [1..n -> Name]
    BY <2>1, <2>2
  <2> HIDE DEF more
  <2>4. more \in Seq(Name) /\ Len(more) = n
    BY <2>1, <2>3
  <2>5. more # <<>>
    BY <2>1, <2>4
  <2> QED BY <1>3, <2>4, <2>5 DEF NextLabels, LabelSeq, more, last, n
<1> QED BY <1>2, <1>3

\* The labels of a name come about character by character.
LEMMA LabelStages ==
  ASSUME NEW name \in Name
  PROVE  \E f : /\ Labels(name) = f[1..Len(name)]
                /\ f[{}] = <<<<>>>>
                /\ f[1..Len(name)] \in LabelSeq
                /\ \A k \in 1..Len(name) :
                     f[1..k] = NextLabels(f[1..(k - 1)], name[k])
PROOF
<1> DEFINE n == Len(name)
           F == [p \in LabelSeq \X (1..n) |-> NextLabels(p[1], name[p[2]])]
           Fold(f) == f = [T \in SUBSET DOMAIN name |->
                             IF T = {} THEN <<<<>>>>
                             ELSE NextLabels(f[T \ {Max(T)}], name[Max(T)])]
<1>1. n \in Nat /\ DOMAIN name = 1..n /\ \A k \in 1..n : name[k] \in Letter
  BY DEF Name
<1>2. F \in Steps(LabelSeq, n)
  <2>1. \A k \in 1..n, labels \in LabelSeq : NextLabels(labels, name[k]) \in LabelSeq
    BY <1>1, NextLabelsShape
  <2> QED BY <2>1 DEF Steps
<1>3. <<<<>>>> \in LabelSeq
  BY DEF LabelSeq, Name
<1>4. PICK h \in [SUBSET (1..n) -> LabelSeq] : IsFold(h, F, <<<<>>>>, n)
  <2> HIDE DEF F, n
  <2> QED BY <1>1, <1>2, <1>3, FoldExists
<1>5. Fold(h)
  <2>1. ASSUME NEW T \in SUBSET (1..n), T # {}
        PROVE  h[T] = NextLabels(h[T \ {Max(T)}], name[Max(T)])
    <3>1. Max(T) \in 1..n /\ T \ {Max(T)} \in SUBSET (1..n)
      BY <1>1, <2>1, MaxIn
    <3>2. h[T \ {Max(T)}] \in LabelSeq
      BY <3>1
    <3> QED BY <1>4, <2>1, <3>1, <3>2 DEF IsFold
  <2>2. h[{}] = <<<<>>>>
    BY <1>4 DEF IsFold
  <2> QED BY <1>1, <2>1, <2>2
<1> DEFINE g == CHOOSE f : Fold(f)
<1>6. Fold(g)
  <2> HIDE DEF Fold
  <2> QED BY <1>5
<1>7. Labels(name) = g[1..n]
  BY <1>1 DEF Labels, FoldLeft, MapThenFoldSet, NextLabels
<1> HIDE DEF g
<1>8. g[{}] = <<<<>>>>
  BY <1>6
<1>9. ASSUME NEW f, Fold(f), NEW k \in 1..n
      PROVE  f[1..k] = NextLabels(f[1..(k - 1)], name[k])
  <2>1. /\ 1..k \in SUBSET (1..n) /\ 1..k # {} /\ Max(1..k) = k
        /\ (1..k) \ {k} = 1..(k - 1)
    BY <1>1, LastStage
  <2> QED BY <1>1, <1>9, <2>1
<1>10. g[1..n] \in LabelSeq
  <2>1. h[{}] = <<<<>>>> /\ h[1..n] \in LabelSeq
    BY <1>1, <1>5
  <2>2. \A k \in 1..n : h[1..(k - 1)] = g[1..(k - 1)] => h[1..k] = g[1..k]
    <3> HIDE DEF Fold, g
    <3>1. \A k \in 1..n : h[1..k] = NextLabels(h[1..(k - 1)], name[k])
      BY <1>5, <1>9
    <3>2. \A k \in 1..n : g[1..k] = NextLabels(g[1..(k - 1)], name[k])
      BY <1>6, <1>9
    <3> QED BY <3>1, <3>2
  <2>3. h[1..n] = g[1..n]
    <3>1. h[{}] = g[{}] /\ n \in Nat
      BY <1>1, <1>8, <2>1
    <3> HIDE DEF n, g, F, Fold
    <3>2. ASSUME NEW k \in 1..n, h[1..(k - 1)] = g[1..(k - 1)]
          PROVE  h[1..k] = g[1..k]
      BY <2>2, <3>2
    <3> QED BY <3>1, <3>2, SameFold, ZenonT(60)
  <2> QED BY <2>1, <2>3
<1>11. \A k \in 1..n : g[1..k] = NextLabels(g[1..(k - 1)], name[k])
  <2> HIDE DEF Fold
  <2> QED BY <1>6, <1>9
<1> QED BY <1>7, <1>8, <1>10, <1>11

\* Labels can be told character by character, from the last one.
LEMMA LabelsAppend ==
  ASSUME NEW name \in Name, NEW c \in Letter
  PROVE  /\ Labels(name) \in LabelSeq
         /\ Labels(Append(name, c)) = NextLabels(Labels(name), c)
PROOF
<1> DEFINE longer == Append(name, c)
           n == Len(name)
<1>1. /\ longer \in Name /\ Len(longer) = n + 1 /\ n \in Nat
      /\ longer[n + 1] = c /\ \A k \in 1..n : longer[k] = name[k]
  BY DEF Name
<1> HIDE DEF longer
<1>2. PICK f : /\ Labels(name) = f[1..n] /\ f[{}] = <<<<>>>> /\ f[1..n] \in LabelSeq
               /\ \A k \in 1..n : f[1..k] = NextLabels(f[1..(k - 1)], name[k])
  BY LabelStages
<1>3. PICK g : /\ Labels(longer) = g[1..(n + 1)] /\ g[{}] = <<<<>>>>
               /\ \A k \in 1..(n + 1) : g[1..k] = NextLabels(g[1..(k - 1)], longer[k])
  <2>1. \E g : /\ Labels(longer) = g[1..Len(longer)] /\ g[{}] = <<<<>>>>
               /\ \A k \in 1..Len(longer) :
                    g[1..k] = NextLabels(g[1..(k - 1)], longer[k])
    BY <1>1, LabelStages
  <2> QED BY <1>1, <2>1
<1>4. f[1..n] = g[1..n]
  <2>1. \A k \in 1..n : k \in 1..(n + 1)
    BY <1>1
  <2>2. \A k \in 1..n : f[1..(k - 1)] = g[1..(k - 1)] => f[1..k] = g[1..k]
    BY <1>1, <1>2, <1>3, <2>1
  <2>3. n \in Nat /\ f[{}] = g[{}]
    BY <1>1, <1>2, <1>3
  <2> HIDE DEF n
  <2> QED BY <2>2, <2>3, SameFold, ZenonT(30)
<1>5. g[1..(n + 1)] = NextLabels(g[1..n], c)
  <2>1. n + 1 \in 1..(n + 1) /\ (n + 1) - 1 = n
    BY <1>1
  <2> QED BY <1>1, <1>3, <2>1
<1> QED BY <1>2, <1>3, <1>4, <1>5 DEF longer

\* A name without characters has one label, without characters.
LEMMA LabelsEmpty == Labels(<<>>) = <<<<>>>>
PROOF
<1>1. PICK f : Labels(<<>>) = f[1..0] /\ f[{}] = <<<<>>>>
  <2>1. <<>> \in Name /\ Len(<<>>) = 0
    BY DEF Name
  <2> QED BY <2>1, LabelStages
<1>2. 1..0 = {}
  OBVIOUS
<1> QED BY <1>1, <1>2

\* The labels of a name and those of the name with one character more.
LEMMA LabelsShape ==
  ASSUME NEW name \in Name, NEW c \in Letter
  PROVE  LET ls == Labels(name)
             more == Labels(Append(name, c))
             n == Len(ls)
         IN  /\ ls \in Seq(Name) /\ more \in Seq(Name) /\ n \in Nat \ {0}
             /\ Len(more) = IF c = "." THEN n + 1 ELSE n
             /\ more[Len(more)] = IF c = "." THEN <<>> ELSE Append(ls[n], c)
             /\ c # "." => more[Len(more)] # <<>>
             /\ \A i \in 1..(Len(more) - 1) : more[i] = ls[i]
PROOF
<1> DEFINE ls == Labels(name)
           more == Labels(Append(name, c))
           n == Len(ls)
<1>1. ls \in LabelSeq /\ more = NextLabels(ls, c) /\ more \in LabelSeq
  BY LabelsAppend, NextLabelsShape
<1> HIDE DEF ls, more
<1>2. ls \in Seq(Name) /\ more \in Seq(Name) /\ n \in Nat \ {0} /\ n \in 1..n
  BY <1>1 DEF LabelSeq
<1>3. CASE c = "."
  <2>1. more = Append(ls, <<>>)
    BY <1>1, <1>3 DEF NextLabels
  <2>2. <<>> \in Name
    BY DEF Name
  <2>3. /\ Len(more) = n + 1 /\ more[n + 1] = <<>>
        /\ \A i \in 1..n : more[i] = ls[i]
    BY <1>2, <2>1, <2>2
  <2> QED BY <1>2, <1>3, <2>3 DEF ls, more
<1>4. CASE c # "."
  <2> DEFINE last == Append(ls[n], c)
  <2>1. more = [ls EXCEPT ![n] = last]
    BY <1>1, <1>4 DEF NextLabels
  <2>2. last \in Name /\ last # <<>>
    <3>1. ls[n] \in Seq(Letter)
      BY <1>2 DEF Name
    <3>2. ASSUME NEW word \in Seq(Letter)
          PROVE  Append(word, c) \in Seq(Letter) /\ Append(word, c) # <<>>
      BY AppendProperties
    <3> QED BY <3>1, <3>2 DEF Name
  <2> HIDE DEF last
  <2>3. /\ Len(more) = n /\ more[n] = last
        /\ \A i \in 1..(n - 1) : more[i] = ls[i]
    <3>1. DOMAIN ls = 1..n /\ DOMAIN more = 1..Len(more) /\ Len(more) \in Nat
      BY <1>2
    <3> HIDE DEF n
    <3>2. DOMAIN more = 1..n /\ more[n] = last /\ \A i \in 1..(n - 1) : more[i] = ls[i]
      BY <1>2, <2>1, <3>1
    <3>3. Len(more) = n
      <4> DEFINE m == Len(more)
      <4>1. m \in Nat /\ 1..n = 1..m
        BY <3>1, <3>2
      <4> HIDE DEF m
      <4>2. n \in 1..m /\ (m >= 1 => m \in 1..n)
        BY <1>2, <4>1
      <4> QED BY <1>2, <4>1, <4>2 DEF m
    <3> QED BY <3>2, <3>3
  <2> QED BY <1>2, <1>4, <2>2, <2>3 DEF ls, more, last
<1> QED BY <1>3, <1>4

\* The last label is where a name goes on, whatever labels come before.
LEMMA NextLabelsConcat ==
  ASSUME NEW before \in Seq(Name), NEW labels \in LabelSeq, NEW c \in Letter
  PROVE  NextLabels(before \o labels, c) = before \o NextLabels(labels, c)
PROOF
<1> DEFINE m == Len(before)
           n == Len(labels)
           both == before \o labels
           more == NextLabels(labels, c)
<1>1. /\ labels \in Seq(Name) /\ m \in Nat /\ n \in Nat /\ n \in 1..n
      /\ both \in Seq(Name) /\ Len(both) = m + n
      /\ \A i \in 1..m : both[i] = before[i]
      /\ \A i \in 1..n : both[m + i] = labels[i]
  BY DEF LabelSeq
<1>2. <<>> \in Name
  BY DEF Name
<1>3. CASE c = "."
  <2>1. \A x, y \in Seq(Name), e \in Name : Append(x \o y, e) = x \o Append(y, e)
    OBVIOUS
  <2> QED BY <1>1, <1>2, <1>3, <2>1 DEF NextLabels
<1>4. CASE c # "."
  <2> DEFINE last == Append(labels[n], c)
  <2>1. both[m + n] = labels[n]
    BY <1>1
  <2>2. /\ NextLabels(both, c) = [both EXCEPT ![m + n] = last]
        /\ more = [labels EXCEPT ![n] = last]
    BY <1>1, <1>4, <2>1 DEF NextLabels
  <2>3. last \in Name
    <3>1. labels[n] \in Seq(Letter)
      BY <1>1 DEF Name
    <3> QED BY <3>1, AppendProperties DEF Name
  <2>4. more \in Seq(Name) /\ Len(more) = n
    <3>1. DOMAIN labels = 1..n /\ labels \in [1..n -> Name]
      BY <1>1
    <3> HIDE DEF more, n, last
    <3>2. more \in [1..n -> Name]
      BY <2>2, <2>3, <3>1
    <3> QED BY <1>1, <3>2
  <2> HIDE DEF last, m, n, both, more
  <2>5. DOMAIN both = 1..(m + n) /\ DOMAIN labels = 1..n
    BY <1>1 DEF n
  <2> DEFINE left == [both EXCEPT ![m + n] = last]
             right == before \o more
  <2>6. /\ right \in Seq(Name) /\ Len(right) = m + n
        /\ \A i \in 1..m : right[i] = before[i]
        /\ \A i \in 1..n : right[m + i] = more[i]
    <3>1. ASSUME NEW x \in Seq(Name), NEW y \in Seq(Name)
          PROVE  /\ x \o y \in Seq(Name) /\ Len(x \o y) = Len(x) + Len(y)
                 /\ \A i \in 1..Len(x) : (x \o y)[i] = x[i]
                 /\ \A i \in 1..Len(y) : (x \o y)[Len(x) + i] = y[i]
      OBVIOUS
    <3> HIDE DEF right
    <3>2. /\ right \in Seq(Name) /\ Len(right) = m + Len(more)
          /\ \A i \in 1..m : right[i] = before[i]
          /\ \A i \in 1..Len(more) : right[m + i] = more[i]
      BY <2>4, <3>1 DEF m, right
    <3> QED BY <2>4, <3>2
  <2>7. left \in Seq(Name) /\ Len(left) = m + n
    <3>1. left \in [1..(m + n) -> Name]
      <4>1. both \in [1..(m + n) -> Name]
        BY <1>1
      <4> QED BY <2>3, <4>1
    <3> HIDE DEF left
    <3> QED BY <1>1, <3>1
  <2>8. ASSUME NEW i \in 1..(m + n) PROVE left[i] = right[i]
    <3>1. CASE i \in 1..m
      <4>1. i # m + n
        BY <1>1, <3>1
      <4> QED BY <1>1, <2>5, <2>6, <3>1, <4>1
    <3>2. CASE i = m + n
      BY <1>1, <2>2, <2>5, <2>6, <3>2
    <3>3. CASE i \notin 1..m /\ i # m + n
      <4>1. i - m \in 1..n /\ m + (i - m) = i /\ i - m # n
        BY <1>1, <3>3
      <4>2. left[i] = both[i] /\ more[i - m] = labels[i - m]
        BY <2>2, <2>5, <3>3, <4>1
      <4>3. both[m + (i - m)] = labels[i - m] /\ right[m + (i - m)] = more[i - m]
        BY <1>1, <2>6, <4>1
      <4> QED BY <4>1, <4>2, <4>3
    <3> QED BY <3>1, <3>2, <3>3
  <2>9. left = right
    <3> HIDE DEF left, right
    <3> QED BY <2>6, <2>7, <2>8, SeqEqual
  <2> QED BY <2>2, <2>9 DEF both, more
<1> QED BY <1>3, <1>4

\* A dot between two names puts the labels of one after those of the other.
LEMMA LabelsConcat ==
  ASSUME NEW a \in Name, NEW b \in Name
  PROVE  Labels((a \o <<".">>) \o b) = Labels(a) \o Labels(b)
PROOF
<1> DEFINE front == a \o <<".">>
           T == {t \in Name : Labels(front \o t) = Labels(a) \o Labels(t)}
<1>1. "." \in Letter
  BY DEF Letter
<1>2. front \in Name /\ front = Append(a, ".") /\ front \o <<>> = front
  <2>1. \A x \in Seq(Letter), e \in Letter :
          x \o <<e>> \in Seq(Letter) /\ x \o <<e>> = Append(x, e)
    OBVIOUS
  <2>2. \A x \in Seq(Letter) : x \o <<>> = x
    OBVIOUS
  <2> QED BY <1>1, <2>1, <2>2 DEF Name
<1> HIDE DEF front
<1>3. Labels(a) \in LabelSeq
  BY <1>1, LabelsAppend
<1>4. <<>> \in T
  <2>1. Labels(front) = Append(Labels(a), <<>>)
    BY <1>1, <1>2, LabelsAppend DEF NextLabels
  <2>2. \A x \in Seq(Name), e \in Name : x \o <<e>> = Append(x, e)
    OBVIOUS
  <2>3. <<>> \in Name /\ Labels(a) \in Seq(Name)
    BY <1>3 DEF Name, LabelSeq
  <2> QED BY <1>2, <2>1, <2>2, <2>3, LabelsEmpty
<1>5. ASSUME NEW t \in Name, NEW c \in Letter, t \in T
      PROVE  Append(t, c) \in T
  <2>1. front \o Append(t, c) = Append(front \o t, c) /\ front \o t \in Name
        /\ Append(t, c) \in Name
    BY <1>2 DEF Name
  <2>2. Labels(front \o Append(t, c)) = NextLabels(Labels(a) \o Labels(t), c)
    BY <1>5, <2>1, LabelsAppend
  <2>3. /\ Labels(a) \in Seq(Name) /\ Labels(t) \in LabelSeq
        /\ Labels(Append(t, c)) = NextLabels(Labels(t), c)
    BY <1>3, LabelsAppend DEF LabelSeq
  <2>4. NextLabels(Labels(a) \o Labels(t), c) = Labels(a) \o Labels(Append(t, c))
    BY <2>3, NextLabelsConcat
  <2> QED BY <2>1, <2>2, <2>4
<1> HIDE DEF T
<1>6. \A t \in Seq(Letter) : t \in T
  BY <1>4, <1>5, SeqSetInduction DEF Name
<1> QED BY <1>6 DEF T, Name, front

\* A name that is not empty has more to it than one empty label.
LEMMA LabelsOfMore ==
  ASSUME NEW name \in Name, NEW c \in Letter
  PROVE  Labels(Append(name, c)) # <<<<>>>>
PROOF
<1> DEFINE ls == Labels(name)
           more == Labels(Append(name, c))
           n == Len(ls)
<1>1. /\ n \in Nat \ {0} /\ Len(more) = IF c = "." THEN n + 1 ELSE n
      /\ c # "." => more[Len(more)] # <<>>
  BY LabelsShape
<1> HIDE DEF ls, more
<1>2. Len(<<<<>>>>) = 1 /\ <<<<>>>>[1] = <<>>
  OBVIOUS
<1>3. ASSUME more = <<<<>>>> PROVE FALSE
  <2>1. Len(more) = 1 /\ more[1] = <<>>
    BY <1>2, <1>3
  <2> HIDE DEF n
  <2>2. c # "."
    BY <1>1, <2>1
  <2>3. more[Len(more)] = <<>>
    BY <2>1
  <2> QED BY <1>1, <2>2, <2>3
<1> QED BY <1>3 DEF more

\* Two names with the same labels are the same.
LEMMA LabelsInjective ==
  ASSUME NEW a \in Name, NEW b \in Name, Labels(a) = Labels(b)
  PROVE  a = b
PROOF
<1> DEFINE T == {t \in Name : \A u \in Name : Labels(t) = Labels(u) => t = u}
<1>1. \A u \in Name : u = <<>> \/ \E u0 \in Name, d \in Letter : u = Append(u0, d)
  BY SequenceEmptyOrAppend DEF Name
<1>2. <<>> \in T
  <2>1. <<>> \in Name
    BY DEF Name
  <2>2. ASSUME NEW u \in Name, Labels(<<>>) = Labels(u) PROVE u = <<>>
    BY <1>1, <2>2, LabelsEmpty, LabelsOfMore
  <2> QED BY <2>1, <2>2
<1>3. ASSUME NEW t \in Name, NEW c \in Letter, t \in T
      PROVE  Append(t, c) \in T
  <2>1. Append(t, c) \in Name
    BY AppendProperties DEF Name
  <2>2. ASSUME NEW u \in Name, Labels(Append(t, c)) = Labels(u)
        PROVE  Append(t, c) = u
    <3>1. u # <<>>
      BY <2>2, LabelsEmpty, LabelsOfMore
    <3>2. PICK u0 \in Name, d \in Letter : u = Append(u0, d)
      BY <1>1, <3>1
    <3> DEFINE x == Labels(t)
               y == Labels(u0)
               more == Labels(u)
               n == Len(more)
    <3>3. /\ x \in Seq(Name) /\ Len(x) \in Nat \ {0}
          /\ n = IF c = "." THEN Len(x) + 1 ELSE Len(x)
          /\ more[n] = IF c = "." THEN <<>> ELSE Append(x[Len(x)], c)
          /\ c # "." => more[n] # <<>>
          /\ \A i \in 1..(n - 1) : more[i] = x[i]
      <4>1. more = Labels(Append(t, c))
        BY <2>2
      <4> HIDE DEF x, more
      <4> QED BY <4>1, LabelsShape, ZenonT(40) DEF x
    <3>4. /\ y \in Seq(Name) /\ Len(y) \in Nat \ {0}
          /\ n = IF d = "." THEN Len(y) + 1 ELSE Len(y)
          /\ more[n] = IF d = "." THEN <<>> ELSE Append(y[Len(y)], d)
          /\ d # "." => more[n] # <<>>
          /\ \A i \in 1..(n - 1) : more[i] = y[i]
      <4>1. more = Labels(Append(u0, d))
        BY <3>2
      <4> HIDE DEF y, more
      <4> QED BY <4>1, LabelsShape, ZenonT(40) DEF y
    <3> HIDE DEF x, y, more
    <3>5. c = "." <=> d = "."
      BY <3>3, <3>4
    <3>6. Len(x) = Len(y)
      BY <3>3, <3>4, <3>5
    <3>7. c = d /\ \A i \in 1..Len(x) : x[i] = y[i]
      <4>1. CASE c = "."
        <5>1. n - 1 = Len(x) /\ c = d
          BY <3>3, <3>5, <4>1
        <5> QED BY <3>3, <3>4, <5>1
      <4>2. CASE c # "."
        <5>1. x[Len(x)] \in Seq(Letter) /\ y[Len(y)] \in Seq(Letter)
          BY <3>3, <3>4 DEF Name
        <5>2. Append(x[Len(x)], c) = Append(y[Len(y)], d)
          BY <3>3, <3>4, <3>5, <4>2
        <5>3. \A v, w \in Seq(Letter) : Append(v, c) = Append(w, d) => v = w /\ c = d
          BY AppendInjective
        <5>4. x[Len(x)] = y[Len(y)] /\ c = d
          BY <5>1, <5>2, <5>3
        <5>5. n = Len(x) /\ \A i \in 1..n : i = n \/ i \in 1..(n - 1)
          BY <3>3, <4>2
        <5> QED BY <3>3, <3>4, <3>6, <5>4, <5>5
      <4> QED BY <4>1, <4>2
    <3>8. x = y
      BY <3>3, <3>4, <3>6, <3>7, SeqEqual
    <3>9. t = u0
      BY <1>3, <3>8 DEF x, y
    <3> QED BY <3>2, <3>7, <3>9
  <2> QED BY <2>1, <2>2
<1>4. \A t \in Name : t \in T
  <2> HIDE DEF T
  <2> QED BY <1>2, <1>3, SeqSetInduction DEF Name
<1> QED BY <1>4

\* A name goes on after its last dot.
LEMMA GoesOn ==
  ASSUME NEW a \in Name, NEW b \in Name, NEW c \in Letter
  PROVE  /\ Append((a \o <<".">>) \o b, c) = (a \o <<".">>) \o Append(b, c)
         /\ Append(a, c) = (a \o <<c>>) \o <<>>
         /\ Append(b, c) \in Name
PROOF
<1> DEFINE front == a \o <<".">>
<1>1. a \in Seq(Letter) /\ b \in Seq(Letter) /\ "." \in Letter
  BY DEF Name, Letter
<1>2. front \in Seq(Letter)
  BY <1>1
<1>3. Append(a, c) = a \o <<c>> /\ a \o <<c>> \in Seq(Letter)
  BY <1>1
<1>4. \A x \in Seq(Letter) : x \o <<>> = x
  OBVIOUS
<1>5. Append(b, c) \in Name
  BY <1>1, AppendProperties DEF Name
<1> HIDE DEF front
<1>6. Append(front \o b, c) = front \o Append(b, c)
  <2>1. front \o b \in Seq(Letter) /\ <<c>> \in Seq(Letter)
    BY <1>1, <1>2
  <2>2. Append(front \o b, c) = (front \o b) \o <<c>> /\ Append(b, c) = b \o <<c>>
    BY <1>1, <2>1, AppendIsConcat
  <2>3. (front \o b) \o <<c>> = front \o (b \o <<c>>)
    <3>1. ASSUME NEW x \in Seq(Letter), NEW y \in Seq(Letter), NEW z \in Seq(Letter)
          PROVE  (x \o y) \o z = x \o (y \o z)
      BY ConcatAssociative
    <3> QED BY <1>1, <1>2, <2>1, <3>1, Zenon
  <2> QED BY <2>2, <2>3
<1> QED BY <1>3, <1>4, <1>5, <1>6 DEF front

\* A name with more than k labels has a dot after the k-th.
LEMMA LabelsSplit ==
  ASSUME NEW name \in Name, NEW k \in Nat, k >= 1, k < Len(Labels(name))
  PROVE  \E a, b \in Name : name = (a \o <<".">>) \o b /\ Len(Labels(a)) = k
PROOF
<1> DEFINE Split(t) == \E a, b \in Name :
                         t = (a \o <<".">>) \o b /\ Len(Labels(a)) = k
           T == {t \in Name : k < Len(Labels(t)) => Split(t)}
<1>1. <<>> \in T
  <2>1. Len(Labels(<<>>)) = 1 /\ <<>> \in Name
    BY LabelsEmpty DEF Name
  <2>2. ~(k < Len(Labels(<<>>)))
    <3> DEFINE m == Len(Labels(<<>>))
    <3>1. m = 1
      BY <2>1
    <3> HIDE DEF m
    <3>2. ~(k < m)
      BY <3>1
    <3> QED BY <3>2 DEF m
  <2> HIDE DEF Split
  <2> QED BY <2>1, <2>2
<1>2. ASSUME NEW t \in Name, NEW c \in Letter, t \in T
      PROVE  Append(t, c) \in T
  <2>1. Append(t, c) \in Name
    BY AppendProperties DEF Name
  <2> SUFFICES ASSUME k < Len(Labels(Append(t, c))) PROVE Split(Append(t, c))
    BY <2>1
  <2> DEFINE n == Len(Labels(t))
  <2>2. n \in Nat /\ Len(Labels(Append(t, c))) = IF c = "." THEN n + 1 ELSE n
    BY LabelsShape
  <2>3. CASE k < n
    <3>1. PICK a, b \in Name : t = (a \o <<".">>) \o b /\ Len(Labels(a)) = k
      BY <1>2, <2>3
    <3>2. Append(t, c) = (a \o <<".">>) \o Append(b, c) /\ Append(b, c) \in Name
      BY <3>1, GoesOn
    <3> QED BY <3>1, <3>2
  <2>4. CASE ~(k < n)
    <3>1. c = "." /\ n = k
      BY <2>2, <2>4
    <3>2. <<>> \in Name
      BY DEF Name
    <3>3. Append(t, c) = (t \o <<".">>) \o <<>>
      BY <3>1, <3>2, GoesOn
    <3> QED BY <3>1, <3>2, <3>3
  <2> QED BY <2>3, <2>4
<1> HIDE DEF T
<1>3. \A t \in Name : t \in T
  BY <1>1, <1>2, SeqSetInduction DEF Name
<1> QED BY <1>3 DEF T

\* The labels of a name end with those of another if it is that name, or ends
\* with it after a dot.
LEMMA UnderName ==
  ASSUME NEW b \in Name, NEW h \in Name
  PROVE  IsSuffix(Labels(b), Labels(h)) <=> h = b \/ IsSuffix(<<".">> \o b, h)
PROOF
<1> DEFINE x == Labels(b)
           y == Labels(h)
           dotted == <<".">> \o b
<1>1. "." \in Letter
  BY DEF Letter
<1>2. /\ x \in Seq(Name) /\ Len(x) \in Nat \ {0}
      /\ y \in Seq(Name) /\ Len(y) \in Nat \ {0}
  BY <1>1, LabelsShape
<1>3. dotted \in Name
  BY <1>1 DEF Name
<1>4. \A u \in Name : (u \o <<".">>) \o b = u \o dotted
  BY <1>1 DEF Name
<1> HIDE DEF x, y, dotted
<1>5. ASSUME h = b PROVE IsSuffix(x, y)
  <2>1. x = y
    BY <1>5 DEF x, y
  <2>2. Len(y) <= Len(y) /\ \A i \in 1..Len(y) : y[i] = y[Len(y) - Len(y) + i]
    BY <1>2
  <2> QED BY <1>2, <2>1, <2>2, SuffixIs
<1>6. ASSUME IsSuffix(dotted, h) PROVE IsSuffix(x, y)
  <2>1. PICK u \in Name : h = u \o dotted
    BY <1>3, <1>6, SuffixSplit DEF Name
  <2>2. y = Labels(u) \o x
    BY <1>4, <2>1, LabelsConcat DEF x, y
  <2>3. Labels(u) \in Seq(Name)
    BY <1>1, LabelsShape
  <2> QED BY <1>2, <2>2, <2>3, SuffixSplit
<1>7. ASSUME IsSuffix(x, y), h # b PROVE IsSuffix(dotted, h)
  <2>1. PICK u \in Seq(Name) : y = u \o x
    BY <1>2, <1>7, SuffixSplit
  <2>2. CASE u = <<>>
    <3>1. y = x
      BY <1>2, <2>1, <2>2
    <3> QED BY <1>7, <3>1, LabelsInjective DEF x, y
  <2>3. CASE u # <<>>
    <3> DEFINE k == Len(u)
    <3>1. k \in Nat /\ k >= 1 /\ k < Len(y)
      BY <1>2, <2>1, <2>3
    <3>2. PICK a, c \in Name : h = (a \o <<".">>) \o c /\ Len(Labels(a)) = k
      <4> HIDE DEF k
      <4> QED BY <3>1, LabelsSplit DEF y
    <3> DEFINE v == Labels(a)
               w == Labels(c)
    <3>3. y = v \o w
      BY <3>2, LabelsConcat DEF y
    <3>4. v \in Seq(Name) /\ w \in Seq(Name) /\ Len(v) = Len(u)
      BY <1>1, <3>2, LabelsShape
    <3> HIDE DEF v, w
    <3>5. w = x
      <4>1. v \o w = u \o x
        BY <2>1, <3>3
      <4>2. Len(w) = Len(x)
        BY <1>2, <3>4, <4>1
      <4>3. ASSUME NEW i \in 1..Len(w) PROVE w[i] = x[i]
        <5>1. w[i] = (v \o w)[Len(v) + i]
          BY <3>4
        <5>2. x[i] = (u \o x)[Len(u) + i]
          BY <1>2, <4>2
        <5> QED BY <3>4, <4>1, <5>1, <5>2
      <4> QED BY <1>2, <3>4, <4>2, <4>3, SeqEqual
    <3>6. c = b
      BY <3>5, LabelsInjective DEF w, x
    <3>7. h = a \o dotted
      BY <1>4, <3>2, <3>6
    <3> QED BY <1>3, <3>7, SuffixSplit DEF Name
  <2> QED BY <2>2, <2>3
<1> QED BY <1>5, <1>6, <1>7 DEF x, y, dotted

\* A star alone is one label.
LEMMA StarLabel == Labels(<<"*">>) = <<<<"*">>>> /\ <<"*">> \in Name
PROOF
<1>1. "*" \in Letter /\ <<>> \in Name
  BY DEF Letter, Name
<1>2. <<"*">> = Append(<<>>, "*")
  OBVIOUS
<1>3. Labels(<<"*">>) = NextLabels(<<<<>>>>, "*")
  BY <1>1, <1>2, LabelsAppend, LabelsEmpty
<1>4. NextLabels(<<<<>>>>, "*") = <<<<"*">>>>
  BY <1>2 DEF NextLabels
<1>5. <<"*">> \in Name
  BY <1>1 DEF Name
<1> QED BY <1>3, <1>4, <1>5

\* A rule with a star: how the code and how the labels tell it.
LEMMA StarRule ==
  ASSUME NEW rule \in Name
  PROVE  LET suffix == SubSeq(rule, 3, Len(rule))
             ls == Labels(rule)
         IN  /\ IsPrefix(Wildcard, rule) <=> ls[1] = <<"*">> /\ Len(ls) > 1
             /\ suffix \in Name
             /\ IsPrefix(Wildcard, rule) => Tail(ls) = Labels(suffix)
PROOF
<1> DEFINE suffix == SubSeq(rule, 3, Len(rule))
           ls == Labels(rule)
<1>1. /\ "*" \in Letter /\ "." \in Letter /\ rule \in Seq(Letter)
      /\ Len(rule) \in Nat
  BY DEF Letter, Name
<1>2. /\ suffix \in Name
      /\ Len(rule) >= 2 => /\ Len(suffix) = Len(rule) - 2
                           /\ \A i \in 1..(Len(rule) - 2) : suffix[i] = rule[i + 2]
  <2>1. /\ suffix \in Seq(Letter)
        /\ Len(suffix) = IF 3 <= Len(rule) THEN Len(rule) - 3 + 1 ELSE 0
        /\ \A i \in 1..(Len(rule) - 3 + 1) : suffix[i] = rule[3 + i - 1]
    <3>1. 3 \in 1..(Len(rule) + 1) \/ 3 > Len(rule)
      BY <1>1
    <3> QED BY <1>1, <3>1, SubSeqProperties
  <2> HIDE DEF suffix
  <2>2. suffix \in Name
    BY <2>1 DEF Name
  <2>3. ASSUME Len(rule) >= 2 PROVE Len(suffix) = Len(rule) - 2
    <3> DEFINE n == Len(rule)
               m == Len(suffix)
    <3>1. n \in Nat /\ n >= 2 /\ m = IF 3 <= n THEN n - 3 + 1 ELSE 0
      BY <1>1, <2>1, <2>3
    <3> HIDE DEF n, m
    <3>2. m = n - 2
      BY <3>1
    <3> QED BY <3>2 DEF n, m
  <2>4. ASSUME NEW i \in 1..(Len(rule) - 2) PROVE suffix[i] = rule[i + 2]
    <3>1. 3 + i - 1 = i + 2 /\ i \in 1..(Len(rule) - 3 + 1)
      BY <1>1
    <3> QED BY <2>1, <3>1
  <2> QED BY <2>2, <2>3, <2>4 DEF suffix
<1>3. /\ Wildcard \in Seq(Letter) /\ Len(Wildcard) = 2
      /\ Wildcard[1] = "*" /\ Wildcard[2] = "."
      /\ <<"*">> \o <<".">> = Wildcard
  <2>1. ASSUME NEW x \in Letter, NEW y \in Letter
        PROVE  /\ <<x, y>> \in Seq(Letter) /\ Len(<<x, y>>) = 2
               /\ <<x, y>>[1] = x /\ <<x, y>>[2] = y
               /\ <<x>> \o <<y>> = <<x, y>>
    <3>1. <<x, y>> = Append(<<x>>, y) /\ <<x>> \in Seq(Letter)
      OBVIOUS
    <3>2. Append(<<x>>, y) = <<x>> \o <<y>>
      BY <3>1, AppendIsConcat
    <3>3. <<x, y>> \in Seq(Letter) /\ Len(<<x, y>>) = 2
      OBVIOUS
    <3>4. <<x, y>>[1] = x /\ <<x, y>>[2] = y
      OBVIOUS
    <3> QED BY <3>1, <3>2, <3>3, <3>4
  <2> QED BY <1>1, <2>1 DEF Wildcard
<1>10. ASSUME NEW x \in Seq(Letter), Len(x) = 2, NEW y \in Seq(Letter)
       PROVE  /\ x \o y \in Seq(Letter) /\ Len(x \o y) = 2 + Len(y)
              /\ Len(y) \in Nat
              /\ (x \o y)[1] = x[1] /\ (x \o y)[2] = x[2]
              /\ \A i \in 1..Len(y) : (x \o y)[2 + i] = y[i]
  <2> DEFINE z == x \o y
  <2>1. /\ z \in Seq(Letter) /\ Len(z) = Len(x) + Len(y)
        /\ \A i \in 1..(Len(x) + Len(y)) :
             z[i] = IF i <= Len(x) THEN x[i] ELSE y[i - Len(x)]
    BY ConcatProperties
  <2>2. Len(y) \in Nat
    OBVIOUS
  <2> HIDE DEF z
  <2>3. z[1] = x[1] /\ z[2] = x[2]
    BY <1>10, <2>1, <2>2
  <2>4. ASSUME NEW i \in 1..Len(y) PROVE z[2 + i] = y[i]
    <3>1. 2 + i \in 1..(2 + Len(y)) /\ ~(2 + i <= 2) /\ (2 + i) - 2 = i
      BY <2>2
    <3> QED BY <1>10, <2>1, <3>1
  <2> QED BY <1>10, <2>1, <2>2, <2>3, <2>4 DEF z
<1> HIDE DEF suffix, ls
<1>4. IsPrefix(Wildcard, rule)
        <=> Len(rule) >= 2 /\ rule[1] = "*" /\ rule[2] = "."
  BY <1>1, <1>3, PrefixIs
<1>5. ASSUME IsPrefix(Wildcard, rule)
      PROVE  rule = (<<"*">> \o <<".">>) \o suffix
  <2> DEFINE whole == Wildcard \o suffix
  <2>1. /\ whole \in Seq(Letter) /\ Len(whole) = Len(rule)
        /\ whole[1] = "*" /\ whole[2] = "."
        /\ \A i \in 1..(Len(rule) - 2) : whole[i + 2] = suffix[i]
    <3>1. /\ whole \in Seq(Letter) /\ Len(whole) = 2 + Len(suffix)
          /\ whole[1] = Wildcard[1] /\ whole[2] = Wildcard[2]
          /\ \A i \in 1..Len(suffix) : whole[2 + i] = suffix[i]
      <4>1. suffix \in Seq(Letter)
        BY <1>2 DEF Name
      <4> QED BY <1>3, <1>10, <4>1
    <3> HIDE DEF whole
    <3>2. Len(suffix) = Len(rule) - 2
      BY <1>2, <1>4, <1>5
    <3>3. Len(whole) = Len(rule)
      BY <1>1, <3>1, <3>2
    <3>4. whole[1] = "*" /\ whole[2] = "."
      BY <1>3, <3>1
    <3>5. \A i \in 1..(Len(rule) - 2) : i + 2 = 2 + i
      BY <1>1
    <3> QED BY <3>1, <3>2, <3>3, <3>4, <3>5
  <2> HIDE DEF whole
  <2>2. ASSUME NEW i \in 1..Len(whole) PROVE whole[i] = rule[i]
    <3>1. CASE i = 1 \/ i = 2
      BY <1>4, <1>5, <2>1, <3>1
    <3>2. CASE i > 2
      <4>1. i - 2 \in 1..(Len(rule) - 2) /\ (i - 2) + 2 = i
        BY <1>1, <2>1, <3>2
      <4> QED BY <1>2, <1>4, <1>5, <2>1, <4>1
    <3> QED BY <3>1, <3>2
  <2>3. whole = rule
    BY <1>1, <2>1, <2>2, SeqEqual
  <2> QED BY <1>3, <2>3 DEF whole
<1>6. ASSUME NEW b \in Name, rule = (<<"*">> \o <<".">>) \o b
      PROVE  /\ IsPrefix(Wildcard, rule)
             /\ ls[1] = <<"*">> /\ Len(ls) > 1 /\ Tail(ls) = Labels(b)
  <2> DEFINE lb == Labels(b)
  <2>1. ls = <<<<"*">>>> \o lb
    BY <1>6, StarLabel, LabelsConcat DEF ls
  <2>2. lb \in Seq(Name) /\ Len(lb) \in Nat \ {0}
    BY <1>1, LabelsShape
  <2> HIDE DEF lb
  <2>3. ls[1] = <<"*">> /\ Len(ls) > 1 /\ Tail(ls) = lb
    <3>1. ASSUME NEW e \in Name
          PROVE  /\ (<<e>> \o lb)[1] = e /\ Len(<<e>> \o lb) = Len(lb) + 1
                 /\ Tail(<<e>> \o lb) = lb
      BY <2>2
    <3> QED BY <2>1, <2>2, <3>1, StarLabel
  <2>4. rule = Wildcard \o b
    BY <1>3, <1>6
  <2>5. Len(rule) >= 2 /\ rule[1] = "*" /\ rule[2] = "."
    <3>1. /\ Len(rule) = 2 + Len(b) /\ Len(b) \in Nat
          /\ rule[1] = Wildcard[1] /\ rule[2] = Wildcard[2]
      <4>1. b \in Seq(Letter)
        BY DEF Name
      <4> QED BY <1>3, <1>10, <2>4, <4>1
    <3> QED BY <1>3, <3>1
  <2> QED BY <1>4, <2>3, <2>5 DEF lb
<1>7. ASSUME ls[1] = <<"*">>, Len(ls) > 1
      PROVE  IsPrefix(Wildcard, rule)
  <2>1. PICK a, b \in Name : rule = (a \o <<".">>) \o b /\ Len(Labels(a)) = 1
    <3>1. 1 \in Nat /\ 1 >= 1 /\ 1 < Len(Labels(rule))
      BY <1>7 DEF ls
    <3> QED BY <3>1, LabelsSplit
  <2> DEFINE la == Labels(a)
             lb == Labels(b)
  <2>2. ls = la \o lb /\ la \in Seq(Name) /\ lb \in Seq(Name) /\ Len(la) = 1
    BY <1>1, <2>1, LabelsConcat, LabelsShape DEF ls
  <2> HIDE DEF la, lb
  <2>3. la = <<<<"*">>>>
    <3>1. ls[1] = la[1]
      <4>1. ASSUME NEW x \in Seq(Name), NEW y \in Seq(Name), Len(x) = 1
            PROVE  (x \o y)[1] = x[1]
        <5>1. Len(y) \in Nat /\ 1 \in 1..(Len(x) + Len(y)) /\ 1 <= Len(x)
          BY <4>1
        <5> QED BY <5>1, ConcatProperties
      <4> QED BY <2>2, <4>1
    <3>2. \A e \in Seq(Name) : Len(e) = 1 => e = <<e[1]>>
      OBVIOUS
    <3> QED BY <1>7, <2>2, <3>1, <3>2
  <2>4. a = <<"*">>
    BY <2>3, StarLabel, LabelsInjective DEF la
  <2> QED BY <1>6, <2>1, <2>4
<1>8. IsPrefix(Wildcard, rule) <=> ls[1] = <<"*">> /\ Len(ls) > 1
  BY <1>2, <1>5, <1>6, <1>7
<1>9. IsPrefix(Wildcard, rule) => Tail(ls) = Labels(suffix)
  BY <1>2, <1>5, <1>6
<1> QED BY <1>2, <1>8, <1>9 DEF suffix, ls

\* Capitals and blanks: what is left of a name is a name.
LEMMA LowerName ==
  ASSUME NEW name \in Name
  PROVE  Lower(name) \in Name
PROOF
<1> DEFINE n == Len(name)
           low == Lower(name)
<1>1. n \in Nat /\ DOMAIN name = 1..n /\ \A i \in 1..n : name[i] \in Letter
  BY DEF Name
<1>2. low \in [1..n -> Letter]
  <2>1. "a" \in Letter
    BY DEF Letter
  <2> HIDE DEF n
  <2> QED BY <1>1, <2>1 DEF Lower
<1>3. \A m \in Nat : [1..m -> Letter] \subseteq Seq(Letter)
  OBVIOUS
<1> QED BY <1>1, <1>2, <1>3 DEF Name

\* Without the blanks around it a name is a name still, or nothing is left.
LEMMA TrimmedName ==
  ASSUME NEW name \in Name
  PROVE  Trimmed(name) \in Name
PROOF
<1> DEFINE n == Len(name)
           inner == {i \in DOMAIN name : name[i] # " "}
           a == Min(inner)
           b == Max(inner)
<1>1. n \in Nat /\ DOMAIN name = 1..n /\ \A i \in 1..n : name[i] \in Letter
  BY DEF Name
<1>2. Trimmed(name) = IF inner = {} THEN <<>> ELSE SubSeq(name, a, b)
  BY DEF Trimmed
<1>3. inner \subseteq DOMAIN name
  OBVIOUS
<1> HIDE DEF n, inner, a, b
<1>4. CASE inner = {}
  BY <1>2, <1>4, EmptySeq DEF Name
<1>5. CASE inner # {}
  <2>1. inner \in SUBSET (1..n) /\ inner \in SUBSET Nat
    BY <1>1, <1>3
  <2>2. b \in 1..n
    BY <1>1, <1>5, <2>1, MaxIn DEF b
  <2>3. a \in 1..n
    <3>1. PICK m \in inner : \A k \in inner : m <= k
      BY <1>5, <2>1, LeastElement
    <3>2. a = m
      BY <2>1, <3>1, MinIs DEF a
    <3> QED BY <2>1, <3>1, <3>2
  <2>4. a \in Int /\ b \in Int /\ \A i \in a..b : name[i] \in Letter
    BY <1>1, <2>2, <2>3
  <2>5. SubSeq(name, a, b) \in Seq(Letter)
    BY <2>4, SubSeqProperties
  <2> QED BY <1>2, <1>5, <2>5 DEF Name
<1> QED BY <1>4, <1>5

\* What the code compares character by character is what the labels say.
LEMMA MatchesByLabels ==
  ASSUME NEW name \in Name, NEW entry \in Name
  PROVE  Matches(name, entry) <=> Covers(entry, name)
PROOF
<1> DEFINE rule == Lower(Trimmed(entry))
           low == Lower(name)
           suffix == SubSeq(rule, 3, Len(rule))
           ls == Labels(rule)
<1>1. rule \in Name /\ low \in Name
  BY LowerName, TrimmedName
<1>2. Matches(name, entry) <=>
        IF IsPrefix(Wildcard, rule)
        THEN low = suffix \/ IsSuffix(<<".">> \o suffix, low)
        ELSE low = rule
  BY DEF Matches
<1>3. Covers(entry, name) <=>
        IF ls[1] = <<"*">> /\ Len(ls) > 1
        THEN IsSuffix(Tail(ls), Labels(low))
        ELSE ls = Labels(low)
  BY DEF Covers
<1> HIDE DEF rule, low
<1>4. /\ IsPrefix(Wildcard, rule) <=> ls[1] = <<"*">> /\ Len(ls) > 1
      /\ suffix \in Name
      /\ IsPrefix(Wildcard, rule) => Tail(ls) = Labels(suffix)
  BY <1>1, StarRule
<1>5. CASE IsPrefix(Wildcard, rule)
  <2> HIDE DEF suffix, ls
  <2>1. IsSuffix(Labels(suffix), Labels(low))
          <=> low = suffix \/ IsSuffix(<<".">> \o suffix, low)
    BY <1>1, <1>4, UnderName
  <2> QED BY <1>2, <1>3, <1>4, <1>5, <2>1
<1>6. CASE ~IsPrefix(Wildcard, rule)
  <2> HIDE DEF suffix
  <2>1. Labels(rule) = Labels(low) <=> low = rule
    BY <1>1, LabelsInjective
  <2> QED BY <1>2, <1>3, <1>4, <1>6, <2>1
<1> QED BY <1>5, <1>6

\* The rules and the host are names, and the answer is what the code says of them.
AllowInv ==
  /\ rules \in Seq(Name)
  /\ host \in Name
  /\ answer # "none" => (answer = "allowed" <=> allows(host))

\* Rules and hosts are written in the alphabet.
LEMMA InitAllow == AllowInit => AllowInv
PROOF
<1> SUFFICES ASSUME AllowInit PROVE AllowInv
  OBVIOUS
<1>1. Rules \subseteq Name /\ Hosts \subseteq Name
  <2>1. \A w \in Seq(Chars) : w \in Seq(Letter)
    BY DEF Letter
  <2> QED BY <2>1, AllowAssumption DEF Name
<1>2. <<"b">> \in Name
  <2>1. "b" \in Letter
    BY DEF Letter
  <2> QED BY <2>1 DEF Name
<1>3. rules \in Seq(Name)
  <2>1. ASSUME NEW r \in Name, NEW b \in Name
        PROVE  <<>> \in Seq(Name) /\ <<r>> \in Seq(Name) /\ <<r, b>> \in Seq(Name)
    OBVIOUS
  <2>2. CASE rules = <<>>
    BY <1>2, <2>1, <2>2
  <2>3. ASSUME NEW r \in Rules, rules = <<r>> \/ rules = <<r, <<"b">>>>
        PROVE  rules \in Seq(Name)
    BY <1>1, <1>2, <2>1, <2>3
  <2> QED BY <2>2, <2>3 DEF AllowInit
<1> QED BY <1>1, <1>3 DEF AllowInit, AllowInv

\* The rules and the host do not change while they are compared.
LEMMA NextAllow == AllowInv /\ [AskAllowed]_allowVars => AllowInv'
PROOF
<1> SUFFICES ASSUME AllowInv, [AskAllowed]_allowVars PROVE AllowInv'
  OBVIOUS
<1>1. rules' = rules /\ host' = host
  BY DEF AskAllowed, allowVars
<1>2. allows(host)' <=> allows(host)
  BY <1>1 DEF allows
<1>3. CASE AskAllowed
  <2>1. answer' = IF allows(host) THEN "allowed" ELSE "denied"
    BY <1>3 DEF AskAllowed
  <2>2. answer' = "allowed" <=> allows(host)
    BY <2>1
  <2> QED BY <1>1, <1>2, <2>2 DEF AllowInv
<1>4. CASE UNCHANGED allowVars
  BY <1>1, <1>2, <1>4 DEF AllowInv, allowVars
<1> QED BY <1>3, <1>4

(***************************************************************************)
(* A host is allowed exactly if it is, or is a subdomain of, what a rule   *)
(* names, label by label: comparing characters, with the dot before the    *)
(* suffix (policy.rs:229-231), never takes part of a label for a label,    *)
(* whatever the rules and the hosts are.                                   *)
(***************************************************************************)
THEOREM AllowsByLabelsHolds == AllowSpec => []AllowsByLabels
PROOF
<1>1. AllowInv => AllowsByLabels
  <2> SUFFICES ASSUME AllowInv, answer # "none"
               PROVE  answer = "allowed" <=> \E i \in DOMAIN rules : Covers(rules[i], host)
    BY DEF AllowsByLabels
  <2>1. answer = "allowed" <=> \E i \in DOMAIN rules : Matches(host, rules[i])
    BY DEF AllowInv, allows
  <2>2. ASSUME NEW i \in DOMAIN rules
        PROVE  Matches(host, rules[i]) <=> Covers(rules[i], host)
    <3>1. host \in Name /\ rules[i] \in Name
      BY DEF AllowInv
    <3> QED BY <3>1, MatchesByLabels
  <2> QED BY <2>1, <2>2
<1>2. AllowSpec => []AllowInv
  BY InitAllow, NextAllow, PTL DEF AllowSpec
<1> QED BY <1>1, <1>2, PTL

=============================================================================

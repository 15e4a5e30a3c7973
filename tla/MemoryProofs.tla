----------------------------- MODULE MemoryProofs ------------------------------
(* Proofs, for bytes of any radix, pages and memories of any size, and all      *)
(* programs, addresses and values, that the linear memory of Memory.tla is      *)
(* always a whole number of pages, and that it is the memory WasmMemory         *)
(* promises.                                                                    *)
EXTENDS Memory, FiniteSetTheorems, SequenceTheorems, TLAPS

-------------------------------------------------------------------------------
(* Bytes and values. *)

\* The radix is even and not zero: half of it is a number from 1 on.
LEMMA HalfFacts ==
  /\ Radix \in Nat /\ Radix \div 2 \in Nat /\ 1 <= Radix \div 2 /\ Radix \div 2 <= Radix - 1
  /\ 0 \in Byte /\ Radix - 1 \in Byte
  BY RadixAssumption DEF Byte

LEMMA FillFacts ==
  /\ \A b \in Byte : Fill(b, TRUE) \in Byte /\ Fill(Fill(b, TRUE), TRUE) = Fill(b, TRUE)
  /\ \A b \in Byte : Fill(b, FALSE) = 0
  /\ Fill(0, TRUE) = 0
  BY HalfFacts DEF Fill, Byte

\* A value of m bytes, with `fill` where there are none to take.
LEMMA ExtendedFacts ==
  ASSUME NEW s \in Seq(Byte), Len(s) > 0, NEW m \in Nat, NEW signed,
         NEW fill \in Byte, Fill(s[Len(s)], signed) = fill
  PROVE  /\ Extended(s, m, signed) \in Seq(Byte) /\ Len(Extended(s, m, signed)) = m
         /\ Extended(s, m, signed) = [i \in 1 .. m |-> IF i <= Len(s) THEN s[i] ELSE fill]
  <1>1. Extended(s, m, signed) = [i \in 1 .. m |-> IF i <= Len(s) THEN s[i] ELSE fill]
    BY Zenon DEF Extended
  <1> QED
    BY <1>1

\* How many bytes the loads and stores of WebAssembly take.
LEMMA LoadsFacts ==
  ASSUME NEW op \in DOMAIN Loads
  PROVE  /\ Loads[op][1] \in {1, 2, 4, 8} /\ Loads[op][2] \in {4, 8}
         /\ Loads[op][1] <= Loads[op][2]
         /\ Loads[op][3] = TRUE \/ Loads[op][3] = FALSE
         /\ Loads[op][1] = 4 /\ Loads[op][2] = 8 => Loads[op][3] = TRUE \/ op = "I64_LOAD32_U"
  <1>1. Loads[op][1] \in {1, 2, 4, 8} /\ Loads[op][2] \in {4, 8} /\ Loads[op][1] <= Loads[op][2]
    BY DEF Loads
  <1>2. Loads[op][3] = TRUE \/ Loads[op][3] = FALSE
    BY DEF Loads
  <1>3. Loads[op][1] = 4 /\ Loads[op][2] = 8 => op = "I64_LOAD32_S" \/ op = "I64_LOAD32_U"
    BY DEF Loads
  <1>4. Loads["I64_LOAD32_S"][3] = TRUE
    BY DEF Loads
  <1> QED
    BY <1>1, <1>2, <1>3, <1>4, Zenon

LEMMA StoresFacts ==
  ASSUME NEW op \in DOMAIN Stores
  PROVE  Stores[op] \in {1, 2, 4, 8} /\ Stores[op] <= ValueBytes(op) /\ ValueBytes(op) \in {4, 8}
  BY DEF Stores, ValueBytes

\* Extending to four bytes and then, with the sign, to eight: the same as at once
\* when the sign is extended or there are fewer than four bytes; four bytes
\* always have their sign extended.
LEMMA TwiceExtended ==
  ASSUME NEW s \in Seq(Byte), Len(s) \in {1, 2, 4}, NEW signed, signed = TRUE \/ signed = FALSE
  PROVE  \/ Extended(Extended(s, 4, signed), 8, TRUE) = Extended(s, 8, signed)
         \/ Len(s) = 4 /\ Extended(Extended(s, 4, signed), 8, TRUE) = Extended(s, 8, TRUE)
  <1>1. s[Len(s)] \in Byte /\ Len(s) > 0 /\ 4 \in Nat /\ 8 \in Nat
    OBVIOUS
  <1>2. PICK fill \in Byte : Fill(s[Len(s)], signed) = fill /\ Fill(fill, TRUE) = fill
    <2>1. CASE signed = TRUE
      BY <1>1, <2>1, FillFacts
    <2>2. CASE signed = FALSE
      BY <1>1, <2>2, FillFacts, HalfFacts
    <2> QED
      BY <2>1, <2>2
  <1> DEFINE int32 == Extended(s, 4, signed)
  <1>3. int32 = [i \in 1 .. 4 |-> IF i <= Len(s) THEN s[i] ELSE fill]
    BY <1>2, Zenon DEF Extended
  <1>4. Extended(s, 8, signed) = [i \in 1 .. 8 |-> IF i <= Len(s) THEN s[i] ELSE fill]
    BY <1>2, Zenon DEF Extended
  <1> HIDE DEF int32
  <1>5. CASE Len(s) = 4
    <2>1. int32 = s
      BY <1>3, <1>5
    <2> QED
      BY <1>5, <2>1 DEF int32
  <1>6. CASE Len(s) \in {1, 2}
    <2>1. int32[4] = fill /\ Len(int32) = 4
      BY <1>3, <1>6
    <2>2. Fill(int32[Len(int32)], TRUE) = fill
      BY <1>2, <2>1
    <2>3. Extended(int32, 8, TRUE) = [i \in 1 .. 8 |-> IF i <= Len(int32) THEN int32[i] ELSE fill]
      BY <2>2, Zenon DEF Extended
    <2>4. [i \in 1 .. 8 |-> IF i <= Len(int32) THEN int32[i] ELSE fill]
            = [i \in 1 .. 8 |-> IF i <= Len(s) THEN s[i] ELSE fill]
      BY <1>3, <1>6
    <2> QED
      BY <1>4, <2>3, <2>4 DEF int32
  <1> QED
    BY <1>5, <1>6

\* A value is made of bytes.
LEMMA ExtendedType ==
  ASSUME NEW s \in Seq(Byte), Len(s) > 0, NEW m \in Nat, NEW signed, signed = TRUE \/ signed = FALSE
  PROVE  Extended(s, m, signed) \in Seq(Byte) /\ Len(Extended(s, m, signed)) = m
  <1>1. s[Len(s)] \in Byte
    OBVIOUS
  <1>2. Fill(s[Len(s)], signed) \in Byte
    BY <1>1, FillFacts, HalfFacts
  <1> QED
    BY <1>2, ExtendedFacts

\* What the IL of a load makes of the bytes: the value WebAssembly says, except
\* that I64_LOAD32_U extends the sign.
LEMMA LoadedFacts ==
  ASSUME NEW op \in DOMAIN Loads, NEW s \in Seq(Byte), Len(s) = Loads[op][1]
  PROVE  /\ Loaded(op, s) \in Seq(Byte)
         /\ \/ Loaded(op, s) = Extended(s, Loads[op][2], Loads[op][3])
            \/ op = "I64_LOAD32_U" /\ Loaded(op, s) = Extended(s, Loads[op][2], TRUE)
  <1>0. PICK signed : signed = Loads[op][3]
    OBVIOUS
  <1>1. /\ Loads[op][1] \in {1, 2, 4, 8} /\ Loads[op][2] \in {4, 8}
        /\ signed = TRUE \/ signed = FALSE
        /\ Loads[op][1] = 4 /\ Loads[op][2] = 8 => signed = TRUE \/ op = "I64_LOAD32_U"
    BY <1>0, LoadsFacts, Zenon
  <1>2. /\ Len(s) \in {1, 2, 4, 8} /\ Len(s) > 0 /\ Loads[op][2] \in Nat
        /\ 4 \in Nat /\ 8 \in Nat /\ 4 > 0
    BY <1>1
  <1>3. CASE Loads[op][2] = 4 \/ Loads[op][1] = 8
    <2>1. Loaded(op, s) = Extended(s, Loads[op][2], signed)
      BY <1>0, <1>3, Zenon DEF Loaded
    <2>2. Extended(s, Loads[op][2], signed) \in Seq(Byte)
      BY <1>1, <1>2, ExtendedType, Zenon
    <2> QED
      BY <1>0, <2>1, <2>2, Zenon
  <1>4. CASE Loads[op][2] # 4 /\ Loads[op][1] # 8
    <2>1. Loaded(op, s) = Extended(Extended(s, 4, signed), 8, TRUE)
      BY <1>0, <1>4, Zenon DEF Loaded, ConvI8, Int32On
    <2>2. Loads[op][2] = 8 /\ Len(s) \in {1, 2, 4}
      BY <1>1, <1>4
    <2>3. Extended(s, 4, signed) \in Seq(Byte) /\ Len(Extended(s, 4, signed)) = 4
      BY <1>1, <1>2, ExtendedType, Zenon
    <2>4. Len(Extended(s, 4, signed)) > 0
      BY <1>2, <2>3, Zenon
    <2>5. Loaded(op, s) \in Seq(Byte)
      BY <1>2, <2>1, <2>3, <2>4, ExtendedType, Zenon
    <2>6. \/ Extended(Extended(s, 4, signed), 8, TRUE) = Extended(s, 8, signed)
          \/ Len(s) = 4 /\ Extended(Extended(s, 4, signed), 8, TRUE) = Extended(s, 8, TRUE)
      BY <1>1, <2>2, TwiceExtended, Zenon
    <2>7. CASE Extended(Extended(s, 4, signed), 8, TRUE) = Extended(s, 8, signed)
      BY <1>0, <2>1, <2>2, <2>5, <2>7, Zenon
    <2>8. CASE Len(s) = 4 /\ Extended(Extended(s, 4, signed), 8, TRUE) = Extended(s, 8, TRUE)
      <3>1. signed = TRUE \/ op = "I64_LOAD32_U"
        BY <1>1, <2>2, <2>8, Zenon
      <3> QED
        BY <1>0, <2>1, <2>2, <2>5, <2>8, <3>1, Zenon
    <2> QED
      BY <2>6, <2>7, <2>8, Zenon
  <1> QED
    BY <1>3, <1>4, Zenon

\* The number of bytes a host call puts into the memory.
LEMMA Int32Facts ==
  ASSUME NEW n \in Nat
  PROVE  Int32(n) \in Seq(Byte) /\ Len(Int32(n)) = 4
  <1> DEFINE weights == <<1, Radix, Radix * Radix, Radix * Radix * Radix>>
  <1>1. \A i \in 1 .. 4 : weights[i] \in Nat /\ weights[i] > 0
    <2>1. Radix \in Nat /\ Radix > 0
      BY RadixAssumption
    <2>2. Radix * Radix \in Nat /\ Radix * Radix > 0
      BY <2>1
    <2>3. Radix * Radix * Radix \in Nat /\ Radix * Radix * Radix > 0
      BY <2>1, <2>2
    <2> QED
      BY <2>1, <2>2, <2>3
  <1> HIDE DEF weights
  <1>2. \A i \in 1 .. 4 : (n \div weights[i]) % Radix \in Byte
    BY <1>1, RadixAssumption DEF Byte
  <1>3. Int32(n) = [i \in 1 .. 4 |-> (n \div weights[i]) % Radix]
    BY DEF Int32, weights
  <1> QED
    BY <1>2, <1>3

-------------------------------------------------------------------------------
(* Arrays: whole numbers of pages. *)

\* Every byte[] that can be a memory.
Arrays == UNION {[0 .. p * PageSize - 1 -> Byte] : p \in 0 .. MaxPages}

\* Pages and bytes.
LEMMA PageFacts ==
  ASSUME NEW p \in 0 .. MaxPages
  PROVE  /\ p * PageSize \in Nat /\ (p * PageSize) \div PageSize = p
         /\ 2 * (p * PageSize) <= AddressSpace
  <1>1. PageSize \in Nat /\ PageSize > 0 /\ MaxPages \in Nat /\ p \in Nat /\ AddressSpace \in Nat
    BY SizesAssumption
  <1>2. p * PageSize \in Nat
    BY <1>1
  <1>3. (p * PageSize) \div PageSize = p
    BY <1>1
  <1>4. p * PageSize <= MaxPages * PageSize
    BY <1>1
  <1>5. 2 * MaxPages * PageSize = 2 * (MaxPages * PageSize) /\ MaxPages * PageSize \in Nat
    BY <1>1
  <1> QED
    BY <1>1, <1>2, <1>3, <1>4, <1>5, ArraysAssumption

\* The size of an array in bytes and in pages.
LEMMA ArrayFacts ==
  ASSUME NEW a \in Arrays
  PROVE  /\ a \in [DOMAIN a -> Byte]
         /\ Size(a) \in Nat /\ DOMAIN a = 0 .. Size(a) - 1
         /\ 2 * Size(a) <= AddressSpace
         /\ Size(a) \div PageSize \in 0 .. MaxPages
         /\ Size(a) = (Size(a) \div PageSize) * PageSize
  <1>1. PICK p \in 0 .. MaxPages : a \in [0 .. p * PageSize - 1 -> Byte]
    BY DEF Arrays
  <1>2. p * PageSize \in Nat /\ (p * PageSize) \div PageSize = p /\ 2 * (p * PageSize) <= AddressSpace
    BY PageFacts
  <1>3. DOMAIN a = 0 .. p * PageSize - 1
    BY <1>1
  <1>4. Cardinality(0 .. p * PageSize - 1) = p * PageSize
    <2> DEFINE n == p * PageSize
    <2>1. 0 \in Int /\ n - 1 \in Int /\ n \in Nat
      BY <1>2
    <2> HIDE DEF n
    <2>2. Cardinality(0 .. n - 1) = IF 0 > n - 1 THEN 0 ELSE (n - 1) - 0 + 1
      BY <2>1, FS_Interval
    <2>3. Cardinality(0 .. n - 1) = n
      BY <2>1, <2>2
    <2> QED
      BY <2>3 DEF n
  <1>5. Size(a) = p * PageSize
    BY <1>3, <1>4 DEF Size
  <1> QED
    BY <1>1, <1>2, <1>3, <1>5

\* An array made for a number of pages.
LEMMA ArrayOfPages ==
  ASSUME NEW p \in 0 .. MaxPages, NEW a \in [0 .. p * PageSize - 1 -> Byte]
  PROVE  a \in Arrays
  BY DEF Arrays

\* Overwriting bytes changes neither an array's size nor what it is made of.
LEMMA OverlaidFacts ==
  ASSUME NEW a \in Arrays, NEW at \in Int, NEW s \in Seq(Byte)
  PROVE  Overlaid(a, at, s) \in Arrays /\ DOMAIN Overlaid(a, at, s) = DOMAIN a
         /\ Size(Overlaid(a, at, s)) = Size(a)
  <1>1. PICK p \in 0 .. MaxPages : a \in [0 .. p * PageSize - 1 -> Byte]
    BY DEF Arrays
  <1>2. Overlaid(a, at, s) = [i \in DOMAIN a |-> IF i - at + 1 \in DOMAIN s THEN s[i - at + 1] ELSE a[i]]
    BY DEF Overlaid
  <1>3. DOMAIN a = 0 .. p * PageSize - 1
    BY <1>1
  <1>4. Overlaid(a, at, s) \in [0 .. p * PageSize - 1 -> Byte]
    BY <1>1, <1>2, <1>3
  <1>5. Overlaid(a, at, s) \in Arrays
    BY <1>4, ArrayOfPages
  <1>6. DOMAIN Overlaid(a, at, s) = DOMAIN a
    BY <1>2
  <1> QED
    BY <1>5, <1>6 DEF Size

-------------------------------------------------------------------------------
(* The inductive invariant. *)

\* Byte j of segment k is behind the static constructor; such a byte at i.
Done(k, j) == k < pc[1] \/ (k = pc[1] /\ j < pc[2])
Value(k, i) == program.data[k].bytes[i - program.data[k].at + 1]
Reached(k, i) ==
  /\ i - program.data[k].at + 1 \in DOMAIN program.data[k].bytes
  /\ Done(k, i - program.data[k].at + 1)

\* The memory so far holds, at each place, the last byte put there that is not
\* zero, and none of these was outside.
Filled ==
  \A i \in DOMAIN Current :
    \/ Current[i] = 0 /\ \A k \in DOMAIN program.data : Reached(k, i) => Value(k, i) = 0
    \/ \E k \in DOMAIN program.data :
         /\ Reached(k, i) /\ Current[i] = Value(k, i)
         /\ \A l \in DOMAIN program.data : l > k /\ Reached(l, i) => Value(l, i) = 0
NoneOutside ==
  \A k \in DOMAIN program.data : \A j \in DOMAIN program.data[k].bytes :
    Done(k, j) => program.data[k].bytes[j] = 0 \/ program.data[k].at + j - 1 \in DOMAIN Current
Loading ==
  /\ AllocatedPages <= MaxPages /\ DOMAIN Current = 0 .. AllocatedPages * PageSize - 1
  /\ Filled /\ NoneOutside

Types ==
  /\ program \in Programs
  /\ phase \in {"starting", "running", "failed", "undefined"}
  /\ pc \in (Nat \ {0}) \X (Nat \ {0}) /\ requests \in 0 .. MaxRequests
  /\ arrays \in Seq(Arrays) /\ Memory \in 0 .. Len(arrays)
  /\ last.value \in Seq(Nat)

\* Until there is a memory nothing is put into it, and once the constructor has
\* run there is one, unless there was none of that size.
IInv ==
  /\ Types
  /\ Memory = null => phase \in {"starting", "failed"} /\ pc = <<1, 1>>
  /\ phase = "starting" /\ Memory # null => Loading

\* What the types of Programs say of the limits and the segments.
LEMMA ProgramFacts ==
  ASSUME Types
  PROVE  /\ AllocatedPages \in Nat /\ AllocatedPages \in Promise!Sizes
         /\ program.data \in Seq([at : Int, bytes : Seq(Byte)])
         /\ \A k \in DOMAIN program.data : /\ program.data[k].at \in Int
                                           /\ program.data[k].bytes \in Seq(Byte)
  <1>1. /\ program.min \in Nat /\ program.max \in Nat /\ program.type \in {0, 1}
        /\ program.data \in Seq([at : Int, bytes : Seq(Byte)])
    BY ProgramsAssumption DEF Types
  <1>2. AllocatedPages \in Nat /\ AllocatedPages \in Promise!Sizes
    BY <1>1 DEF AllocatedPages, Promise!Sizes
  <1>3. ASSUME NEW k \in DOMAIN program.data
        PROVE  program.data[k].at \in Int /\ program.data[k].bytes \in Seq(Byte)
    <2> DEFINE Segment == [at : Int, bytes : Seq(Byte)]
    <2>1. program.data \in Seq(Segment)
      BY <1>1
    <2> HIDE DEF Segment
    <2>2. program.data[k] \in Segment
      BY <2>1
    <2> QED
      BY <2>2 DEF Segment
  <1> QED
    BY <1>1, <1>2, <1>3

\* An array that can be addressed through the field.
LEMMA CurrentFacts ==
  ASSUME Types, Memory # null
  PROVE  Current \in Arrays /\ Memory \in DOMAIN arrays /\ DOMAIN arrays = 1 .. Len(arrays) /\ Len(arrays) \in Nat
  BY DEF Types, null, Current

LEMMA InitIInv == Init => IInv
  <1> SUFFICES ASSUME Init
               PROVE  IInv
    OBVIOUS
  <1>1. last.value = <<>>
    BY DEF Init, Nothing, Answer
  <1>2. requests \in 0 .. MaxRequests
    BY RequestsAssumption DEF Init
  <1> QED
    BY <1>1, <1>2 DEF Init, IInv, Types, null

LEMMA AllocateIInv ==
  ASSUME IInv, Allocate
  PROVE  IInv'
  <1> DEFINE n == AllocatedPages * PageSize
  <1>1. Types /\ pc = <<1, 1>> /\ Memory = null /\ UNCHANGED <<program, pc, last, requests>>
    BY DEF IInv, Allocate
  <1>2. CASE AllocatedPages <= MaxPages
    <2>1. AllocatedPages \in 0 .. MaxPages
      BY <1>1, <1>2, ProgramFacts, SizesAssumption
    <2>2. Zeros(n) \in [0 .. n - 1 -> Byte]
      BY HalfFacts DEF Zeros
    <2>3. Zeros(n) \in Arrays
      BY <2>1, <2>2, ArrayOfPages
    <2>4. arrays' = Append(arrays, Zeros(n)) /\ Memory' = Len(arrays) + 1 /\ phase' = phase
      BY <1>2 DEF Allocate, NewMemory
    <2> HIDE DEF n
    <2>5. Types'
      BY <1>1, <2>3, <2>4 DEF Types
    <2>6. Current' = Zeros(n) /\ Memory' # null
      BY <1>1, <2>3, <2>4 DEF Current, Types, null
    <2>7. /\ AllocatedPages' <= MaxPages /\ DOMAIN Current' = 0 .. AllocatedPages' * PageSize - 1
          /\ \A i \in DOMAIN Current' : Current'[i] = 0
      BY <1>1, <1>2, <2>6 DEF Zeros, AllocatedPages, n
    <2>8. \A k \in DOMAIN program.data : \A j \in DOMAIN program.data[k].bytes : ~Done(k, j)'
      <3>1. \A k \in DOMAIN program.data : k \in Nat /\ k >= 1 /\ \A j \in DOMAIN program.data[k].bytes : j \in Nat /\ j >= 1
        BY <1>1, ProgramFacts
      <3> QED
        BY <1>1, <3>1 DEF Done
    <2>9. Loading'
      BY <1>1, <2>7, <2>8 DEF Loading, Filled, NoneOutside, Reached
    <2> QED
      BY <2>5, <2>6, <2>9 DEF IInv
  <1>3. CASE ~(AllocatedPages <= MaxPages)
    <2>1. phase' = "failed" /\ UNCHANGED <<arrays, Memory>>
      BY <1>3 DEF Allocate
    <2>2. Types'
      BY <1>1, <2>1 DEF Types
    <2> QED
      BY <1>1, <2>1, <2>2 DEF IInv
  <1> QED
    BY <1>2, <1>3

\* Which bytes are behind the constructor after one more.
LEMMA StoreElementDone ==
  ASSUME IInv, StoreElement
  PROVE  \A k \in DOMAIN program.data : \A j \in DOMAIN program.data[k].bytes :
           Done(k, j)' <=> Done(k, j) \/ (k = pc[1] /\ j = pc[2])
  <1>1. pc \in Nat \X Nat /\ pc[1] \in DOMAIN program.data /\ Types
    BY DEF IInv, Types, StoreElement
  <1>2. pc' = IF pc[2] < Len(program.data[pc[1]].bytes) THEN <<pc[1], pc[2] + 1>> ELSE <<pc[1] + 1, 1>>
    BY DEF StoreElement
  <1>3. \A k \in DOMAIN program.data :
          k \in Nat /\ program.data[k].bytes \in Seq(Byte)
    BY <1>1, ProgramFacts
  <1> TAKE k \in DOMAIN program.data
  <1> TAKE j \in DOMAIN program.data[k].bytes
  <1>4. k \in Nat /\ j \in Nat /\ j >= 1 /\ j <= Len(program.data[k].bytes) /\ Len(program.data[k].bytes) \in Nat
    BY <1>3
  <1>5. CASE pc[2] < Len(program.data[pc[1]].bytes)
    BY <1>1, <1>2, <1>4, <1>5 DEF Done
  <1>6. CASE ~(pc[2] < Len(program.data[pc[1]].bytes))
    BY <1>1, <1>2, <1>3, <1>4, <1>6 DEF Done
  <1> QED
    BY <1>5, <1>6

\* Putting one byte into an array.
LEMMA PutFacts ==
  ASSUME NEW a \in Arrays, NEW at \in DOMAIN a, NEW b \in Byte
  PROVE  [a EXCEPT ![at] = b] \in Arrays
  <1>1. PICK p \in 0 .. MaxPages : a \in [0 .. p * PageSize - 1 -> Byte]
    BY DEF Arrays
  <1>2. [a EXCEPT ![at] = b] \in [0 .. p * PageSize - 1 -> Byte]
    BY <1>1
  <1> QED
    BY <1>2, ArrayOfPages

\* A byte of a segment is put where it belongs, or, when it is zero, left alone.
LEMMA StoreElementIInv ==
  ASSUME IInv, StoreElement
  PROVE  IInv'
  <1>0. /\ phase = "starting" /\ Memory # null /\ pc[1] \in DOMAIN program.data
        /\ Types /\ Loading /\ pc \in (Nat \ {0}) \X (Nat \ {0})
        /\ UNCHANGED <<program, Memory, last, requests>>
    BY DEF IInv, Types, StoreElement
  <1> PICK m \in Nat, j \in Nat : m = pc[1] /\ j = pc[2] /\ m \in DOMAIN program.data
    BY <1>0
  <1> PICK seg : seg = program.data[m]
    OBVIOUS
  <1>1. pc' \in (Nat \ {0}) \X (Nat \ {0})
    BY <1>0 DEF StoreElement
  <1>2. \A k \in DOMAIN program.data : /\ program.data[k].at \in Int /\ program.data[k].bytes \in Seq(Byte)
                                       /\ k \in Nat
    BY <1>0, ProgramFacts
  <1>2a. seg.at \in Int /\ seg.bytes \in Seq(Byte)
    BY <1>2
  <1>2b. \A i \in DOMAIN Current : i \in Int
    <2>1. DOMAIN Current = 0 .. Size(Current) - 1 /\ Size(Current) \in Nat
      BY <1>0, CurrentFacts, ArrayFacts
    <2> QED
      BY <2>1
  <1>3. Current \in Arrays /\ Memory \in DOMAIN arrays /\ arrays \in Seq(Arrays)
    BY <1>0, CurrentFacts DEF Types
  <1>4. \A k \in DOMAIN program.data : \A i \in DOMAIN program.data[k].bytes :
          Done(k, i)' <=> Done(k, i) \/ (k = m /\ i = j)
    BY StoreElementDone
  <1>5. \A k \in DOMAIN program.data : (k > m => \A i \in DOMAIN program.data[k].bytes : ~Done(k, i))
    BY <1>0, <1>2 DEF Done
  <1>6. ~Done(m, j)
    BY DEF Done
  <1>7. ASSUME NEW k \in DOMAIN program.data, NEW i \in Int
        PROVE  Reached(k, i)' <=> Reached(k, i) \/ (k = m /\ j \in DOMAIN seg.bytes /\ i = seg.at + j - 1)
    <2> PICK x \in Int : x = i - program.data[k].at + 1
      BY <1>2
    <2>1. Reached(k, i)' <=> x \in DOMAIN program.data[k].bytes /\ Done(k, x)'
      BY <1>0 DEF Reached
    <2>2. Reached(k, i) <=> x \in DOMAIN program.data[k].bytes /\ Done(k, x)
      BY DEF Reached
    <2>3. x \in DOMAIN program.data[k].bytes => (Done(k, x)' <=> Done(k, x) \/ (k = m /\ x = j))
      BY <1>4
    <2>4. ASSUME k = m
          PROVE  (x = j) <=> (i = seg.at + j - 1)
      <3> PICK a \in Int : a = seg.at
        BY <1>2a
      <3>1. x = i - a + 1
        BY <2>4
      <3>2. (x = j) <=> (i = a + j - 1)
        BY <3>1
      <3> QED
        BY <3>2
    <2> QED
      BY <2>1, <2>2, <2>3, <2>4
  <1>8. \A k, i : Value(k, i)' = Value(k, i)
    BY <1>0 DEF Value
  <1>9. AllocatedPages' = AllocatedPages
    BY <1>0 DEF AllocatedPages
  <1>10. CASE j \in DOMAIN seg.bytes /\ seg.bytes[j] # 0 /\ seg.at + j - 1 \in DOMAIN Current
    <2> PICK at : at = seg.at + j - 1 /\ at \in DOMAIN Current
      BY <1>10
    <2> PICK b \in Byte : b = seg.bytes[j]
      BY <1>2, <1>10
    <2>1. arrays' = [arrays EXCEPT ![Memory] = [Current EXCEPT ![at] = b]] /\ phase' = phase
      BY <1>10 DEF StoreElement, Put, Current
    <2>2. [Current EXCEPT ![at] = b] \in Arrays
      BY <1>3, PutFacts
    <2>3. Types'
      BY <1>0, <1>1, <1>3, <2>1, <2>2 DEF Types
    <2>4. Current' = [Current EXCEPT ![at] = b]
      BY <1>0, <1>3, <2>1, <2>2 DEF Current
    <2>5. /\ DOMAIN Current' = DOMAIN Current /\ Current'[at] = b
          /\ \A i \in DOMAIN Current : i # at => Current'[i] = Current[i]
      BY <2>4
    <2>6. at \in Int /\ \A i \in DOMAIN Current : i \in Int
      BY <1>2b
    <2>7. ASSUME NEW i \in DOMAIN Current, i # at
          PROVE  \A k \in DOMAIN program.data : Reached(k, i)' <=> Reached(k, i)
      BY <1>7, <2>6, <2>7
    <2>8. ASSUME NEW i \in DOMAIN Current, i # at
          PROVE  \/ Current'[i] = 0 /\ \A k \in DOMAIN program.data : Reached(k, i)' => Value(k, i)' = 0
                 \/ \E k \in DOMAIN program.data :
                      /\ Reached(k, i)' /\ Current'[i] = Value(k, i)'
                      /\ \A l \in DOMAIN program.data : l > k /\ Reached(l, i)' => Value(l, i)' = 0
      BY <1>0, <1>8, <2>5, <2>7, <2>8 DEF Loading, Filled
    <2>9. /\ Reached(m, at)' /\ Current'[at] = Value(m, at)'
          /\ \A l \in DOMAIN program.data : l > m /\ Reached(l, at)' => Value(l, at)' = 0
      <3>1. Reached(m, at)'
        BY <1>7, <1>10, <2>6
      <3>2. at - seg.at + 1 = j
        BY <1>2a
      <3>2a. Value(m, at) = b
        BY <3>2 DEF Value
      <3>3. \A l \in DOMAIN program.data : l > m => ~Reached(l, at)'
        BY <1>5, <1>7, <2>6 DEF Reached
      <3> QED
        BY <1>8, <2>5, <3>1, <3>2a, <3>3
    <2>10. Filled'
      BY <1>0, <2>5, <2>8, <2>9 DEF Filled
    <2>11. NoneOutside'
      BY <1>0, <1>4, <2>5 DEF Loading, NoneOutside
    <2> QED
      BY <1>0, <1>9, <2>3, <2>5, <2>10, <2>11 DEF IInv, Loading
  <1>11. CASE j \in DOMAIN seg.bytes /\ seg.bytes[j] # 0 /\ seg.at + j - 1 \notin DOMAIN Current
    <2>1. phase' = "failed" /\ arrays' = arrays
      BY <1>11 DEF StoreElement, Put
    <2> QED
      BY <1>0, <1>1, <2>1 DEF IInv, Types
  <1>12. CASE ~(j \in DOMAIN seg.bytes /\ seg.bytes[j] # 0)
    <2>1. arrays' = arrays /\ phase' = phase
      BY <1>12 DEF StoreElement
    <2>2. Current' = Current
      BY <1>0, <2>1 DEF Current
    <2>3. NoneOutside'
      BY <1>0, <1>4, <1>12, <2>2 DEF Loading, NoneOutside
    <2>5. ASSUME NEW i \in DOMAIN Current, NEW k \in DOMAIN program.data
          PROVE  /\ Reached(k, i) => Reached(k, i)'
                 /\ Reached(k, i)' => Reached(k, i) \/ (k = m /\ Value(k, i) = 0)
      <3>1. ASSUME k = m, j \in DOMAIN seg.bytes, i = seg.at + j - 1
            PROVE  Value(k, i) = 0
        <4>1. seg.bytes[j] = 0 /\ program.data[k] = seg
          BY <1>12, <3>1
        <4> PICK a \in Int : a = seg.at
          BY <1>2a
        <4>2. i - a + 1 = j
          BY <3>1
        <4> QED
          BY <4>1, <4>2 DEF Value
      <3> QED
        BY <1>2b, <1>7, <3>1
    <2>6. Filled'
      BY <1>0, <1>8, <2>2, <2>5 DEF Loading, Filled
    <2> QED
      BY <1>0, <1>1, <1>9, <2>1, <2>2, <2>3, <2>6 DEF IInv, Types, Loading
  <1> QED
    BY <1>10, <1>11, <1>12

LEMMA ReturnIInv ==
  ASSUME IInv, Return
  PROVE  IInv'
  BY DEF IInv, Types, Return

\* A request leaves the invariant when the arrays and the field are still right.
LEMMA ServeIInv ==
  ASSUME IInv, NEW r, NEW thrown, NEW value \in Seq(Nat), Serve(r, thrown, value),
         arrays' \in Seq(Arrays), Memory' \in 1 .. Len(arrays'), phase' \in {"running", "undefined"}
  PROVE  IInv'
  <1>1. last'.value = value /\ requests' = requests + 1 /\ requests < MaxRequests
        /\ UNCHANGED <<program, pc>>
    BY DEF Serve, Answer
  <1>2. requests' \in 0 .. MaxRequests
    BY <1>1, RequestsAssumption DEF IInv, Types
  <1>3. Types' /\ Memory' # null
    BY <1>1, <1>2 DEF IInv, Types, null
  <1> QED
    BY <1>3 DEF IInv

LEMMA ThrowIInv ==
  ASSUME IInv, phase = "running", NEW r, Throw(r)
  PROVE  IInv'
  <1>1. Memory' \in 1 .. Len(arrays') /\ arrays' \in Seq(Arrays) /\ <<>> \in Seq(Nat)
    BY DEF IInv, Types, Throw, null
  <1>2. Serve(r, TRUE, <<>>) /\ phase' = "running"
    BY DEF Throw
  <1> QED
    BY <1>1, <1>2, ServeIInv

\* The field while the program runs.
LEMMA RunningFacts ==
  ASSUME IInv, phase = "running"
  PROVE  /\ Types /\ Memory \in 1 .. Len(arrays) /\ Memory \in DOMAIN arrays /\ arrays \in Seq(Arrays)
         /\ Current \in Arrays /\ Current \in [DOMAIN Current -> Byte]
         /\ Size(Current) \in Nat /\ DOMAIN Current = 0 .. Size(Current) - 1
         /\ 2 * Size(Current) <= AddressSpace
  <1>1. Types /\ Memory # null
    BY DEF IInv
  <1>2. Current \in Arrays /\ Memory \in 1 .. Len(arrays) /\ Memory \in DOMAIN arrays /\ arrays \in Seq(Arrays)
    BY <1>1, CurrentFacts DEF Types
  <1> QED
    BY <1>1, <1>2, ArrayFacts

LEMMA BytesAreNumbers ==
  ASSUME NEW s \in Seq(Byte)
  PROVE  s \in Seq(Nat)
  <1>1. \A b \in Byte : b \in Nat
    BY RadixAssumption DEF Byte
  <1>2. \A i \in 1 .. Len(s) : s[i] \in Nat
    BY <1>1
  <1>3. s = [i \in 1 .. Len(s) |-> s[i]] /\ Len(s) \in Nat
    OBVIOUS
  <1>4. [i \in 1 .. Len(s) |-> s[i]] \in Seq(Nat)
    BY <1>2
  <1> QED
    BY <1>3, <1>4

\* The bytes a load takes: those of the memory, and something where there are none.
Taken(op, at, beyond) ==
  [i \in 1 .. Loads[op][1] |-> IF at + i - 1 \in DOMAIN Current THEN Current[at + i - 1] ELSE beyond]

LEMMA TakenFacts ==
  ASSUME IInv, phase = "running", NEW op \in DOMAIN Loads, NEW at \in Int, NEW beyond \in Byte
  PROVE  /\ Taken(op, at, beyond) \in Seq(Byte) /\ Len(Taken(op, at, beyond)) = Loads[op][1]
         /\ Loaded(op, Taken(op, at, beyond)) \in Seq(Nat)
  <1>1. PICK n \in Nat : n = Loads[op][1]
    BY LoadsFacts
  <1>2. Current \in [DOMAIN Current -> Byte]
    BY RunningFacts
  <1>3. Taken(op, at, beyond)
          = [i \in 1 .. n |-> IF at + i - 1 \in DOMAIN Current THEN Current[at + i - 1] ELSE beyond]
    BY <1>1 DEF Taken
  <1>4. Taken(op, at, beyond) \in Seq(Byte) /\ Len(Taken(op, at, beyond)) = n
    BY <1>2, <1>3
  <1>5. Loaded(op, Taken(op, at, beyond)) \in Seq(Byte)
    BY <1>1, <1>4, LoadedFacts, Zenon
  <1>6. Loaded(op, Taken(op, at, beyond)) \in Seq(Nat)
    BY <1>5, BytesAreNumbers
  <1> QED
    BY <1>1, <1>4, <1>6, Zenon

LEMMA LoadIInv ==
  ASSUME IInv, phase = "running",
         NEW op \in DOMAIN Loads, NEW a \in Addresses, NEW o \in Offsets, Load(op, a, o)
  PROVE  IInv'
  <1> DEFINE at == Index(a, o)  r == Request(op, a, o, <<>>)
  <1>1. at \in Int
    BY AddressesAssumption, OffsetsAssumption DEF Index
  <1>2. CASE Checked(at)
    <2>1. PICK beyond \in Byte :
            /\ Serve(r, FALSE, Loaded(op, Taken(op, at, beyond)))
            /\ UNCHANGED <<arrays, Memory, phase>>
      BY <1>2, HalfFacts DEF Load, Taken
    <2>2. Loaded(op, Taken(op, at, beyond)) \in Seq(Nat)
      BY <1>1, TakenFacts
    <2>3. arrays' \in Seq(Arrays) /\ Memory' \in 1 .. Len(arrays')
      BY <2>1, RunningFacts
    <2> QED
      BY <2>1, <2>2, <2>3, ServeIInv
  <1>3. CASE ~Checked(at)
    BY <1>3, ThrowIInv DEF Load
  <1> QED
    BY <1>2, <1>3

\* The bytes a store puts into the memory.
LEMMA StoredFacts ==
  ASSUME NEW op \in DOMAIN Stores, NEW v \in Patterns
  PROVE  /\ SubSeq(v, 1, Stores[op]) \in Seq(Byte) /\ Len(SubSeq(v, 1, Stores[op])) = Stores[op]
         /\ SubSeq(SubSeq(v, 1, ValueBytes(op)), 1, Stores[op]) = SubSeq(v, 1, Stores[op])
         /\ Stores[op] \in Nat /\ Stores[op] > 0
  <1>1. v \in Seq(Byte) /\ Len(v) = 8
    BY PatternsAssumption
  <1>2. PICK n \in 1 .. 8, m \in 1 .. 8 : n = Stores[op] /\ m = ValueBytes(op) /\ n <= m
    BY StoresFacts
  <1>3. ASSUME NEW s \in Seq(Byte), NEW l \in 1 .. Len(s)
        PROVE  SubSeq(s, 1, l) = [i \in 1 .. l |-> s[i]]
    OBVIOUS
  <1>4. SubSeq(v, 1, n) = [i \in 1 .. n |-> v[i]] /\ SubSeq(v, 1, m) = [i \in 1 .. m |-> v[i]]
    BY <1>1, <1>3
  <1>5. SubSeq(v, 1, n) \in Seq(Byte) /\ Len(SubSeq(v, 1, n)) = n
        /\ SubSeq(v, 1, m) \in Seq(Byte) /\ Len(SubSeq(v, 1, m)) = m
    <2>1. ASSUME NEW i \in 1 .. 8
          PROVE  v[i] \in Byte
      <3>1. i \in 1 .. Len(v)
        BY <1>1
      <3> QED
        BY <1>1, <3>1, ElementOfSeq
    <2>2. [i \in 1 .. n |-> v[i]] \in Seq(Byte) /\ Len([i \in 1 .. n |-> v[i]]) = n
      BY <2>1
    <2>3. [i \in 1 .. m |-> v[i]] \in Seq(Byte) /\ Len([i \in 1 .. m |-> v[i]]) = m
      BY <2>1
    <2> QED
      BY <1>4, <2>2, <2>3
  <1>6. SubSeq(SubSeq(v, 1, m), 1, n) = SubSeq(v, 1, n)
    <2>1. SubSeq(SubSeq(v, 1, m), 1, n) = [i \in 1 .. n |-> SubSeq(v, 1, m)[i]]
      BY <1>2, <1>3, <1>5
    <2> QED
      BY <1>2, <1>4, <2>1
  <1> QED
    BY <1>2, <1>5, <1>6

\* Overwriting bytes of the array the field refers to.
LEMMA WriteFacts ==
  ASSUME IInv, phase = "running", NEW at \in Int, NEW s \in Seq(Byte), Write(Memory, at, s)
  PROVE  /\ arrays' \in Seq(Arrays) /\ Len(arrays') = Len(arrays) /\ phase' \in {"running", "undefined"}
         /\ arrays'[Memory] = Overlaid(Current, at, s)
         /\ at + Len(s) <= Size(Current) => phase' = phase
         /\ ~(at + Len(s) <= Size(Current)) => phase' = "undefined"
  <1>1. Current \in Arrays /\ Memory \in DOMAIN arrays /\ arrays \in Seq(Arrays)
    BY RunningFacts
  <1>2. Overlaid(Current, at, s) \in Arrays
    BY <1>1, OverlaidFacts
  <1>3. arrays' = [arrays EXCEPT ![Memory] = Overlaid(Current, at, s)]
    BY DEF Write, Current
  <1>4. arrays' \in Seq(Arrays) /\ Len(arrays') = Len(arrays) /\ arrays'[Memory] = Overlaid(Current, at, s)
    BY <1>1, <1>2, <1>3
  <1> QED
    BY <1>4 DEF Write, Current

LEMMA StoreIInv ==
  ASSUME IInv, phase = "running",
         NEW op \in DOMAIN Stores, NEW a \in Addresses, NEW o \in Offsets, NEW v \in Patterns, Store(op, a, o, v)
  PROVE  IInv'
  <1> DEFINE at == Index(a, o)  r == Request(op, a, o, SubSeq(v, 1, ValueBytes(op)))
  <1>1. at \in Int
    BY AddressesAssumption, OffsetsAssumption DEF Index
  <1>2. CASE Checked(at)
    <2>1. Serve(r, FALSE, <<>>) /\ Write(Memory, at, SubSeq(v, 1, Stores[op])) /\ Memory' = Memory
      BY <1>2 DEF Store
    <2>2. arrays' \in Seq(Arrays) /\ Len(arrays') = Len(arrays) /\ phase' \in {"running", "undefined"}
      BY <1>1, <2>1, StoredFacts, WriteFacts
    <2>3. Memory' \in 1 .. Len(arrays') /\ <<>> \in Seq(Nat)
      BY <2>1, <2>2, RunningFacts
    <2> QED
      BY <2>1, <2>2, <2>3, ServeIInv
  <1>3. CASE ~Checked(at)
    BY <1>3, ThrowIInv DEF Store
  <1> QED
    BY <1>2, <1>3

LEMMA PagesFacts ==
  ASSUME IInv, phase = "running"
  PROVE  Pages \in 0 .. MaxPages /\ Size(Current) = Pages * PageSize /\ <<Pages>> \in Seq(Nat)
  <1>1. Pages \in 0 .. MaxPages /\ Size(Current) = Pages * PageSize
    BY RunningFacts, ArrayFacts DEF Pages
  <1> QED
    BY <1>1, SizesAssumption

LEMMA SizeIInv ==
  ASSUME IInv, phase = "running", MEMORY_SIZE
  PROVE  IInv'
  <1>1. /\ Serve(Request("MEMORY_SIZE", 0, 0, <<>>), FALSE, <<Pages>>)
        /\ UNCHANGED <<arrays, Memory, phase>>
    BY DEF MEMORY_SIZE
  <1>2. arrays' \in Seq(Arrays) /\ Memory' \in 1 .. Len(arrays') /\ <<Pages>> \in Seq(Nat)
    BY <1>1, RunningFacts, PagesFacts
  <1> QED
    BY <1>1, <1>2, ServeIInv

\* What growing makes: an array of so many pages, the old bytes in it.
Copied(pages) == [i \in 0 .. GrownSize(pages) - 1 |-> IF i \in DOMAIN Current THEN Current[i] ELSE 0]

LEMMA GrowFacts ==
  ASSUME IInv, phase = "running", NEW pages \in 1 .. MaxPages
  PROVE  /\ Copied(pages) \in Arrays
         /\ NewMemory(Copied(pages)) => /\ arrays' \in Seq(Arrays) /\ Memory' \in 1 .. Len(arrays')
                                        /\ arrays'[Memory'] = Copied(pages)
  <1>1. Current \in [DOMAIN Current -> Byte] /\ arrays \in Seq(Arrays)
    BY RunningFacts
  <1>2. Copied(pages) \in [0 .. pages * PageSize - 1 -> Byte]
    BY <1>1, HalfFacts DEF Copied, GrownSize
  <1>3. Copied(pages) \in Arrays
    BY <1>2, ArrayOfPages, SizesAssumption
  <1>4. ASSUME NewMemory(Copied(pages))
        PROVE  arrays' \in Seq(Arrays) /\ Memory' \in 1 .. Len(arrays') /\ arrays'[Memory'] = Copied(pages)
    BY <1>1, <1>3, <1>4 DEF NewMemory
  <1> QED
    BY <1>3, <1>4

LEMMA GrowIInv ==
  ASSUME IInv, phase = "running", NEW delta \in Deltas, MEMORY_GROW(delta)
  PROVE  IInv'
  <1> DEFINE r == Request("MEMORY_GROW", delta, 0, <<>>)
  <1> PICK pages : pages = Pages + delta
    OBVIOUS
  <1>1. CASE pages \in 1 .. MaxPages /\ Pages > 0
    <2>1. /\ Serve(r, FALSE, <<Pages>>) /\ NewMemory(Copied(pages))
          /\ phase' \in {"running", "undefined"}
      BY <1>1 DEF MEMORY_GROW, Copied
    <2>2. arrays' \in Seq(Arrays) /\ Memory' \in 1 .. Len(arrays') /\ <<Pages>> \in Seq(Nat)
      BY <1>1, <2>1, GrowFacts, PagesFacts
    <2> QED
      BY <2>1, <2>2, ServeIInv
  <1>2. CASE ~(pages \in 1 .. MaxPages /\ Pages > 0)
    BY <1>2, ThrowIInv DEF MEMORY_GROW
  <1> QED
    BY <1>1, <1>2

\* What a host call that fits makes of the array: the buffer filled, and the
\* number of bytes put in its place if that begins inside.
LEMMA HostFacts ==
  ASSUME IInv, phase = "running", NEW at \in Int, NEW bytes \in Seq(Byte), NEW retPtrs \in Addresses,
         fd_read(at, bytes, retPtrs), ~(at < 0 \/ at + Len(bytes) > Size(Current))
  PROVE  LET filled == Overlaid(Current, at, bytes)
             whole == Overlaid(filled, retPtrs, Int32(Len(bytes))) IN
         /\ Serve(Request("fd_read", at, retPtrs, bytes), retPtrs \notin DOMAIN Current, <<>>)
         /\ Memory' = Memory /\ arrays' \in Seq(Arrays) /\ Len(arrays') = Len(arrays)
         /\ retPtrs \in DOMAIN Current =>
              /\ arrays'[Memory] = whole
              /\ phase' = IF retPtrs + 4 <= Size(Current) THEN phase ELSE "undefined"
         /\ retPtrs \notin DOMAIN Current => arrays'[Memory] = filled /\ phase' = phase
  <1> DEFINE filled == Overlaid(Current, at, bytes)
             whole == Overlaid(filled, retPtrs, Int32(Len(bytes)))
  <1>1. Current \in Arrays /\ Memory \in DOMAIN arrays /\ arrays \in Seq(Arrays)
    BY RunningFacts
  <1>2. filled \in Arrays
    BY <1>1, OverlaidFacts
  <1>3. whole \in Arrays
    <2>1. Int32(Len(bytes)) \in Seq(Byte) /\ retPtrs \in Int
      BY Int32Facts, AddressesAssumption
    <2> HIDE DEF filled
    <2> QED
      BY <1>2, <2>1, OverlaidFacts
  <1>4. /\ Serve(Request("fd_read", at, retPtrs, bytes), retPtrs \notin DOMAIN Current, <<>>)
        /\ Memory' = Memory
        /\ IF retPtrs \in DOMAIN Current
           THEN /\ arrays' = [arrays EXCEPT ![Memory] = whole]
                /\ phase' = IF retPtrs + 4 <= Size(Current) THEN phase ELSE "undefined"
           ELSE arrays' = [arrays EXCEPT ![Memory] = filled] /\ phase' = phase
    BY DEF fd_read, ContextMemory, Current
  <1> HIDE DEF filled, whole
  <1>5. CASE retPtrs \in DOMAIN Current
    <2>1. arrays' = [arrays EXCEPT ![Memory] = whole]
      BY <1>4, <1>5
    <2>2. arrays' \in Seq(Arrays) /\ Len(arrays') = Len(arrays) /\ arrays'[Memory] = whole
      BY <1>1, <1>3, <2>1
    <2> QED
      BY <1>4, <1>5, <2>2 DEF whole, filled
  <1>6. CASE retPtrs \notin DOMAIN Current
    <2>1. arrays' = [arrays EXCEPT ![Memory] = filled]
      BY <1>4, <1>6
    <2>2. arrays' \in Seq(Arrays) /\ Len(arrays') = Len(arrays) /\ arrays'[Memory] = filled
      BY <1>1, <1>2, <2>1
    <2> QED
      BY <1>4, <1>6, <2>2 DEF filled
  <1> QED
    BY <1>5, <1>6

LEMMA HostIInv ==
  ASSUME IInv, phase = "running", NEW at \in Int, NEW bytes \in Seq(Byte), NEW retPtrs \in Addresses,
         fd_read(at, bytes, retPtrs)
  PROVE  IInv'
  <1>1. CASE at < 0 \/ at + Len(bytes) > Size(Current)
    <2>1. Throw(Request("fd_read", at, retPtrs, bytes))
      BY <1>1 DEF fd_read, ContextMemory, Current
    <2> QED
      BY <2>1, ThrowIInv
  <1>2. CASE ~(at < 0 \/ at + Len(bytes) > Size(Current))
    <2>1. /\ Serve(Request("fd_read", at, retPtrs, bytes), retPtrs \notin DOMAIN Current, <<>>)
          /\ Memory' = Memory /\ arrays' \in Seq(Arrays) /\ Len(arrays') = Len(arrays)
      BY <1>2, HostFacts
    <2>2. phase' \in {"running", "undefined"}
      BY <1>2, HostFacts
    <2>3. Memory' \in 1 .. Len(arrays') /\ <<>> \in Seq(Nat)
      BY <2>1, RunningFacts
    <2> QED
      BY <2>1, <2>2, <2>3, ServeIInv
  <1> QED
    BY <1>1, <1>2

LEMMA StepIInv == IInv /\ [Next]_vars => IInv'
  <1> SUFFICES ASSUME IInv, [Next]_vars
               PROVE  IInv'
    OBVIOUS
  <1>1. CASE UNCHANGED vars
    BY <1>1 DEF vars, IInv, Types, Loading, Filled, NoneOutside, Reached, Done, Value, Current, AllocatedPages
  <1>2. CASE Allocate
    BY <1>2, AllocateIInv
  <1>3. CASE StoreElement
    BY <1>3, StoreElementIInv
  <1>4. CASE Return
    BY <1>4, ReturnIInv
  <1>5. CASE Run
    <2>1. phase = "running"
      BY <1>5 DEF Run
    <2>2. CASE \E a \in Addresses, o \in Offsets : \E op \in DOMAIN Loads : Load(op, a, o)
      BY <2>1, <2>2, LoadIInv
    <2>3. CASE \E a \in Addresses, o \in Offsets : \E op \in DOMAIN Stores, v \in Patterns : Store(op, a, o, v)
      BY <2>1, <2>3, StoreIInv
    <2>4. CASE MEMORY_SIZE
      BY <2>1, <2>4, SizeIInv
    <2>5. CASE \E d \in Deltas : MEMORY_GROW(d)
      BY <2>1, <2>5, GrowIInv
    <2>6. CASE \E buffer \in Buffers, retPtrs \in Addresses : fd_read(buffer.at, buffer.bytes, retPtrs)
      BY <2>1, <2>6, HostIInv, RequestsAssumption
    <2> QED
      BY <1>5, <2>2, <2>3, <2>4, <2>5, <2>6 DEF Run
  <1> QED
    BY <1>1, <1>2, <1>3, <1>4, <1>5 DEF Next

LEMMA Invariance == Spec => []IInv
  BY InitIInv, StepIInv, PTL DEF Spec

\* Whatever program runs and whatever it asks for, the field refers to an array
\* that is a whole number of pages, and so is every array it ever referred to.
THEOREM TypeCorrect == Spec => []TypeOK
  <1>1. IInv => TypeOK
    <2> SUFFICES ASSUME IInv
                 PROVE  TypeOK
      OBVIOUS
    <2>1. Types
      BY DEF IInv
    <2>2. ASSUME NEW k \in DOMAIN arrays
          PROVE  /\ arrays[k] \in [DOMAIN arrays[k] -> Byte]
                 /\ \E p \in 0 .. MaxPages : DOMAIN arrays[k] = 0 .. p * PageSize - 1
      <3>1. arrays[k] \in Arrays
        BY <2>1 DEF Types
      <3> QED
        BY <3>1 DEF Arrays
    <2> QED
      BY <2>1, <2>2 DEF Types, TypeOK, null
  <1> QED
    BY <1>1, Invariance, PTL

-------------------------------------------------------------------------------
(* The memory is the one WasmMemory promises. *)

\* The promised memory.
Promised == IF phase \in {"running", "undefined"} THEN Current ELSE Zeros(0)

\* The promise speaks of bytes and values as the model does.
LEMMA SameAccess ==
  /\ Promise!Loads = Loads /\ Promise!Stores = Stores
  /\ \A n : Promise!Zeros(n) = Zeros(n)
  /\ \A mem : Promise!Size(mem) = Size(mem)
  /\ \A mem, at, s : Promise!Overlaid(mem, at, s) = Overlaid(mem, at, s)
  /\ \A mem, at, n : Promise!BytesAt(mem, at, n) = BytesAt(mem, at, n)
  /\ \A s, n, signed : Promise!Extended(s, n, signed) = Extended(s, n, signed)
  /\ \A n : Promise!Int32(n) = Int32(n)
  /\ \A q, thrown, value : Promise!Answer(q, thrown, value) = Answer(q, thrown, value)
  /\ Promise!Nothing = Nothing
  <1>1. Promise!Loads = Loads /\ Promise!Stores = Stores
    BY Zenon DEF Promise!Loads, Loads, Promise!Stores, Stores
  <1>2. \A n : Promise!Zeros(n) = Zeros(n)
    BY Zenon DEF Promise!Zeros, Zeros
  <1>3. \A mem : Promise!Size(mem) = Size(mem)
    BY Zenon DEF Promise!Size, Size, Promise!Cardinality, Promise!IsFiniteSet, Cardinality, IsFiniteSet
  <1>4. \A mem, at, s : Promise!Overlaid(mem, at, s) = Overlaid(mem, at, s)
    BY Zenon DEF Promise!Overlaid, Overlaid
  <1>5. \A mem, at, n : Promise!BytesAt(mem, at, n) = BytesAt(mem, at, n)
    BY Zenon DEF Promise!BytesAt, BytesAt
  <1>6. \A s, n, signed : Promise!Extended(s, n, signed) = Extended(s, n, signed)
    BY Zenon DEF Promise!Extended, Extended, Promise!Fill, Fill
  <1>7. \A n : Promise!Int32(n) = Int32(n)
    BY Zenon DEF Promise!Int32, Int32
  <1>8. \A q, thrown, value : Promise!Answer(q, thrown, value) = Answer(q, thrown, value)
    BY Zenon DEF Promise!Answer, Answer
  <1>9. Promise!Nothing = Nothing
    BY Zenon DEF Promise!Nothing, Nothing, Promise!Answer, Answer, Promise!Request, Request
  <1> QED
    BY <1>1, <1>2, <1>3, <1>4, <1>5, <1>6, <1>7, <1>8, <1>9, Zenon

LEMMA PromisedInit == Init => Promise!Init
  <1> SUFFICES ASSUME Init
               PROVE  Promise!Init
    OBVIOUS
  <1>1. phase = "starting" /\ last = Nothing /\ Promised = Zeros(0)
    BY DEF Init, Promised
  <1> QED
    BY <1>1, SameAccess, Zenon DEF Promise!Init, Promised

\* Nothing is promised of the memory while the constructor runs; it may fail
\* for one that is too large.
LEMMA PromisedAllocate ==
  ASSUME IInv, Allocate
  PROVE  Promise!Next \/ UNCHANGED Promise!vars
  <1>1. phase = "starting" /\ UNCHANGED <<program, last>>
    BY DEF Allocate
  <1>2. CASE AllocatedPages <= MaxPages
    <2>1. phase' = phase
      BY <1>2 DEF Allocate
    <2> QED
      BY <1>1, <2>1 DEF Promise!vars, Zeros
  <1>3. CASE ~(AllocatedPages <= MaxPages)
    <2>1. phase' = "failed"
      BY <1>3 DEF Allocate
    <2>2. AllocatedPages \in Promise!Sizes /\ AllocatedPages > MaxPages
      BY <1>3, ProgramFacts, SizesAssumption DEF IInv
    <2>3. Promise!Instantiate
      BY <1>1, <2>1, <2>2 DEF Promise!Instantiate, Zeros
    <2> QED
      BY <2>3 DEF Promise!Next
  <1> QED
    BY <1>2, <1>3

\* A segment with a byte outside does not fit.
LEMMA ByteOutside ==
  ASSUME NEW n \in Nat, NEW a \in Int, NEW l \in Nat, NEW j \in 1 .. l, a + j - 1 \notin 0 .. n - 1
  PROVE  ~(a >= 0 /\ a + l <= n)
  <1>1. CASE a + j - 1 < 0
    BY <1>1
  <1>2. CASE a + j - 1 > n - 1
    BY <1>2
  <1> QED
    BY <1>1, <1>2

\* A constructor that fails does so for a segment that does not fit.
LEMMA PromisedStoreElement ==
  ASSUME IInv, StoreElement
  PROVE  Promise!Next \/ UNCHANGED Promise!vars
  <1>1. phase = "starting" /\ Memory # null /\ UNCHANGED <<program, Memory, last, requests>>
    BY DEF StoreElement
  <1>2. CASE phase' = phase
    BY <1>1, <1>2 DEF Promise!vars, Zeros
  <1>3. CASE phase' = "failed" /\ phase' # phase
    <2>1. /\ pc[1] \in DOMAIN program.data /\ pc[2] \in DOMAIN program.data[pc[1]].bytes
          /\ program.data[pc[1]].at + pc[2] - 1 \notin DOMAIN Current
      BY <1>3 DEF StoreElement, Put
    <2> PICK seg : seg = program.data[pc[1]]
      OBVIOUS
    <2> PICK n \in Nat : n = AllocatedPages * PageSize /\ DOMAIN Current = 0 .. n - 1
      <3>1. AllocatedPages * PageSize \in Nat /\ DOMAIN Current = 0 .. AllocatedPages * PageSize - 1
        BY <1>1, ProgramFacts, PageFacts, SizesAssumption DEF IInv, Loading
      <3> QED
        BY <3>1
    <2>2. seg.at \in Int /\ seg.bytes \in Seq(Byte) /\ AllocatedPages \in Promise!Sizes
      BY <2>1, ProgramFacts DEF IInv
    <2>3. ~(seg.at >= 0 /\ seg.at + Len(seg.bytes) <= n)
      <3> PICK a \in Int, l \in Nat, j \in Nat : /\ a = seg.at /\ l = Len(seg.bytes) /\ j = pc[2]
                                                       /\ j \in 1 .. l
        BY <2>1, <2>2
      <3>1. ~(a + j - 1 \in 0 .. n - 1)
        BY <2>1
      <3>2. ~(a >= 0 /\ a + l <= n)
        BY <3>1, ByteOutside
      <3> QED
        BY <3>2
    <2>4. ~Promise!FitsIn(n, program.data[pc[1]])
      BY <2>3 DEF Promise!FitsIn
    <2>5. Promise!Instantiate
      BY <1>1, <1>3, <2>1, <2>2, <2>4 DEF Promise!Instantiate, Zeros
    <2> QED
      BY <2>5 DEF Promise!Next
  <1> QED
    BY <1>2, <1>3 DEF StoreElement, Put

\* A constructor that returns has put every segment where it belongs.
LEMMA PromisedReturn ==
  ASSUME IInv, Return
  PROVE  Promise!Next
  <1>1. /\ phase = "starting" /\ Memory # null /\ pc[1] \notin DOMAIN program.data /\ phase' = "running"
        /\ UNCHANGED <<program, pc, arrays, Memory, last, requests>> /\ Types /\ Loading
    BY DEF Return, IInv
  <1> PICK n \in Nat : n = AllocatedPages * PageSize /\ DOMAIN Current = 0 .. n - 1
    <2>1. AllocatedPages * PageSize \in Nat /\ DOMAIN Current = 0 .. AllocatedPages * PageSize - 1
      BY <1>1, ProgramFacts, PageFacts, SizesAssumption DEF Loading
    <2> QED
      BY <2>1
  <1>2. /\ \A k \in DOMAIN program.data : k \in Nat /\ program.data[k].at \in Int /\ program.data[k].bytes \in Seq(Byte)
        /\ DOMAIN program.data = 1 .. Len(program.data) /\ Len(program.data) \in Nat
        /\ AllocatedPages \in Promise!Sizes
    BY <1>1, ProgramFacts
  <1>3. \A k \in DOMAIN program.data : k < pc[1]
    BY <1>1, <1>2 DEF Types
  <1>4. Current' = Current
    BY <1>1 DEF Current
  <1>5. \A i : \A k \in DOMAIN program.data : Reached(k, i) <=> k \in Promise!At(i)
    BY <1>3 DEF Reached, Done, Promise!At
  <1>6. \A k, i : Promise!ValueAt(k, i) = Value(k, i)
    BY DEF Promise!ValueAt, Value
  <1>7. \A i : Promise!At(i) \subseteq DOMAIN program.data
    BY DEF Promise!At
  <1>8. ASSUME NEW i \in DOMAIN Current
        PROVE  Current[i] \in Promise!Initial(i)
    <2>1. CASE Promise!At(i) = {}
      BY <1>1, <1>5, <2>1 DEF Loading, Filled, Promise!Initial
    <2>2. CASE Promise!At(i) # {}
      <3>1. CASE Current[i] = 0 /\ \A k \in DOMAIN program.data : Reached(k, i) => Value(k, i) = 0
        BY <1>5, <1>6, <1>7, <2>2, <3>1 DEF Promise!Initial
      <3>2. CASE \E k \in DOMAIN program.data :
                   /\ Reached(k, i) /\ Current[i] = Value(k, i)
                   /\ \A l \in DOMAIN program.data : l > k /\ Reached(l, i) => Value(l, i) = 0
        BY <1>5, <1>6, <1>7, <2>2, <3>2 DEF Promise!Initial
      <3> QED
        BY <1>1, <3>1, <3>2 DEF Loading, Filled
    <2> QED
      BY <2>1, <2>2
  <1>9. ASSUME NEW k \in DOMAIN program.data
        PROVE  Promise!OnlyZerosOutside(n, program.data[k])
    <2>1. \A j \in DOMAIN program.data[k].bytes :
            program.data[k].bytes[j] = 0 \/ program.data[k].at + j - 1 \in 0 .. n - 1
      BY <1>1, <1>3 DEF Loading, NoneOutside, Done
    <2> QED
      BY <2>1 DEF Promise!OnlyZerosOutside
  <1>10. Promise!Instantiate
    BY <1>1, <1>2, <1>4, <1>8, <1>9 DEF Promise!Instantiate
  <1> QED
    BY <1>10 DEF Promise!Next

\* The request that has just been served, as the promise refers to it.
LEMMA PromisedRequest ==
  ASSUME NEW op, NEW a, NEW o, NEW bytes, NEW thrown, NEW value,
         Serve(Request(op, a, o, bytes), thrown, value)
  PROVE  /\ Promise!r.op = op /\ Promise!r.address = a /\ Promise!r.offset = o /\ Promise!r.bytes = bytes
         /\ last' = Answer(Promise!r, thrown, value) /\ last'.thrown = thrown /\ last'.value = value
         /\ Promise!Place = (IF a < 0 THEN a + AddressSpace ELSE a) + o
         /\ program' = program
  <1>1. last' = Answer(Request(op, a, o, bytes), thrown, value) /\ program' = program
    BY DEF Serve
  <1>2. Promise!r = Request(op, a, o, bytes)
    BY <1>1 DEF Promise!r, Answer
  <1>3. Request(op, a, o, bytes) = [op |-> op, address |-> a, offset |-> o, bytes |-> bytes]
    BY DEF Request
  <1>4. Promise!r.op = op /\ Promise!r.address = a /\ Promise!r.offset = o /\ Promise!r.bytes = bytes
    BY <1>2, <1>3
  <1>5. last'.thrown = thrown /\ last'.value = value
    BY <1>1 DEF Answer
  <1>6. Promise!Place = (IF a < 0 THEN a + AddressSpace ELSE a) + o
    BY <1>4, Zenon DEF Promise!Place
  <1> QED
    BY <1>1, <1>2, <1>4, <1>5, <1>6, Zenon

\* Addresses: what the IL checks against what WebAssembly does.
LEMMA PlaceFacts ==
  ASSUME NEW n \in Nat, 2 * n <= AddressSpace, NEW a \in Addresses, NEW o \in Offsets, NEW l \in Nat, l > 0,
         NEW place, place = (IF a < 0 THEN a + AddressSpace ELSE a) + o
  PROVE  /\ place \in Int /\ a \in Int /\ o \in Nat /\ a + o \in Int
         /\ place >= 0 /\ place + l <= n => a >= 0 /\ place = a + o /\ a + o \in 0 .. n - 1
         /\ a + o \in 0 .. n - 1 => place < n \/ (a < 0 /\ a + o >= 0)
         /\ a + o \in 0 .. n - 1 /\ a >= 0 => place = a + o
  <1>1. a \in Int /\ -AddressSpace <= 2 * a /\ o \in Nat /\ AddressSpace \in Nat
    BY AddressesAssumption, OffsetsAssumption, SizesAssumption
  <1>2. CASE a >= 0
    BY <1>1, <1>2
  <1>3. CASE a < 0
    BY <1>1, <1>3
  <1> QED
    BY <1>1, <1>2, <1>3

\* The promised memory before and after a request.
LEMMA PromisedMemory ==
  ASSUME IInv, phase = "running"
  PROVE  /\ Promised = Current
         /\ phase' \in {"running", "undefined"} => Promised' = arrays'[Memory']
  BY DEF Promised, Current

LEMMA PromisedLoad ==
  ASSUME IInv, phase = "running",
         NEW op \in DOMAIN Loads, NEW a \in Addresses, NEW o \in Offsets, Load(op, a, o)
  PROVE  Promise!Load /\ program' = program
  <1>0. PICK n \in Nat, l \in {1, 2, 4, 8} :
        n = Size(Current) /\ 2 * n <= AddressSpace /\ DOMAIN Current = 0 .. n - 1 /\ l = Loads[op][1]
    BY RunningFacts, LoadsFacts
  <1> PICK at : at = Index(a, o)
    OBVIOUS
  <1>1. UNCHANGED <<arrays, Memory, phase>>
    BY DEF Load, Throw
  <1>2. Promised = Current /\ Promised' = Promised
    BY <1>0, <1>1 DEF Promised, Current
  <1>3. at = a + o /\ l \in Nat /\ l > 0
    BY <1>0 DEF Index
  <1>4. ASSUME NEW thrown, NEW value, Serve(Request(op, a, o, <<>>), thrown, value)
        PROVE  /\ Promise!r.op = op /\ Promise!r.address = a /\ Promise!r.offset = o
               /\ last' = Answer(Promise!r, thrown, value) /\ last'.thrown = thrown /\ last'.value = value
               /\ Promise!Place = (IF a < 0 THEN a + AddressSpace ELSE a) + o
               /\ program' = program
    BY <1>0, <1>4, PromisedRequest, Zenon
  <1>5. CASE Checked(at)
    <2>1. at \in 0 .. n - 1
      BY <1>0, <1>5 DEF Checked
    <2>2. PICK beyond \in Byte : Serve(Request(op, a, o, <<>>), FALSE, Loaded(op, Taken(op, at, beyond)))
      BY <1>0, <1>5, HalfFacts DEF Load, Taken
    <2> PICK place : place = Promise!Place
      OBVIOUS
    <2>3. /\ Promise!r.op = op /\ Promise!r.address = a /\ Promise!r.offset = o
          /\ last'.thrown = FALSE /\ last'.value = Loaded(op, Taken(op, at, beyond))
          /\ place = (IF a < 0 THEN a + AddressSpace ELSE a) + o
          /\ program' = program
      BY <1>0, <1>4, <2>2, Zenon
    <2>3a. place = (IF a < 0 THEN a + AddressSpace ELSE a) + o
      BY <1>0, <2>3, Zenon
    <2>4a. /\ place \in Int /\ a \in Int /\ o \in Nat /\ a + o \in Int
           /\ place >= 0 /\ place + l <= n => a >= 0 /\ place = a + o /\ a + o \in 0 .. n - 1
           /\ a + o \in 0 .. n - 1 => place < n \/ (a < 0 /\ a + o >= 0)
      BY <1>0, <1>3, <2>3a, PlaceFacts
    <2>4. /\ place \in Int
          /\ place >= 0 /\ place + l <= n => place = at
          /\ place < n \/ (a < 0 /\ a + o >= 0)
      BY <1>0, <1>3, <2>1, <2>4a
    <2>5. CASE place >= 0 /\ place + l <= n
      <3>1. Taken(op, at, beyond) = BytesAt(Current, place, l)
        BY <1>0, <2>1, <2>4, <2>5 DEF Taken, BytesAt
      <3>2. Taken(op, at, beyond) \in Seq(Byte) /\ Len(Taken(op, at, beyond)) = Loads[op][1]
        BY <1>0, <2>1, TakenFacts
      <3>3. \/ last'.value = Extended(BytesAt(Current, place, l), Loads[op][2], Loads[op][3])
            \/ op = "I64_LOAD32_U" /\ last'.value = Extended(BytesAt(Current, place, l), Loads[op][2], TRUE)
        <4> PICK s : s = Taken(op, at, beyond)
          OBVIOUS
        <4>1. \/ Loaded(op, s) = Extended(s, Loads[op][2], Loads[op][3])
              \/ op = "I64_LOAD32_U" /\ Loaded(op, s) = Extended(s, Loads[op][2], TRUE)
          BY <1>0, <3>2, LoadedFacts, Zenon
        <4>2. last'.value = Loaded(op, s) /\ s = BytesAt(Current, place, l)
          BY <1>0, <2>3, <3>1, Zenon
        <4> QED
          BY <1>0, <4>1, <4>2, Zenon
      <3>4. last'.value \in Promise!Values(op, place)
        BY <1>0, <1>2, <3>3, SameAccess, Zenon DEF Promise!Values, Promised
      <3> QED
        BY <1>0, <1>1, <1>2, <2>3, <2>5, <3>4, SameAccess, Zenon DEF Promise!Load, Promise!Inside, Promised
    <2>6. CASE ~(place >= 0 /\ place + l <= n)
      <3>1. Promise!Unguarded
        BY <1>0, <1>2, <2>3, <2>4, SameAccess, Zenon DEF Promise!Unguarded, Promised
      <3>2. ~Promise!Inside(place, l)
        BY <1>0, <1>2, <2>6, SameAccess, Zenon DEF Promise!Inside, Promised
      <3> QED
        BY <1>0, <1>1, <1>2, <2>3, <3>1, <3>2, SameAccess, Zenon DEF Promise!Load, Promised
    <2> QED
      BY <1>0, <2>5, <2>6, Zenon
  <1>6. CASE ~Checked(at)
    <2>1. at \notin 0 .. n - 1
      BY <1>0, <1>6 DEF Checked
    <2>2. Serve(Request(op, a, o, <<>>), TRUE, <<>>)
      BY <1>0, <1>6 DEF Load, Throw
    <2> PICK place : place = Promise!Place
      OBVIOUS
    <2>3. /\ Promise!r.op = op /\ last' = Answer(Promise!r, TRUE, <<>>)
          /\ place = (IF a < 0 THEN a + AddressSpace ELSE a) + o
          /\ program' = program
      BY <1>0, <1>4, <2>2, Zenon
    <2>3a. place = (IF a < 0 THEN a + AddressSpace ELSE a) + o
      BY <1>0, <2>3, Zenon
    <2>4a. place >= 0 /\ place + l <= n => a >= 0 /\ place = a + o /\ a + o \in 0 .. n - 1
      BY <1>0, <1>3, <2>3a, PlaceFacts
    <2>4. ~(place >= 0 /\ place + l <= n)
      BY <1>0, <1>3, <2>1, <2>4a
    <2>5. ~Promise!Inside(place, l)
      BY <1>0, <1>2, <2>4, SameAccess, Zenon DEF Promise!Inside, Promised
    <2> QED
      BY <1>0, <1>1, <1>2, <2>3, <2>5, SameAccess, Zenon DEF Promise!Load, Promise!Throws, Promised
  <1> QED
    BY <1>0, <1>5, <1>6, Zenon

LEMMA PromisedStore ==
  ASSUME IInv, phase = "running",
         NEW op \in DOMAIN Stores, NEW a \in Addresses, NEW o \in Offsets, NEW v \in Patterns, Store(op, a, o, v)
  PROVE  Promise!Store /\ program' = program
  <1>0. PICK n \in Nat, l \in Nat :
          /\ n = Size(Current) /\ 2 * n <= AddressSpace /\ DOMAIN Current = 0 .. n - 1
          /\ l = Stores[op] /\ l > 0
    BY RunningFacts, StoredFacts
  <1> PICK at : at = Index(a, o)
    OBVIOUS
  <1> PICK whole, s : whole = SubSeq(v, 1, ValueBytes(op)) /\ s = SubSeq(v, 1, l)
    OBVIOUS
  <1>1. s \in Seq(Byte) /\ Len(s) = l /\ SubSeq(whole, 1, l) = s
    BY <1>0, StoredFacts
  <1>2. at = a + o /\ at \in Int
    BY AddressesAssumption, OffsetsAssumption DEF Index
  <1>3. ASSUME NEW thrown, NEW value, Serve(Request(op, a, o, whole), thrown, value)
        PROVE  /\ Promise!r.op = op /\ Promise!r.address = a /\ Promise!r.offset = o /\ Promise!r.bytes = whole
               /\ last' = Answer(Promise!r, thrown, value)
               /\ Promise!Place = (IF a < 0 THEN a + AddressSpace ELSE a) + o
               /\ program' = program
    BY <1>3, PromisedRequest, Zenon
  <1>4. Promised = Current
    BY DEF Promised
  <1>5. CASE Checked(at)
    <2>1. at \in 0 .. n - 1
      BY <1>0, <1>5 DEF Checked
    <2>2. Serve(Request(op, a, o, whole), FALSE, <<>>) /\ Write(Memory, at, s) /\ Memory' = Memory
      BY <1>0, <1>5 DEF Store
    <2> PICK place : place = Promise!Place
      OBVIOUS
    <2>3. /\ Promise!r.op = op /\ Promise!r.address = a /\ Promise!r.offset = o /\ Promise!r.bytes = whole
          /\ last' = Answer(Promise!r, FALSE, <<>>)
          /\ place = (IF a < 0 THEN a + AddressSpace ELSE a) + o
          /\ program' = program
      BY <1>3, <2>2, Zenon
    <2>3a. place = (IF a < 0 THEN a + AddressSpace ELSE a) + o
      BY <2>3, Zenon
    <2>4. /\ place \in Int /\ a \in Int /\ o \in Nat /\ a + o \in Int
          /\ place >= 0 /\ place + l <= n => a >= 0 /\ place = a + o /\ a + o \in 0 .. n - 1
          /\ a + o \in 0 .. n - 1 => place < n \/ (a < 0 /\ a + o >= 0)
          /\ a + o \in 0 .. n - 1 /\ a >= 0 => place = a + o
      BY <1>0, <2>3a, PlaceFacts
    <2>5. CASE place >= 0 /\ place + l <= n
      <3>1. place = at /\ at + Len(s) <= Size(Current)
        BY <1>0, <1>1, <1>2, <2>4, <2>5
      <3>2. phase' = phase /\ Promised' = Overlaid(Current, at, s)
        <4>1. arrays'[Memory] = Overlaid(Current, at, s) /\ phase' = phase
          BY <1>1, <1>2, <2>2, <3>1, WriteFacts
        <4> QED
          BY <2>2, <4>1 DEF Promised, Current
      <3>3. Promised' = Overlaid(Promised, place, SubSeq(Promise!r.bytes, 1, Stores[op]))
        BY <1>0, <1>1, <1>4, <2>3, <3>1, <3>2, Zenon
      <3> QED
        BY <1>0, <1>4, <2>3, <2>5, <3>2, <3>3, SameAccess, Zenon
           DEF Promise!Store, Promise!Inside, Promise!Returns, Promised
    <2>6. CASE ~(place >= 0 /\ place + l <= n)
      <3>1. place < n \/ (a < 0 /\ a + o >= 0)
        BY <1>2, <2>1, <2>4
      <3>2. Promise!Unguarded
        BY <1>0, <1>4, <2>3, <3>1, SameAccess, Zenon DEF Promise!Unguarded, Promised
      <3>3. ~Promise!Inside(place, l)
        BY <1>0, <1>4, <2>6, SameAccess, Zenon DEF Promise!Inside, Promised
      <3> QED
        BY <1>0, <2>3, <3>2, <3>3, SameAccess, Zenon DEF Promise!Store
    <2> QED
      BY <2>5, <2>6, Zenon
  <1>6. CASE ~Checked(at)
    <2>1. at \notin 0 .. n - 1
      BY <1>0, <1>6 DEF Checked
    <2>2. Serve(Request(op, a, o, whole), TRUE, <<>>) /\ UNCHANGED <<arrays, Memory, phase>>
      BY <1>0, <1>6 DEF Store, Throw
    <2> PICK place : place = Promise!Place
      OBVIOUS
    <2>3. /\ Promise!r.op = op /\ last' = Answer(Promise!r, TRUE, <<>>)
          /\ place = (IF a < 0 THEN a + AddressSpace ELSE a) + o
          /\ program' = program
      BY <1>3, <2>2, Zenon
    <2>4. place >= 0 /\ place + l <= n => a >= 0 /\ place = a + o /\ a + o \in 0 .. n - 1
      BY <1>0, <2>3, PlaceFacts, Zenon
    <2>5. ~(place >= 0 /\ place + l <= n)
      BY <1>2, <2>1, <2>4
    <2>6. ~Promise!Inside(place, l)
      BY <1>0, <1>4, <2>5, SameAccess, Zenon DEF Promise!Inside, Promised
    <2>7. Promised' = Promised /\ phase' = phase
      BY <2>2 DEF Promised, Current
    <2> QED
      BY <1>0, <2>3, <2>6, <2>7, SameAccess, Zenon DEF Promise!Store, Promise!Throws, Promised
  <1> QED
    BY <1>5, <1>6, Zenon

LEMMA PromisedSize ==
  ASSUME IInv, phase = "running", MEMORY_SIZE
  PROVE  Promise!MemorySize /\ program' = program
  <1>1. /\ Serve(Request("MEMORY_SIZE", 0, 0, <<>>), FALSE, <<Pages>>)
        /\ UNCHANGED <<arrays, Memory, phase>>
    BY DEF MEMORY_SIZE
  <1>2. Promise!r.op = "MEMORY_SIZE" /\ last' = Answer(Promise!r, FALSE, <<Pages>>) /\ program' = program
    BY <1>1, PromisedRequest, Zenon
  <1>3. Promised = Current /\ Promised' = Promised
    BY <1>1 DEF Promised, Current
  <1> QED
    BY <1>1, <1>2, <1>3, SameAccess, Zenon DEF Promise!MemorySize, Promise!Returns, Promised, Pages

\* So many pages more, in bytes.
LEMMA MorePages ==
  ASSUME NEW p \in Nat, NEW delta \in Int
  PROVE  (p + delta) * PageSize = p * PageSize + delta * PageSize
  BY SizesAssumption

LEMMA PromisedGrow ==
  ASSUME IInv, phase = "running", NEW delta \in Deltas, MEMORY_GROW(delta)
  PROVE  Promise!MemoryGrow /\ program' = program
  <1> DEFINE r == Request("MEMORY_GROW", delta, 0, <<>>)
  <1>0. PICK p \in 0 .. MaxPages : p = Pages /\ p = Size(Current) \div PageSize /\ Size(Current) = p * PageSize
    BY PagesFacts DEF Pages
  <1>1. delta \in Int /\ p \in Nat /\ MaxPages \in Nat
    BY RequestsAssumption, SizesAssumption
  <1> PICK pages \in Int : pages = p + delta
    BY <1>1
  <1>2. ASSUME NEW thrown, NEW value, Serve(r, thrown, value)
        PROVE  /\ Promise!r.op = "MEMORY_GROW" /\ Promise!r.address = delta
               /\ last' = Answer(Promise!r, thrown, value) /\ program' = program
    BY <1>2, PromisedRequest, Zenon
  <1>3. Promised = Current
    BY DEF Promised
  <1>4. CASE pages \in 1 .. MaxPages /\ p > 0
    <2>1. /\ Serve(r, FALSE, <<p>>) /\ NewMemory(Copied(pages))
          /\ phase' = IF delta >= 0 THEN phase ELSE "undefined"
      BY <1>0, <1>4 DEF MEMORY_GROW, Copied
    <2>2. /\ Promise!r.op = "MEMORY_GROW" /\ Promise!r.address = delta
          /\ last' = Answer(Promise!r, FALSE, <<p>>) /\ program' = program
      BY <1>2, <2>1, Zenon
    <2>3. CASE delta >= 0
      <3>1. phase' = phase /\ arrays'[Memory'] = Copied(pages)
        BY <1>4, <2>1, <2>3, GrowFacts
      <3>2. Promised' = Copied(pages)
        BY <3>1 DEF Promised, Current
      <3>3. Copied(pages) = [i \in 0 .. Size(Current) + delta * PageSize - 1 |->
                               IF i \in DOMAIN Current THEN Current[i] ELSE 0]
        <4>1. GrownSize(pages) = Size(Current) + delta * PageSize
          BY <1>0, <1>1, MorePages DEF GrownSize
        <4>2. 0 .. GrownSize(pages) - 1 = 0 .. Size(Current) + delta * PageSize - 1
          <5> PICK m \in Int, n \in Int : m = GrownSize(pages) /\ n = delta * PageSize
            BY <1>1, SizesAssumption DEF GrownSize
          <5>1. m = Size(Current) + n /\ Size(Current) \in Nat
            BY <4>1, RunningFacts, Zenon
          <5> QED
            BY <5>1
        <4> QED
          BY <4>2 DEF Copied
      <3> QED
        BY <1>0, <1>3, <2>2, <2>3, <3>1, <3>2, <3>3, SameAccess, Zenon
           DEF Promise!MemoryGrow, Promise!Returns, Promised
    <2>4. CASE ~(delta >= 0)
      <3>1. phase' = "undefined" /\ delta < 0
        BY <1>1, <2>1, <2>4
      <3> QED
        BY <2>2, <3>1, Zenon DEF Promise!MemoryGrow, Promise!Undefined
    <2> QED
      BY <2>3, <2>4, Zenon
  <1>5. CASE ~(pages \in 1 .. MaxPages /\ p > 0)
    <2>1. Serve(r, TRUE, <<>>) /\ UNCHANGED <<arrays, Memory, phase>>
      BY <1>0, <1>5 DEF MEMORY_GROW, Throw
    <2>2. /\ Promise!r.op = "MEMORY_GROW" /\ Promise!r.address = delta
          /\ last' = Answer(Promise!r, TRUE, <<>>) /\ program' = program
      BY <1>2, <2>1, Zenon
    <2>3. Promised' = Promised /\ phase' = phase
      BY <2>1 DEF Promised, Current
    <2>4. p = 0 \/ delta < 0 \/ p + delta > MaxPages
      BY <1>0, <1>1, <1>5
    <2> QED
      BY <1>0, <1>3, <2>2, <2>3, <2>4, SameAccess, Zenon DEF Promise!MemoryGrow, Promise!Throws, Promised
  <1> QED
    BY <1>4, <1>5, Zenon

LEMMA PromisedHost ==
  ASSUME IInv, phase = "running", NEW at \in Int, NEW bytes \in Seq(Byte), NEW retPtrs \in Addresses,
         fd_read(at, bytes, retPtrs)
  PROVE  Promise!HostRead /\ program' = program
  <1> DEFINE r == Request("fd_read", at, retPtrs, bytes)
  <1>0. PICK n \in Nat, l \in Nat : n = Size(Current) /\ l = Len(bytes) /\ DOMAIN Current = 0 .. n - 1
    BY RunningFacts
  <1>1. ASSUME NEW thrown, NEW value, Serve(r, thrown, value)
        PROVE  /\ Promise!r.op = "fd_read" /\ Promise!r.address = at /\ Promise!r.offset = retPtrs
               /\ Promise!r.bytes = bytes
               /\ last' = Answer(Promise!r, thrown, value) /\ program' = program
    BY <1>1, PromisedRequest, Zenon
  <1>2. Promised = Current
    BY DEF Promised
  <1>3. CASE at < 0 \/ at + l > n
    <2>1. Serve(r, TRUE, <<>>) /\ UNCHANGED <<arrays, Memory, phase>>
      BY <1>0, <1>3 DEF fd_read, ContextMemory, Current, Throw
    <2>2. /\ Promise!r.op = "fd_read" /\ Promise!r.address = at /\ Promise!r.bytes = bytes
          /\ last' = Answer(Promise!r, TRUE, <<>>) /\ program' = program
      BY <1>1, <2>1, Zenon
    <2>3. Promised' = Promised /\ phase' = phase
      BY <2>1 DEF Promised, Current
    <2>4. ~(at >= 0 /\ at + l <= n)
      BY <1>0, <1>3
    <2>5. ~Promise!Inside(at, Len(bytes))
      BY <1>0, <1>2, <2>4, SameAccess, Zenon DEF Promise!Inside, Promised
    <2> QED
      BY <2>2, <2>3, <2>5, SameAccess, Zenon DEF Promise!HostRead, Promise!Throws, Promised
  <1>4. CASE ~(at < 0 \/ at + l > n)
    <2> DEFINE filled == Overlaid(Current, at, bytes)
               whole == Overlaid(filled, retPtrs, Int32(Len(bytes)))
    <2>1. /\ Serve(r, retPtrs \notin DOMAIN Current, <<>>) /\ Memory' = Memory
          /\ retPtrs \in DOMAIN Current =>
               /\ arrays'[Memory] = whole
               /\ phase' = IF retPtrs + 4 <= n THEN phase ELSE "undefined"
          /\ retPtrs \notin DOMAIN Current => arrays'[Memory] = filled /\ phase' = phase
      BY <1>0, <1>4, HostFacts
    <2>2. /\ Promise!r.op = "fd_read" /\ Promise!r.address = at /\ Promise!r.offset = retPtrs
          /\ Promise!r.bytes = bytes
          /\ last' = Answer(Promise!r, retPtrs \notin DOMAIN Current, <<>>) /\ program' = program
      BY <1>1, <2>1, Zenon
    <2>3. at >= 0 /\ at + l <= n /\ retPtrs \in Int
      BY <1>0, <1>4, AddressesAssumption
    <2>4. Promise!Inside(at, Len(bytes))
      BY <1>0, <1>2, <2>3, SameAccess, Zenon DEF Promise!Inside, Promised
    <2>5. Promise!Inside(retPtrs, 4) <=> retPtrs >= 0 /\ retPtrs + 4 <= n
      BY <1>0, <1>2, SameAccess, Zenon DEF Promise!Inside, Promised
    <2> HIDE DEF filled, whole
    <2>6. CASE retPtrs \in DOMAIN Current /\ retPtrs + 4 <= n
      <3>1. phase' = phase /\ arrays'[Memory'] = whole
        BY <2>1, <2>6
      <3>2. Promised' = whole
        BY <3>1 DEF Promised, Current
      <3>3. retPtrs >= 0
        BY <1>0, <2>6
      <3>4. last' = Answer(Promise!r, FALSE, <<>>)
        <4>1. (retPtrs \notin DOMAIN Current) = FALSE
          BY <2>6, Zenon
        <4> QED
          BY <2>2, <4>1, Zenon
      <3>5. Promised' = Overlaid(Overlaid(Promised, at, bytes), retPtrs, Int32(Len(bytes)))
        BY <1>2, <3>2, Zenon DEF whole, filled
      <3> QED
        BY <2>2, <2>4, <2>5, <2>6, <3>1, <3>3, <3>4, <3>5, SameAccess, Zenon
           DEF Promise!HostRead, Promise!Returns, Promised
    <2>7. CASE retPtrs \in DOMAIN Current /\ ~(retPtrs + 4 <= n)
      <3>1. phase' = "undefined"
        BY <2>1, <2>7
      <3> QED
        BY <1>2, <2>2, <2>4, <2>5, <2>7, <3>1, SameAccess, Zenon DEF Promise!HostRead, Promise!Undefined, Promised
    <2>8. CASE retPtrs \notin DOMAIN Current
      <3>1. phase' = phase /\ arrays'[Memory'] = filled
        BY <2>1, <2>8
      <3>2. Promised' = filled
        BY <3>1 DEF Promised, Current
      <3>3. ~(retPtrs >= 0 /\ retPtrs + 4 <= n)
        BY <1>0, <2>3, <2>8
      <3>4. last' = Answer(Promise!r, TRUE, <<>>)
        <4>1. (retPtrs \notin DOMAIN Current) = TRUE
          BY <2>8, Zenon
        <4> QED
          BY <2>2, <4>1, Zenon
      <3>5. Promised' = Overlaid(Promised, at, bytes)
        BY <1>2, <3>2, Zenon DEF filled
      <3> QED
        BY <2>2, <2>4, <2>5, <3>1, <3>3, <3>4, <3>5, SameAccess, Zenon
           DEF Promise!HostRead, Promise!Throws, Promised
    <2> QED
      BY <2>6, <2>7, <2>8, Zenon
  <1> QED
    BY <1>3, <1>4, Zenon

LEMMA PromisedStep == IInv /\ [Next]_vars => [Promise!Next]_(Promise!vars)
  <1> SUFFICES ASSUME IInv, [Next]_vars
               PROVE  Promise!Next \/ UNCHANGED Promise!vars
    BY Zenon
  <1>1. CASE UNCHANGED vars
    BY <1>1 DEF vars, Promise!vars, Current
  <1>2. CASE Allocate
    BY <1>2, PromisedAllocate, Zenon
  <1>3. CASE StoreElement
    BY <1>3, PromisedStoreElement, Zenon
  <1>4. CASE Return
    BY <1>4, PromisedReturn, Zenon
  <1>5. CASE Run
    <2>1. phase = "running"
      BY <1>5 DEF Run
    <2>2. CASE \E a \in Addresses, o \in Offsets : \E op \in DOMAIN Loads : Load(op, a, o)
      BY <2>1, <2>2, PromisedLoad, Zenon DEF Promise!Serve, Promise!Next
    <2>3. CASE \E a \in Addresses, o \in Offsets : \E op \in DOMAIN Stores, v \in Patterns : Store(op, a, o, v)
      BY <2>1, <2>3, PromisedStore, Zenon DEF Promise!Serve, Promise!Next
    <2>4. CASE MEMORY_SIZE
      BY <2>1, <2>4, PromisedSize, Zenon DEF Promise!Serve, Promise!Next
    <2>5. CASE \E d \in Deltas : MEMORY_GROW(d)
      BY <2>1, <2>5, PromisedGrow, Zenon DEF Promise!Serve, Promise!Next
    <2>6. CASE \E buffer \in Buffers, retPtrs \in Addresses : fd_read(buffer.at, buffer.bytes, retPtrs)
      BY <2>1, <2>6, PromisedHost, RequestsAssumption, Zenon DEF Promise!Serve, Promise!Next
    <2> QED
      BY <1>5, <2>2, <2>3, <2>4, <2>5, <2>6 DEF Run
  <1> QED
    BY <1>1, <1>2, <1>3, <1>4, <1>5 DEF Next

\* The program has the memory WasmMemory promises: whatever its own instructions
\* and the host calls stored is what later loads return, across every
\* replacement of the array by MEMORY_GROW, and nothing else changes.
THEOREM MemoryImplemented == Spec => MemoryAsPromised
  BY PromisedInit, PromisedStep, Invariance, PTL DEF Spec, MemoryAsPromised, Promise!Spec

===============================================================================

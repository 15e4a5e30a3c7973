----------------------------- MODULE MemoryAccess ------------------------------
(* What the linear memory of a translated program and its promise have in      *)
(* common: the loads and stores of WebAssembly, and requests to the memory.    *)
(* A value is the sequence of its bytes, the least significant first, and a    *)
(* byte is a number below Radix (256).                                         *)
EXTENDS Integers, Sequences, FiniteSets

CONSTANTS Radix,        \* values of a byte
          PageSize,     \* page_size: 65536
          AddressSpace, \* 2^32
          MaxPages      \* pages of the largest byte[] there can be

ASSUME RadixAssumption == Radix \in Nat \ {0} /\ Radix % 2 = 0
ASSUME SizesAssumption == PageSize \in Nat \ {0} /\ AddressSpace \in Nat /\ MaxPages \in Nat
\* An array has fewer than 2^31 elements.
ASSUME ArraysAssumption == 2 * MaxPages * PageSize <= AddressSpace

Byte == 0 .. Radix - 1

\* Bytes in the memory, bytes of the value, and whether the sign is extended.
Loads ==
  [I32_LOAD     |-> <<4, 4, FALSE>>, I64_LOAD     |-> <<8, 8, FALSE>>,
   F32_LOAD     |-> <<4, 4, FALSE>>, F64_LOAD     |-> <<8, 8, FALSE>>,
   I32_LOAD8_S  |-> <<1, 4, TRUE>>,  I32_LOAD8_U  |-> <<1, 4, FALSE>>,
   I32_LOAD16_S |-> <<2, 4, TRUE>>,  I32_LOAD16_U |-> <<2, 4, FALSE>>,
   I64_LOAD8_S  |-> <<1, 8, TRUE>>,  I64_LOAD8_U  |-> <<1, 8, FALSE>>,
   I64_LOAD16_S |-> <<2, 8, TRUE>>,  I64_LOAD16_U |-> <<2, 8, FALSE>>,
   I64_LOAD32_S |-> <<4, 8, TRUE>>,  I64_LOAD32_U |-> <<4, 8, FALSE>>]

Stores ==
  [I32_STORE |-> 4, I32_STORE_8 |-> 1, I32_STORE_16 |-> 2, F32_STORE |-> 4,
   I64_STORE |-> 8, I64_STORE_8 |-> 1, I64_STORE_16 |-> 2, I64_STORE_32 |-> 4, F64_STORE |-> 8]

ValueBytes(op) == IF op \in {"I64_STORE", "I64_STORE_8", "I64_STORE_16", "I64_STORE_32", "F64_STORE"} THEN 8 ELSE 4

Fill(b, signed) == IF signed /\ b >= Radix \div 2 THEN Radix - 1 ELSE 0
Extended(s, n, signed) == [i \in 1 .. n |-> IF i <= Len(s) THEN s[i] ELSE Fill(s[Len(s)], signed)]
Int32(n) == LET weights == <<1, Radix, Radix * Radix, Radix * Radix * Radix>> IN
  [i \in 1 .. 4 |-> (n \div weights[i]) % Radix]

\* A memory is a function from 0 .. its size - 1.
Zeros(n) == [i \in 0 .. n - 1 |-> 0]
Size(mem) == Cardinality(DOMAIN mem)
Overlaid(mem, at, s) == [i \in DOMAIN mem |-> IF i - at + 1 \in DOMAIN s THEN s[i - at + 1] ELSE mem[i]]
BytesAt(mem, at, n) == [i \in 1 .. n |-> mem[at + i - 1]]

\* A request: an operation, an address (or the number of pages to grow by, or
\* the place of a buffer), the constant offset (or the place a host call puts
\* its result), and the bytes stored or read from a file.
Request(op, address, offset, bytes) == [op |-> op, address |-> address, offset |-> offset, bytes |-> bytes]
Answer(request, thrown, value) == [request |-> request, thrown |-> thrown, value |-> value]
Nothing == Answer(Request("none", 0, 0, <<>>), FALSE, <<>>)
===============================================================================

-------------------------------- MODULE Memory ---------------------------------
(* The linear memory of a translated program: a byte[] in the static field     *)
(* Memory, made and filled by the static constructor that ReadMemorySection    *)
(* and ReadDataSection write, replaced by MEMORY_GROW, accessed by the IL of   *)
(* loads and stores, and by WASI calls through Context.Memory.                 *)
(*                                                                             *)
(* Arrays are kept by reference: one that has been replaced is still there for *)
(* whoever holds it.  Once bytes past the end of an array have been written    *)
(* nothing more is said ("undefined").                                         *)
EXTENDS MemoryAccess

CONSTANTS Programs,    \* memory sections with data sections
          Addresses,   \* int32s
          Offsets,     \* constant offsets of loads and stores
          Patterns,    \* values of 8 bytes
          Deltas,      \* operands of MEMORY_GROW
          Buffers,     \* buffers of fd_read: their place and what is read
          MaxRequests  \* bound: requests to a memory

ASSUME ProgramsAssumption ==
  \A p \in Programs : /\ p.min \in Nat /\ p.max \in Nat /\ p.type \in {0, 1}
                      /\ p.data \in Seq([at : Int, bytes : Seq(Byte)])
\* An int32 is not below -2^31.
ASSUME AddressesAssumption == \A a \in Addresses : a \in Int /\ -AddressSpace <= 2 * a
ASSUME OffsetsAssumption == Offsets \subseteq Nat
ASSUME PatternsAssumption == \A v \in Patterns : v \in Seq(Byte) /\ Len(v) = 8
ASSUME RequestsAssumption ==
  /\ \A d \in Deltas : d \in Int
  /\ \A b \in Buffers : b.at \in Int /\ b.bytes \in Seq(Byte)
  /\ MaxRequests \in Nat

VARIABLES
  program,  \* the limits of the memory, and its data segments
  phase,
  pc,       \* where the static constructor is: a segment and a byte of it
  arrays,   \* every byte[] there has been
  Memory,   \* the field: an index into arrays, or null
  last,     \* the last request and its answer
  requests  \* how many there have been

vars == <<program, phase, pc, arrays, Memory, last, requests>>

null == 0
Current == arrays[Memory]

TypeOK ==
  /\ program \in Programs
  /\ phase \in {"starting", "running", "failed", "undefined"}
  /\ pc \in Nat \X Nat /\ requests \in 0 .. MaxRequests
  /\ Memory \in {null} \cup DOMAIN arrays
  /\ \A k \in DOMAIN arrays : /\ arrays[k] \in [DOMAIN arrays[k] -> Byte]
                              /\ \E p \in 0 .. MaxPages : DOMAIN arrays[k] = 0 .. p * PageSize - 1
  /\ last.value \in Seq(Nat)

Init ==
  /\ program \in Programs
  /\ phase = "starting" /\ pc = <<1, 1>> /\ arrays = <<>> /\ Memory = null
  /\ last = Nothing /\ requests = 0

-------------------------------------------------------------------------------
(* The static constructor. *)

\* Newarr, and Stsfld Memory.
NewMemory(mem) == arrays' = Append(arrays, mem) /\ Memory' = Len(arrays) + 1

\* ReadMemorySection: a memory with a maximum is made as large as that.  Newarr
\* throws for more than there can be, and the program never starts.
AllocatedPages == IF program.type = 0 THEN program.min ELSE program.max

Allocate ==
  /\ phase = "starting" /\ Memory = null
  /\ IF AllocatedPages <= MaxPages
     THEN NewMemory(Zeros(AllocatedPages * PageSize)) /\ phase' = phase
     ELSE phase' = "failed" /\ UNCHANGED <<arrays, Memory>>
  /\ UNCHANGED <<program, pc, last, requests>>

\* Stelem checks its index.
Put(at, b) ==
  IF at \in DOMAIN Current
  THEN arrays' = [arrays EXCEPT ![Memory][at] = b] /\ phase' = phase
  ELSE phase' = "failed" /\ arrays' = arrays

\* ReadDataSection: a Stelem for every byte of a segment that is not zero.
\* pc is the segment and the byte.
StoreElement ==
  LET seg == program.data[pc[1]]  b == seg.bytes[pc[2]] IN
  /\ phase = "starting" /\ Memory # null /\ pc[1] \in DOMAIN program.data
  /\ IF pc[2] \in DOMAIN seg.bytes /\ b # 0 THEN Put(seg.at + pc[2] - 1, b)
                                            ELSE UNCHANGED <<arrays, phase>>
  /\ pc' = IF pc[2] < Len(seg.bytes) THEN <<pc[1], pc[2] + 1>> ELSE <<pc[1] + 1, 1>>
  /\ UNCHANGED <<program, Memory, last, requests>>

Return ==
  /\ phase = "starting" /\ Memory # null /\ pc[1] \notin DOMAIN program.data
  /\ phase' = "running"
  /\ UNCHANGED <<program, pc, arrays, Memory, last, requests>>

-------------------------------------------------------------------------------
(* Requests of the running program.  An exception leaves the program where a   *)
(* .NET caller can go on with it. *)

Serve(r, thrown, value) ==
  /\ requests < MaxRequests
  /\ requests' = requests + 1
  /\ last' = Answer(r, thrown, value)
  /\ UNCHANGED <<program, pc>>
Throw(r) == Serve(r, TRUE, <<>>) /\ UNCHANGED <<arrays, Memory, phase>>

\* Overwriting: bytes past the end of the array belong to something else.
Write(array, at, s) ==
  /\ arrays' = [arrays EXCEPT ![array] = Overlaid(@, at, s)]
  /\ phase' = IF at + Len(s) <= Size(arrays[array]) THEN phase ELSE "undefined"

\* Ldsfld Memory, Ldloc heapaddr, Ldc_I8 offset, Add, Ldelema: the address is
\* extended as a signed number, and the index of the first byte is checked.
Index(address, offset) == address + offset
Checked(at) == at \in DOMAIN Current

\* Ldind: four bytes or fewer make an int32, whether read as I4 or as U4.
Int32On(s, signed) == Extended(s, 4, signed)
\* Conv_I8 extends its sign.
ConvI8(s) == Extended(s, 8, TRUE)
Loaded(op, s) ==
  LET l == Loads[op] IN
  IF l[2] = 4 \/ l[1] = 8 THEN Extended(s, l[2], l[3]) ELSE ConvI8(Int32On(s, l[3]))

\* What lies past the end is anything.
Load(op, address, offset) ==
  LET at == Index(address, offset)
      r == Request(op, address, offset, <<>>)
  IN IF Checked(at)
     THEN \E beyond \in IF at + Loads[op][1] <= Size(Current) THEN {0} ELSE Byte :
            /\ Serve(r, FALSE, Loaded(op, [i \in 1 .. Loads[op][1] |->
                 IF at + i - 1 \in DOMAIN Current THEN Current[at + i - 1] ELSE beyond]))
            /\ UNCHANGED <<arrays, Memory, phase>>
     ELSE Throw(r)

\* Stloc the value, Stloc the address, Ldelema, Ldloc the value, Stind.
Store(op, address, offset, v) ==
  LET at == Index(address, offset)
      r == Request(op, address, offset, SubSeq(v, 1, ValueBytes(op)))
  IN IF Checked(at)
     THEN /\ Serve(r, FALSE, <<>>)
          /\ Write(Memory, at, SubSeq(v, 1, Stores[op]))
          /\ UNCHANGED Memory
     ELSE Throw(r)

\* Ldlen, Ldc_I4 page_size, Div.
Pages == Size(Current) \div PageSize
MEMORY_SIZE ==
  /\ Serve(Request("MEMORY_SIZE", 0, 0, <<>>), FALSE, <<Pages>>)
  /\ UNCHANGED <<arrays, Memory, phase>>

\* The size of the new array: pages, Ldc_I4 page_size, Mul.
GrownSizeInPages(pages) == pages
GrownSize(pages) == pages * PageSize

\* Newarr, Ldelema 0 of the new and of the old array, CopyBlock of the old
\* length, Stsfld Memory.  Nothing is stored when one of them throws; a new
\* array shorter than the old one is overrun by the copy.
MEMORY_GROW(delta) ==
  LET r == Request("MEMORY_GROW", delta, 0, <<>>)
      pages == Pages + delta
      copied == [i \in 0 .. GrownSize(pages) - 1 |-> IF i \in DOMAIN Current THEN Current[i] ELSE 0]
  IN IF pages \in 1 .. MaxPages /\ Pages > 0
     THEN /\ Serve(r, FALSE, <<Pages>>)
          /\ NewMemory(copied)
          /\ phase' = IF delta >= 0 THEN phase ELSE "undefined"
     ELSE Throw(r)

\* Context.Memory reads the field again for every call.
FirstMemory == 1
ContextMemory == Memory

\* fd_read with one buffer, whose place and size are the caller's (the code takes
\* them from a list in the memory, and fills one buffer after the other): AsSpan
\* checks all of it, the stream fills it, and the number of bytes goes where its
\* first byte is inside the array.
fd_read(at, bytes, retPtrs) ==
  LET memory == arrays[ContextMemory]
      r == Request("fd_read", at, retPtrs, bytes)
      filled == Overlaid(memory, at, bytes)
  IN IF at < 0 \/ at + Len(bytes) > Size(memory) THEN Throw(r)
     ELSE /\ Serve(r, retPtrs \notin DOMAIN memory, <<>>)
          /\ UNCHANGED Memory
          /\ IF retPtrs \in DOMAIN memory
             THEN /\ arrays' = [arrays EXCEPT ![ContextMemory] = Overlaid(filled, retPtrs, Int32(Len(bytes)))]
                  /\ phase' = IF retPtrs + 4 <= Size(memory) THEN phase ELSE "undefined"
             ELSE arrays' = [arrays EXCEPT ![ContextMemory] = filled] /\ phase' = phase

-------------------------------------------------------------------------------
Run ==
  /\ phase = "running"
  /\ \/ \E a \in Addresses, o \in Offsets :
          \/ \E op \in DOMAIN Loads : Load(op, a, o)
          \/ \E op \in DOMAIN Stores, v \in Patterns : Store(op, a, o, v)
     \/ MEMORY_SIZE
     \/ \E d \in Deltas : MEMORY_GROW(d)
     \/ \E buffer \in Buffers, retPtrs \in Addresses : fd_read(buffer.at, buffer.bytes, retPtrs)

Next == Allocate \/ StoreElement \/ Return \/ Run

Spec == Init /\ [][Next]_vars

-------------------------------------------------------------------------------
(* Properties. *)

\* The program has the memory WasmMemory promises: what is stored, by its own
\* instructions or by a WASI call, is what is loaded later, across every
\* replacement of the array by MEMORY_GROW, and nothing else changes.
Promise == INSTANCE WasmMemory WITH
  memory <- IF phase \in {"running", "undefined"} THEN Current ELSE Zeros(0)
MemoryAsPromised == Promise!Spec

\* The data section is loaded "into the heap one byte at a time": the bytes of a
\* segment are in the memory when the static constructor returns, unless a
\* later segment covers them.
DataLoaded ==
  (phase = "running" /\ requests = 0) =>
    \A k \in DOMAIN program.data : \A i \in DOMAIN program.data[k].bytes :
      LET at == program.data[k].at + i - 1 IN
      \/ at \notin DOMAIN Current
      \/ Current[at] = program.data[k].bytes[i]
      \/ \E l \in DOMAIN program.data : l > k /\ at - program.data[l].at + 1 \in DOMAIN program.data[l].bytes
===============================================================================

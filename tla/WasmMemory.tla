------------------------------ MODULE WasmMemory -------------------------------
(* The memory a WebAssembly program is promised by its translation.  It is     *)
(* WebAssembly's, with these exceptions:                                       *)
(*   - a memory with a maximum may have its maximum from the start, and        *)
(*     growing is not bounded by it;                                           *)
(*   - a memory larger than MaxPages, at its start or at its maximum, may keep *)
(*     the program from starting;                                              *)
(*   - a zero in a data segment may leave what an earlier segment put there,   *)
(*     and one outside the memory may go unnoticed;                            *)
(*   - an I64_LOAD32_U may extend the sign;                                    *)
(*   - growing throws where WebAssembly would return -1, and for a memory      *)
(*     without pages; growing by 2^31 pages or more is not defined;            *)
(*   - an access that is out of bounds throws, unless it is Unguarded.         *)
EXTENDS MemoryAccess

VARIABLES program, \* the limits of the memory, and its data segments
          phase,   \* "starting", "running", "failed" or "undefined"
          memory,  \* the bytes, once running
          last     \* the last request and its answer

vars == <<program, phase, memory, last>>

Init == phase = "starting" /\ memory = Zeros(0) /\ last = Nothing

\* The value of the last segment at i, or of an earlier one where that is 0.
At(i) == {k \in DOMAIN program.data : i - program.data[k].at + 1 \in DOMAIN program.data[k].bytes}
ValueAt(k, i) == program.data[k].bytes[i - program.data[k].at + 1]
Initial(i) == IF At(i) = {} THEN {0}
              ELSE {ValueAt(k, i) : k \in {j \in At(i) : \A l \in At(i) : l > j => ValueAt(l, i) = 0}}
OnlyZerosOutside(n, seg) == \A i \in DOMAIN seg.bytes : seg.bytes[i] = 0 \/ seg.at + i - 1 \in 0 .. n - 1
FitsIn(n, seg) == seg.at >= 0 /\ seg.at + Len(seg.bytes) <= n

\* The sizes the memory may have at the start; type 1 declares a maximum.
Sizes == {program.min} \cup IF program.type = 1 THEN {program.max} ELSE {}

Instantiate ==
  /\ phase = "starting"
  /\ \E pages \in Sizes :
       LET n == pages * PageSize IN
       \/ /\ \A k \in DOMAIN program.data : FitsIn(n, program.data[k]) \/ OnlyZerosOutside(n, program.data[k])
          /\ phase' = "running"
          /\ DOMAIN memory' = 0 .. n - 1
          /\ \A i \in DOMAIN memory' : memory'[i] \in Initial(i)
       \/ /\ \E k \in DOMAIN program.data : ~FitsIn(n, program.data[k])
          /\ phase' = "failed" /\ memory' = memory
       \/ pages > MaxPages /\ phase' = "failed" /\ memory' = memory
  /\ UNCHANGED <<program, last>>

-------------------------------------------------------------------------------
r == last'.request
Returns(value) == last' = Answer(r, FALSE, value)
Throws == last' = Answer(r, TRUE, <<>>)
Undefined == phase' = "undefined"

Place == (IF r.address < 0 THEN r.address + AddressSpace ELSE r.address) + r.offset
Inside(at, n) == at >= 0 /\ at + n <= Size(memory)

\* Only the first byte of an access is checked, and an address of 2^31 or more
\* is taken as a negative number that the offset may make a place again.
Unguarded == (Place < Size(memory)) \/ (r.address < 0 /\ r.address + r.offset >= 0)

Values(op, at) == LET l == Loads[op]  s == BytesAt(memory, at, l[1]) IN
  {Extended(s, l[2], l[3])} \cup IF op = "I64_LOAD32_U" THEN {Extended(s, l[2], TRUE)} ELSE {}

Load ==
  /\ r.op \in DOMAIN Loads
  /\ IF Inside(Place, Loads[r.op][1])
     THEN last'.value \in Values(r.op, Place) /\ ~last'.thrown
     ELSE Throws \/ Unguarded
  /\ memory' = memory /\ phase' = phase

Store ==
  /\ r.op \in DOMAIN Stores
  /\ \/ /\ Inside(Place, Stores[r.op]) /\ Returns(<<>>)
        /\ memory' = Overlaid(memory, Place, SubSeq(r.bytes, 1, Stores[r.op])) /\ phase' = phase
     \/ ~Inside(Place, Stores[r.op]) /\ Throws /\ memory' = memory /\ phase' = phase
     \/ ~Inside(Place, Stores[r.op]) /\ Unguarded

MemorySize ==
  /\ r.op = "MEMORY_SIZE"
  /\ Returns(<<Size(memory) \div PageSize>>) /\ UNCHANGED <<memory, phase>>

MemoryGrow ==
  LET pages == Size(memory) \div PageSize IN
  /\ r.op = "MEMORY_GROW"
  /\ \/ /\ r.address >= 0
        /\ Returns(<<pages>>) /\ phase' = phase
        /\ memory' = [i \in 0 .. Size(memory) + r.address * PageSize - 1 |->
                        IF i \in DOMAIN memory THEN memory[i] ELSE 0]
     \/ /\ pages = 0 \/ r.address < 0 \/ pages + r.address > MaxPages
        /\ Throws /\ UNCHANGED <<memory, phase>>
     \/ r.address < 0 /\ Undefined

\* A host call that fills a buffer and then puts the number of bytes at offset.
HostRead ==
  LET filled == Overlaid(memory, r.address, r.bytes) IN
  /\ r.op = "fd_read"
  /\ \/ /\ ~Inside(r.address, Len(r.bytes))
        /\ Throws /\ UNCHANGED <<memory, phase>>
     \/ /\ Inside(r.address, Len(r.bytes)) /\ Inside(r.offset, 4)
        /\ Returns(<<>>) /\ phase' = phase
        /\ memory' = Overlaid(filled, r.offset, Int32(Len(r.bytes)))
     \/ /\ Inside(r.address, Len(r.bytes)) /\ ~Inside(r.offset, 4)
        /\ Throws /\ memory' = filled /\ phase' = phase
     \/ /\ Inside(r.address, Len(r.bytes)) /\ r.offset \in DOMAIN memory /\ ~Inside(r.offset, 4)
        /\ Undefined

Serve == phase = "running" /\ program' = program /\ (Load \/ Store \/ MemorySize \/ MemoryGrow \/ HostRead)

Next == Instantiate \/ Serve
Spec == Init /\ [][Next]_vars
===============================================================================

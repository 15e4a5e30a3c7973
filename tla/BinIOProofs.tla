------------------------------ MODULE BinIOProofs ------------------------------
(* Proofs about BinIO, for bytes and words of all widths, buffers of all sizes, *)
(* strings and streams of all lengths: what is written is read back.            *)
EXTENDS BinIO, TLAPS

-------------------------------------------------------------------------------
(* The inductive invariant. *)

\* A number as LEB128: chunk k has the bits from At(k) on, and behind the last
\* chunk are only repetitions, of the sign or of 0.
At(k) == ChunkBits * k
BitAt(kind, word, j) == (IF kind = "i64" /\ j >= WordBits THEN WordBits - 1 ELSE j) \in word
Chunk(kind, word, k) == {j \in 0 .. ChunkBits - 1 : BitAt(kind, word, j + At(k))}
Remaining(kind, word, k) == {j \in Bits : BitAt(kind, word, j + At(k))}
Low(word, k) == {j \in word : j < At(k)}
Fits(kind, word, n) ==
  \A j \in Bits : j >= At(n) => (j \in word <=> (kind = "i64" /\ BitAt(kind, word, At(n) - 1)))

Numbers == Lebs \cup {"strN"}  \* what begins with a number
WordIn(it) == IF it.kind = "strN" THEN WordOf[Len(it.value)] ELSE it.value

\* What the stream holds of an item; it may be cut.
Length(it) == it.text - it.start
NumberIn(it, bytes) ==
  /\ Length(it) \in 1 .. MaxChunks
  /\ Fits(it.kind, WordIn(it), Length(it))
  /\ \A k \in 0 .. Length(it) - 1 : it.start + k + 1 <= Len(bytes) =>
       bytes[it.start + k + 1] =
         Chunk(it.kind, WordIn(it), k) \cup (IF k + 1 < Length(it) THEN {More} ELSE {})
TextIn(it, bytes) ==
  \A k \in 1 .. Len(it.value) : it.text + k <= Len(bytes) => bytes[it.text + k] = it.value[k]
ItemIn(it, bytes) ==
  /\ it.kind \in Kinds /\ it.start \in Nat /\ it.text \in Nat /\ it.end \in Nat
  /\ it.start <= it.text /\ it.text <= it.end
  /\ it.value \in IF it.kind \in Lebs THEN Word ELSE Texts
  /\ it.kind \in Numbers => NumberIn(it, bytes)
  /\ it.kind \notin Numbers => it.text = it.start
  /\ it.kind \in Lebs => it.end = it.text
  /\ it.kind \notin Lebs => TextIn(it, bytes)
  /\ it.kind \in {"strN", "fixed", "magic"} => it.end = it.text + Len(it.value)
  /\ it.kind = "str0" => /\ it.end = it.text + Len(it.value) + 1
                         /\ it.end <= Len(bytes) => bytes[it.end] = {}
                         /\ \A k \in 1 .. Len(it.value) : it.value[k] # {}

\* The items follow each other.
Items == [kind : Kinds, value : Word \cup Texts, start : Nat, text : Nat, end : Nat]
EndOf(i) == IF i = 0 THEN 0 ELSE written[i].end
FileWritten ==
  /\ written \in Seq(Items)
  /\ \A i \in 1 .. Len(written) :
       /\ ItemIn(written[i], stream)
       /\ written[i].start = EndOf(i - 1)
       /\ written[i].kind = "magic" => i = 1
       /\ ~reading => written[i].end <= Len(stream)
  /\ ~reading /\ writing.kind = "none" => Len(stream) = EndOf(Len(written))

\* WriteLeb has written some chunks and has the rest of the word.
ChunksWritten(w, bytes) ==
  \A k \in 0 .. w.chunks - 1 : bytes[w.start + k + 1] = Chunk(w.kind, WordIn(w), k) \cup {More}
BeingWritten ==
  /\ writing.kind \in Numbers \cup {"none"}
  /\ writing = [kind |-> writing.kind, value |-> writing.value, rest |-> writing.rest,
                start |-> writing.start, chunks |-> writing.chunks]
  /\ writing.kind # "none" =>
       /\ ~reading
       /\ writing.chunks \in 0 .. MaxChunks - 1
       /\ writing.start = EndOf(Len(written)) /\ writing.start \in Nat
       /\ Len(stream) = writing.start + writing.chunks
       /\ writing.value \in IF writing.kind \in Lebs THEN Word ELSE Texts
       /\ writing.rest = Remaining(writing.kind, WordIn(writing), writing.chunks)
       /\ ChunksWritten(writing, stream)

\* The methods of BinReader, in the middle of an item.
AtNumber(it, bytes, at, locals) ==
  \E k \in 0 .. Length(it) - 1 :
    /\ at = Lesser(it.start + k, Len(bytes))
    /\ k > 0 => it.start + k <= Len(bytes)
    /\ locals.shift = At(k) /\ locals.value = Low(WordIn(it), k)
AtByte(it, bytes, at, buffer) ==
  /\ buffer.position <= Len(it.value)
  /\ at = Lesser(it.text + buffer.position, Len(bytes))
  /\ buffer.position > 0 => it.text + buffer.position <= Len(bytes)
  /\ \A k \in 1 .. buffer.position : buffer.bytes[k] = it.value[k]
AtSlice(it, bytes, at, buffer, locals) ==
  /\ buffer.position + locals.len = Len(it.value)
  /\ at = Lesser(it.text + buffer.position, Len(bytes))
  /\ Len(locals.buffer) = BufferSize
  /\ \A k \in 1 .. buffer.position :
       it.text + k <= Len(bytes) => buffer.bytes[k] = it.value[k]

InMethod(it, bytes, at, buffer, locals) ==
  /\ locals.name \in Lebs => it.kind = locals.name /\ AtNumber(it, bytes, at, locals)
  /\ locals.name = "length" => it.kind = "strN" /\ buffer.position = 0 /\ AtNumber(it, bytes, at, locals)
  /\ locals.name = "str0" => it.kind = "str0" /\ AtByte(it, bytes, at, buffer)
  /\ locals.name = "text" => it.kind \in {"strN", "magic"} /\ AtSlice(it, bytes, at, buffer, locals)

BeingRead ==
  /\ method.name = "none" => position = Lesser(EndOf(Len(got)), Len(stream))
  /\ method.name = "none" /\ got = <<>> => membuffer.position = 0
  /\ method.name # "none" => /\ reading /\ Len(got) < Len(written)
                             /\ InMethod(Due, stream, position, membuffer, method)

\* What was read before.
BeenRead ==
  /\ got \in Seq(Word \cup Seq(Byte)) /\ Len(got) <= Len(written)
  /\ ~reading => got = <<>> /\ method.name = "none"
  /\ ReadBack /\ CutNoticed

IInv == TypeOK /\ FileWritten /\ BeingWritten /\ BeingRead /\ BeenRead

-------------------------------------------------------------------------------
(* Where the chunks are. *)

LEMMA AtFacts ==
  ASSUME NEW k \in Nat
  PROVE  /\ At(k) \in Nat /\ At(k + 1) = At(k) + ChunkBits /\ At(0) = 0
         /\ k >= 1 => At(k) >= ChunkBits
<1>1. ChunkBits \in Nat /\ ChunkBits >= 1
  BY WidthsAssumption
<1>2. At(k) \in Nat /\ At(k + 1) = At(k) + ChunkBits /\ At(0) = 0
  BY <1>1 DEF At
<1>3. ASSUME k >= 1
      PROVE  At(k) >= ChunkBits
  <2>1. PICK j \in Nat : k = j + 1
    BY <1>3
  <2>2. At(k) = At(j) + ChunkBits /\ At(j) \in Nat
    BY <1>1, <2>1 DEF At
  <2> QED BY <1>1, <2>2
<1> QED BY <1>2, <1>3

LEMMA AtGrows ==
  ASSUME NEW j \in Nat, NEW k \in Nat, j < k
  PROVE  At(j) + ChunkBits <= At(k)
<1>1. PICK d \in Nat : k = (j + 1) + d
  <2>1. k - (j + 1) \in Nat /\ k = (j + 1) + (k - (j + 1))
    OBVIOUS
  <2> QED BY <2>1
<1>2. ChunkBits \in Nat
  BY WidthsAssumption
<1>3. At(k) = At(j + 1) + At(d)
  BY <1>1, <1>2 DEF At
<1>4. At(j + 1) = At(j) + ChunkBits /\ At(j) \in Nat /\ At(d) \in Nat
  BY AtFacts
<1> QED BY <1>2, <1>3, <1>4

LEMMA MaxChunksFacts ==
  /\ MaxChunks \in Nat /\ MaxChunks >= 1
  /\ At(MaxChunks) >= WordBits
  /\ \A k \in Nat : k < MaxChunks => At(k) < WordBits
<1> DEFINE c == ChunkBits  w == WordBits  q == (w + c - 1) \div c
<1>1. c \in Nat /\ c >= 1 /\ w \in Nat /\ w > c
  BY WidthsAssumption
<1> HIDE DEF c, w
<1>2. q \in Nat /\ c * q <= w + c - 1 /\ w + c - 1 < c * q + c
  BY <1>1, Z3
<1>3. q >= 1
  <2>1. CASE q = 0
    BY <1>1, <1>2, <2>1
  <2> QED BY <1>2, <2>1
<1>4. MaxChunks = q /\ At(q) = c * q
  BY DEF MaxChunks, At, c, w
<1>5. MaxChunks \in Nat /\ MaxChunks >= 1 /\ At(MaxChunks) >= WordBits
  <2>1. c * q \in Nat
    BY <1>1, <1>2
  <2>2. c * q >= w
    <3> DEFINE x == c * q
    <3> HIDE DEF x
    <3>1. x >= w
      BY <1>1, <1>2, <2>1 DEF x
    <3> QED BY <3>1 DEF x
  <2> QED BY <1>2, <1>3, <1>4, <2>2 DEF w
<1>6. ASSUME NEW k \in Nat, k < MaxChunks
      PROVE  At(k) < WordBits
  <2>1. At(k) + ChunkBits <= At(MaxChunks) /\ At(k) \in Nat
    BY <1>5, <1>6, AtGrows, AtFacts
  <2>2. At(MaxChunks) <= WordBits + ChunkBits - 1 /\ At(MaxChunks) \in Nat
    BY <1>2, <1>4, <1>5, AtFacts DEF c, w
  <2> QED BY <1>1, <2>1, <2>2 DEF c, w
<1> QED BY <1>5, <1>6

-------------------------------------------------------------------------------
(* Bits. *)

LEMMA Widths ==
  /\ ChunkBits \in Nat /\ ChunkBits >= 1 /\ WordBits \in Nat /\ WordBits > ChunkBits
  /\ More = ChunkBits /\ Bits = 0 .. WordBits - 1
BY WidthsAssumption DEF More, Bits

\* The word that is to be written is what remains at first, and every step of the
\* loop leaves what remains after one chunk more.
LEMMA RemainingAtFirst ==
  ASSUME NEW kind, NEW word \in Word
  PROVE  Remaining(kind, word, 0) = word
<1>1. At(0) = 0
  BY AtFacts
<1>2. ASSUME NEW j \in Bits
      PROVE  BitAt(kind, word, j + At(0)) <=> j \in word
  BY <1>1, Widths DEF BitAt
<1> QED BY <1>2 DEF Remaining, Word

LEMMA RemainingIsWord ==
  ASSUME NEW kind, NEW word, NEW k
  PROVE  Remaining(kind, word, k) \in Word
BY DEF Remaining, Word

LEMMA ChunkIs ==
  ASSUME NEW kind, NEW word, NEW k
  PROVE  /\ Chunk(kind, word, k) \in Byte
         /\ Chunk(kind, word, k) \cup {More} \in Byte
         /\ Payload(Chunk(kind, word, k)) = Chunk(kind, word, k)
         /\ Payload(Chunk(kind, word, k) \cup {More}) = Chunk(kind, word, k)
         /\ More \notin Chunk(kind, word, k)
BY Widths DEF Chunk, Byte, Payload

LEMMA PayloadIs ==
  ASSUME NEW kind, NEW word, NEW k \in Nat
  PROVE  Payload(Remaining(kind, word, k)) = Chunk(kind, word, k)
<1>1. ASSUME NEW j \in 0 .. ChunkBits - 1
      PROVE  j \in Bits
  BY Widths
<1> QED BY <1>1 DEF Payload, Remaining, Chunk

LEMMA ShrUIs ==
  ASSUME NEW kind, kind # "i64", NEW word \in Word, NEW k \in Nat
  PROVE  ShrU(Remaining(kind, word, k)) = Remaining(kind, word, k + 1)
<1>1. At(k) \in Nat /\ At(k + 1) = At(k) + ChunkBits
  BY AtFacts
<1>2. ASSUME NEW j \in Bits
      PROVE  j + ChunkBits \in Remaining(kind, word, k) <=> BitAt(kind, word, j + At(k + 1))
  <2>1. j + ChunkBits + At(k) = j + At(k + 1)
    BY <1>1, Widths
  <2>2. CASE j + ChunkBits \in Bits
    BY <2>1, <2>2 DEF Remaining
  <2>3. CASE j + ChunkBits \notin Bits
    <3>1. j + At(k + 1) \notin Bits
      BY <1>1, <2>3, Widths
    <3> QED BY <2>3, <3>1 DEF Remaining, BitAt, Word
  <2> QED BY <2>2, <2>3
<1> QED BY <1>2 DEF ShrU, Remaining

LEMMA ShrIIs ==
  ASSUME NEW word \in Word, NEW k \in Nat
  PROVE  ShrI(Remaining("i64", word, k)) = Remaining("i64", word, k + 1)
<1>1. At(k) \in Nat /\ At(k + 1) = At(k) + ChunkBits /\ At(0) = 0 /\ (k >= 1 => At(k) >= ChunkBits)
  BY AtFacts
<1>2. ASSUME NEW j \in Bits
      PROVE  (IF j + ChunkBits < WordBits THEN j + ChunkBits ELSE WordBits - 1) \in Remaining("i64", word, k)
               <=> BitAt("i64", word, j + At(k + 1))
  <2>1. CASE j + ChunkBits < WordBits
    <3>1. j + ChunkBits + At(k) = j + At(k + 1) /\ j + ChunkBits \in Bits
      BY <1>1, <2>1, Widths
    <3> QED BY <2>1, <3>1 DEF Remaining
  <2>2. CASE ~(j + ChunkBits < WordBits)
    <3>1. WordBits - 1 \in Bits /\ j + At(k + 1) >= WordBits
      BY <1>1, <2>2, Widths
    <3>2. WordBits - 1 \in Remaining("i64", word, k) <=> BitAt("i64", word, WordBits - 1 + At(k))
      BY <3>1 DEF Remaining
    <3>3. CASE k = 0
      BY <1>1, <2>2, <3>1, <3>2, <3>3, Widths DEF BitAt
    <3>4. CASE k >= 1
      <4>1. WordBits - 1 + At(k) >= WordBits
        BY <1>1, <3>4, Widths
      <4> QED BY <2>2, <3>1, <3>2, <4>1 DEF BitAt
    <3> QED BY <3>3, <3>4
  <2> QED BY <2>1, <2>2
<1> QED BY <1>2 DEF ShrI, Remaining

\* When the loop may stop the chunks say all of the word, and it may at MaxChunks.
EndsU(rest) == ShrU(rest) = {}
EndsI(rest) == ShrI(rest) = (IF SignBit(rest) THEN Bits ELSE {})

LEMMA FitsU ==
  ASSUME NEW kind, kind # "i64", NEW word \in Word, NEW k \in Nat, EndsU(Remaining(kind, word, k))
  PROVE  Fits(kind, word, k + 1)
<1>1. Remaining(kind, word, k + 1) = {}
  BY ShrUIs DEF EndsU
<1>2. ASSUME NEW j \in Bits, j >= At(k + 1)
      PROVE  j \notin word
  <2>1. At(k + 1) \in Nat
    BY AtFacts
  <2>2. j - At(k + 1) \in Bits /\ (j - At(k + 1)) + At(k + 1) = j
    BY <1>2, <2>1, Widths
  <2>3. ~BitAt(kind, word, j)
    BY <1>1, <2>2 DEF Remaining
  <2> QED BY <2>3 DEF BitAt
<1> QED BY <1>2 DEF Fits

LEMMA SignIs ==
  ASSUME NEW word \in Word, NEW k \in Nat
  PROVE  /\ SignBit(Remaining("i64", word, k)) <=> BitAt("i64", word, At(k + 1) - 1)
         /\ SignBit(Chunk("i64", word, k)) <=> BitAt("i64", word, At(k + 1) - 1)
<1>1. At(k) \in Nat /\ At(k + 1) = At(k) + ChunkBits
  BY AtFacts
<1>2. ChunkBits - 1 \in Bits /\ ChunkBits - 1 \in 0 .. ChunkBits - 1 /\ ChunkBits - 1 + At(k) = At(k + 1) - 1
  BY <1>1, Widths
<1> QED BY <1>2 DEF SignBit, Remaining, Chunk

LEMMA FitsI ==
  ASSUME NEW word \in Word, NEW k \in Nat, EndsI(Remaining("i64", word, k))
  PROVE  Fits("i64", word, k + 1)
<1>1. Remaining("i64", word, k + 1) = IF BitAt("i64", word, At(k + 1) - 1) THEN Bits ELSE {}
  BY ShrIIs, SignIs DEF EndsI
<1>2. ASSUME NEW j \in Bits, j >= At(k + 1)
      PROVE  j \in word <=> BitAt("i64", word, At(k + 1) - 1)
  <2>1. At(k + 1) \in Nat
    BY AtFacts
  <2>2. j - At(k + 1) \in Bits /\ (j - At(k + 1)) + At(k + 1) = j
    BY <1>2, <2>1, Widths
  <2>3. j - At(k + 1) \in Remaining("i64", word, k + 1) <=> BitAt("i64", word, j)
    BY <2>2 DEF Remaining
  <2>4. BitAt("i64", word, j) <=> j \in word
    BY Widths DEF BitAt
  <2> QED BY <1>1, <2>2, <2>3, <2>4
<1> QED BY <1>2 DEF Fits

LEMMA EndsInTime ==
  ASSUME NEW kind, NEW word \in Word, NEW k \in Nat, k + 1 = MaxChunks
  PROVE  /\ kind # "i64" => EndsU(Remaining(kind, word, k))
         /\ kind = "i64" => EndsI(Remaining(kind, word, k))
<1>1. At(k + 1) >= WordBits /\ At(k + 1) \in Nat
  BY MaxChunksFacts, AtFacts
<1>2. ASSUME kind # "i64"
      PROVE  EndsU(Remaining(kind, word, k))
  <2>1. ASSUME NEW j \in Bits
        PROVE  ~BitAt(kind, word, j + At(k + 1))
    <3>1. j + At(k + 1) \notin Bits
      BY <1>1, Widths
    <3> QED BY <1>2, <3>1 DEF BitAt, Word
  <2>2. Remaining(kind, word, k + 1) = {}
    BY <2>1 DEF Remaining
  <2> QED BY <1>2, <2>2, ShrUIs DEF EndsU
<1>3. EndsI(Remaining("i64", word, k))
  <2>1. ASSUME NEW j \in Bits
        PROVE  BitAt("i64", word, j + At(k + 1)) <=> WordBits - 1 \in word
    <3>1. j + At(k + 1) >= WordBits
      BY <1>1, Widths
    <3> QED BY <3>1 DEF BitAt
  <2>2. BitAt("i64", word, At(k + 1) - 1) <=> WordBits - 1 \in word
    BY <1>1, Widths DEF BitAt
  <2>3. Remaining("i64", word, k + 1) = IF BitAt("i64", word, At(k + 1) - 1) THEN Bits ELSE {}
    BY <2>1, <2>2 DEF Remaining
  <2> QED BY <2>3, ShrIIs, SignIs DEF EndsI
<1> QED BY <1>2, <1>3

\* The reader puts chunk k over the bits below it, and has the bits below the next.
LEMMA ShiftIs ==
  ASSUME NEW x, NEW k \in Nat, k < MaxChunks
  PROVE  Shl(x, At(k)) = {j \in Bits : j - At(k) \in x}
<1> DEFINE n == At(k)
<1>1. n \in Nat /\ n < WordBits
  BY AtFacts, MaxChunksFacts
<1> HIDE DEF n
<1>2. n % WordBits = n
  BY <1>1, Widths
<1> QED BY <1>2 DEF Shl, n

LEMMA GatheredIs ==
  ASSUME NEW kind, NEW word \in Word, NEW k \in Nat, k < MaxChunks
  PROVE  Low(word, k) \cup Shl(Chunk(kind, word, k), At(k)) = Low(word, k + 1)
<1>1. At(k) \in Nat /\ At(k + 1) = At(k) + ChunkBits
  BY AtFacts
<1>2. Shl(Chunk(kind, word, k), At(k)) = {j \in Bits : j - At(k) \in Chunk(kind, word, k)}
  BY ShiftIs
<1>3. ASSUME NEW j \in Bits
      PROVE  j - At(k) \in Chunk(kind, word, k) <=> (j \in word /\ At(k) <= j /\ j < At(k + 1))
  <2>1. j - At(k) \in 0 .. ChunkBits - 1 <=> At(k) <= j /\ j < At(k + 1)
    BY <1>1, Widths
  <2>2. (j - At(k)) + At(k) = j
    BY <1>1, Widths
  <2>3. BitAt(kind, word, j) <=> j \in word
    BY Widths DEF BitAt
  <2> QED BY <2>1, <2>2, <2>3 DEF Chunk
<1>4. ASSUME NEW j
      PROVE  j \in Low(word, k) \cup Shl(Chunk(kind, word, k), At(k)) <=> j \in Low(word, k + 1)
  <2>1. CASE j \in Bits
    <3>1. j < At(k + 1) <=> (j < At(k) \/ (At(k) <= j /\ j < At(k + 1)))
      BY <1>1, <2>1, Widths
    <3> QED BY <1>2, <1>3, <2>1, <3>1 DEF Low
  <2>2. CASE j \notin Bits
    BY <1>2, <2>2 DEF Low, Word
  <2> QED BY <2>1, <2>2
<1> QED BY <1>4

LEMMA LowIsWord ==
  ASSUME NEW word \in Word, NEW k \in Nat
  PROVE  Low(word, k) \in Word /\ Low(word, 0) = {}
<1>1. ASSUME NEW j \in word
      PROVE  ~(j < At(0))
  BY AtFacts, Widths DEF Word
<1> QED BY <1>1 DEF Low, Word

\* Behind the last chunk there is nothing more to read.
LEMMA WholeU ==
  ASSUME NEW kind, kind # "i64", NEW word \in Word, NEW n \in Nat, Fits(kind, word, n)
  PROVE  Low(word, n) = word
<1>1. At(n) \in Nat
  BY AtFacts
<1>2. ASSUME NEW j \in word
      PROVE  j < At(n)
  <2>1. j \in Bits
    BY DEF Word
  <2>2. ~(j >= At(n))
    BY <2>1 DEF Fits
  <2> QED BY <1>1, <2>1, <2>2, Widths
<1> QED BY <1>2 DEF Low

LEMMA WholeI ==
  ASSUME NEW word \in Word, NEW k \in Nat, k < MaxChunks, Fits("i64", word, k + 1)
  PROVE  Extended(Low(word, k + 1), At(k + 1), Chunk("i64", word, k)) = word
<1>1. At(k + 1) \in Nat
  BY AtFacts
<1>2. SignBit(Chunk("i64", word, k)) <=> BitAt("i64", word, At(k + 1) - 1)
  BY SignIs
<1>3. ASSUME NEW j
      PROVE  j \in word <=> \/ j \in Low(word, k + 1)
                            \/ j \in Bits /\ j >= At(k + 1) /\ SignBit(Chunk("i64", word, k))
  <2>1. CASE j \in Bits
    <3>1. j < At(k + 1) <=> ~(j >= At(k + 1))
      BY <1>1, <2>1, Widths
    <3> QED BY <1>2, <2>1, <3>1 DEF Low, Fits
  <2>2. CASE j \notin Bits
    BY <2>2 DEF Low, Word
  <2> QED BY <2>1, <2>2
<1>4. CASE At(k + 1) < WordBits
  <2> DEFINE n == At(k + 1)
  <2>1. n \in Nat /\ n < WordBits
    BY <1>1, <1>4
  <2> HIDE DEF n
  <2>2. n % WordBits = n
    BY <2>1, Widths
  <2>3. Shl(Bits, n) = {j \in Bits : j - n \in Bits}
    BY <2>2 DEF Shl
  <2>4. ASSUME NEW j \in Bits
        PROVE  j - n \in Bits <=> j >= n
    BY <2>1, Widths
  <2>5. Shl(Bits, n) = {j \in Bits : j >= n}
    BY <2>3, <2>4
  <2>6. Extended(Low(word, k + 1), n, Chunk("i64", word, k))
          = IF SignBit(Chunk("i64", word, k)) THEN Low(word, k + 1) \cup Shl(Bits, n) ELSE Low(word, k + 1)
    BY <2>1 DEF Extended
  <2> QED BY <1>3, <2>5, <2>6 DEF n
<1>5. CASE ~(At(k + 1) < WordBits)
  <2>1. ASSUME NEW j \in Bits
        PROVE  ~(j >= At(k + 1))
    BY <1>1, <1>5, Widths
  <2>2. Low(word, k + 1) = word
    BY <1>3, <2>1
  <2> QED BY <1>5, <2>2 DEF Extended
<1> QED BY <1>4, <1>5

LEMMA ExtendedIsWord ==
  ASSUME NEW value \in Word, NEW shift, NEW chunk
  PROVE  Extended(value, shift, chunk) \in Word
BY DEF Extended, Shl, Word

LEMMA ShlIsWord ==
  ASSUME NEW x, NEW count
  PROVE  Shl(x, count) \in Word
BY DEF Shl, Word

\* Lengths are words and can be told apart.
LEMMA LengthIs ==
  ASSUME NEW n \in 0 .. MaxText
  PROVE  WordOf[n] \in Word /\ LengthOf(WordOf[n]) = n
BY LengthsAssumption DEF LengthOf

-------------------------------------------------------------------------------
(* Writing. *)

LEMMA TextIs ==
  ASSUME NEW s \in Texts
  PROVE  s \in Seq(Byte) /\ Len(s) \in 0 .. MaxText /\ Len(s) \in Nat /\ DOMAIN s = 1 .. Len(s)
<1>1. PICK n \in 0 .. MaxText : s \in [1 .. n -> Chars]
  BY DEF Texts
<1>2. n \in Nat /\ Chars \subseteq Byte
  BY TextAssumption
<1>3. s \in Seq(Byte) /\ Len(s) = n
  BY <1>1, <1>2
<1> QED BY <1>1, <1>2, <1>3

LEMMA WordInIs ==
  ASSUME NEW it, it.kind \in Numbers, it.value \in IF it.kind \in Lebs THEN Word ELSE Texts
  PROVE  WordIn(it) \in Word
<1>1. CASE it.kind = "strN"
  <2>1. it.value \in Texts
    BY <1>1 DEF Lebs
  <2> QED BY <1>1, <2>1, TextIs, LengthIs DEF WordIn
<1>2. CASE it.kind # "strN"
  BY <1>2 DEF WordIn, Numbers
<1> QED BY <1>1, <1>2

\* What is in the stream stays there when more is written.
Extends(s, t) == Len(s) <= Len(t) /\ \A k \in 1 .. Len(s) : t[k] = s[k]

LEMMA ItemKept ==
  ASSUME NEW it, NEW s \in Seq(Byte), NEW t \in Seq(Byte), Extends(s, t),
         ItemIn(it, s), it.end <= Len(s)
  PROVE  ItemIn(it, t)
<1>1. it.start \in Nat /\ it.text \in Nat /\ it.end \in Nat /\ it.start <= it.text /\ it.text <= it.end
  BY DEF ItemIn
<1>2. ASSUME it.kind \in Numbers
      PROVE  NumberIn(it, t)
  <2>1. NumberIn(it, s)
    BY <1>2 DEF ItemIn
  <2>2. ASSUME NEW k \in 0 .. Length(it) - 1
        PROVE  it.start + k + 1 \in 1 .. Len(s)
    BY <1>1 DEF Length
  <2> QED BY <2>1, <2>2 DEF NumberIn, Extends
<1>3. ASSUME it.kind \notin Lebs
      PROVE  TextIn(it, t)
  <2>1. TextIn(it, s) /\ it.value \in Texts
    BY <1>3 DEF ItemIn
  <2>2. it.end >= it.text + Len(it.value)
    BY <1>1, <1>3, <2>1, TextIs DEF ItemIn, Kinds
  <2>3. ASSUME NEW k \in 1 .. Len(it.value)
        PROVE  it.text + k \in 1 .. Len(s)
    BY <1>1, <2>1, <2>2, TextIs
  <2> QED BY <2>1, <2>3 DEF TextIn, Extends
<1>4. ASSUME it.kind = "str0"
      PROVE  it.end <= Len(t) => t[it.end] = {}
  <2>1. it.end = it.text + Len(it.value) + 1 /\ it.value \in Texts
    BY <1>4 DEF ItemIn, Lebs
  <2>2. it.end \in 1 .. Len(s)
    BY <1>1, <2>1, TextIs
  <2> QED BY <1>4, <2>2 DEF ItemIn, Extends
<1> QED BY <1>2, <1>3, <1>4 DEF ItemIn

LEMMA ConcatExtends ==
  ASSUME NEW s \in Seq(Byte), NEW t \in Seq(Byte)
  PROVE  /\ s \o t \in Seq(Byte) /\ Len(s \o t) = Len(s) + Len(t) /\ Extends(s, s \o t)
         /\ \A k \in 1 .. Len(t) : (s \o t)[Len(s) + k] = t[k]
BY DEF Extends

LEMMA AppendExtends ==
  ASSUME NEW s \in Seq(Byte), NEW x \in Byte
  PROVE  /\ Append(s, x) \in Seq(Byte) /\ Len(Append(s, x)) = Len(s) + 1 /\ Extends(s, Append(s, x))
         /\ Append(s, x)[Len(s) + 1] = x
BY DEF Extends

\* While the file is written the reader waits.
LEMMA ReaderWaits ==
  ASSUME IInv, ~reading, ~reading', reading' \in BOOLEAN, UNCHANGED Reader, stream' \in Seq(Byte),
         written' \in Seq(Items)
  PROVE  TypeOK' /\ BeingRead' /\ BeenRead'
<1>1. got = <<>> /\ got' = <<>> /\ method.name = "none" /\ method' = method /\ membuffer' = membuffer
  BY DEF IInv, BeenRead, Reader
<1>2. position = 0 /\ position' = 0
  <2>1. position = Lesser(EndOf(0), Len(stream)) /\ Len(stream) \in Nat
    BY <1>1 DEF IInv, BeingRead, TypeOK
  <2> QED BY <2>1 DEF Lesser, EndOf, Reader
<1>3. TypeOK'
  BY <1>1, <1>2 DEF IInv, TypeOK, Reader
<1>4. BeingRead'
  <2>1. (position = Lesser(EndOf(Len(got)), Len(stream)))'
    BY <1>1, <1>2 DEF Lesser, EndOf
  <2> QED BY <1>1, <2>1 DEF IInv, BeingRead
<1>5. BeenRead'
  BY <1>1 DEF IInv, BeenRead, ReadBack, CutNoticed
<1> QED BY <1>3, <1>4, <1>5

LEMMA ItemAppended ==
  ASSUME IInv, ~reading, ~reading', stream' \in Seq(Byte), Extends(stream, stream'),
         NEW it \in Items, ItemIn(it, stream'), it.start = EndOf(Len(written)), it.end = Len(stream'),
         it.kind = "magic" => written = <<>>,
         written' = Append(written, it)
  PROVE  FileWritten' /\ written' \in Seq(Items)
<1>1. stream \in Seq(Byte) /\ written \in Seq(Items)
  BY DEF IInv, TypeOK, FileWritten
<1> DEFINE n == Len(written)
<1>2. n \in Nat /\ Len(written') = n + 1 /\ written'[n + 1] = it /\ written' \in Seq(Items)
      /\ \A i \in 1 .. n : written'[i] = written[i]
  BY <1>1
<1>3. ASSUME NEW i \in 1 .. Len(written')
      PROVE  /\ ItemIn(written'[i], stream')
             /\ written'[i].start = EndOf(i - 1)'
             /\ written'[i].kind = "magic" => i = 1
             /\ written'[i].end <= Len(stream')
  <2>1. CASE i \in 1 .. n
    <3>1. ItemIn(written[i], stream) /\ written[i].end <= Len(stream) /\ written'[i] = written[i]
          /\ written[i].start = EndOf(i - 1) /\ (written[i].kind = "magic" => i = 1)
      BY <1>2, <2>1 DEF IInv, FileWritten
    <3>2. ItemIn(written'[i], stream')
      BY <1>1, <3>1, ItemKept
    <3>3. EndOf(i - 1)' = EndOf(i - 1)
      BY <1>2, <2>1 DEF EndOf
    <3>4. written[i].end \in Nat
      BY <3>1 DEF ItemIn
    <3> QED BY <1>1, <3>1, <3>2, <3>3, <3>4 DEF Extends
  <2>2. CASE i = n + 1
    <3>1. EndOf(i - 1)' = EndOf(n)
      BY <1>2, <2>2 DEF EndOf
    <3>2. written = <<>> => i = 1
      BY <1>1, <2>2
    <3> QED BY <1>2, <2>2, <3>1, <3>2
  <2> QED BY <1>2, <2>1, <2>2
<1>4. Len(stream') = EndOf(Len(written))'
  BY <1>2 DEF EndOf
<1> QED BY <1>2, <1>3, <1>4 DEF FileWritten

LEMMA Start == Init => IInv
<1> SUFFICES ASSUME Init
             PROVE  IInv
  OBVIOUS
<1>1. TypeOK
  <2>1. NoMethod \in [name : Lebs \cup {"none", "length", "str0", "text"}, value : Word, shift : Nat,
                    len : Nat, buffer : Seq(Byte)]
    BY DEF NoMethod, Starts, Locals, Word
  <2>2. membuffer \in [bytes : Seq(Byte), position : Nat] /\ membuffer.position <= Len(membuffer.bytes)
    BY DEF Init
  <2>3. stream \in Seq(Byte) /\ position \in 0 .. Len(stream) /\ DOMAIN got = {}
    BY DEF Init
  <2>4. failed \in BOOLEAN /\ reading \in BOOLEAN /\ method = NoMethod
    BY DEF Init
  <2> QED BY <2>1, <2>2, <2>3, <2>4 DEF TypeOK
<1>2. FileWritten
  BY DEF Init, FileWritten, EndOf
<1>3. BeingWritten
  BY DEF Init, BeingWritten, NotWriting
<1>4. BeingRead
  BY DEF Init, BeingRead, EndOf, Lesser, NoMethod, Starts, Locals
<1>5. BeenRead
  BY DEF Init, BeenRead, ReadBack, CutNoticed, NoMethod, Starts, Locals
<1> QED BY <1>1, <1>2, <1>3, <1>4, <1>5 DEF IInv

LEMMA WriteKeeps ==
  ASSUME IInv, NEW kind \in {"fixed", "magic", "str0"}, NEW value \in Texts, NEW bytes,
         kind \in {"fixed", "magic"} => bytes = value,
         kind = "str0" => bytes = value \o <<{}>> /\ \A k \in DOMAIN value : value[k] # {},
         kind = "magic" => written = <<>>,
         Write(kind, value, bytes)
  PROVE  IInv'
<1>1. stream \in Seq(Byte) /\ written \in Seq(Items) /\ Len(stream) = EndOf(Len(written)) /\ Len(stream) \in Nat
      /\ ~reading /\ ~reading' /\ reading' \in BOOLEAN
  BY DEF IInv, TypeOK, FileWritten, Write, CanWrite
<1>2. value \in Seq(Byte) /\ Len(value) \in Nat /\ DOMAIN value = 1 .. Len(value)
  BY TextIs
<1>3. bytes \in Seq(Byte) /\ Len(bytes) = (IF kind = "str0" THEN Len(value) + 1 ELSE Len(value))
      /\ (\A k \in 1 .. Len(value) : bytes[k] = value[k])
      /\ (kind = "str0" => bytes[Len(value) + 1] = {})
  <2>1. PICK zero \in Byte : zero = {}
    BY DEF Byte
  <2>2. CASE kind = "str0"
    <3>1. <<zero>> \in Seq(Byte) /\ Len(<<zero>>) = 1 /\ <<zero>>[1] = zero
      BY <2>1
    <3>2. bytes = value \o <<zero>>
      BY <2>1, <2>2
    <3>3. /\ bytes \in Seq(Byte) /\ Len(bytes) = Len(value) + 1 /\ Extends(value, bytes)
          /\ \A k \in 1 .. 1 : bytes[Len(value) + k] = <<zero>>[k]
      BY <1>2, <3>1, <3>2, ConcatExtends
    <3>4. bytes[Len(value) + 1] = zero
      BY <3>1, <3>3
    <3> QED BY <2>1, <2>2, <3>3, <3>4 DEF Extends
  <2>3. CASE kind # "str0"
    BY <1>2, <2>3
  <2> QED BY <2>2, <2>3
<1>4. /\ stream' \in Seq(Byte) /\ Extends(stream, stream') /\ Len(stream') = Len(stream) + Len(bytes)
      /\ \A k \in 1 .. Len(bytes) : stream'[Len(stream) + k] = bytes[k]
  BY <1>1, <1>3, ConcatExtends DEF Write
<1>5. PICK it : it = Item(kind, value, Len(stream), Len(stream), Len(stream) + Len(bytes))
  OBVIOUS
<1>6. it.kind = kind /\ it.value = value /\ it.start = Len(stream) /\ it.text = Len(stream)
      /\ it.end = Len(stream) + Len(bytes) /\ it \in Items
  <2>1. kind \in Kinds /\ value \in Word \cup Texts
    BY <1>1, <1>3 DEF Kinds
  <2>2. Len(stream) \in Nat /\ Len(stream) + Len(bytes) \in Nat
    BY <1>1, <1>3
  <2> QED BY <1>5, <2>1, <2>2 DEF Item, Items
<1>7. ItemIn(it, stream')
  <2>1. TextIn(it, stream')
    <3>1. ASSUME NEW k \in 1 .. Len(value)
          PROVE  stream'[Len(stream) + k] = value[k]
      <4>1. k \in 1 .. Len(bytes)
        BY <1>2, <1>3
      <4> QED BY <1>3, <1>4, <4>1
    <3> QED BY <1>6, <3>1 DEF TextIn
  <2>2. kind \notin Numbers /\ kind \notin Lebs /\ kind \in Kinds
    BY DEF Numbers, Lebs, Kinds
  <2>3. kind = "str0" => stream'[it.end] = {} /\ it.end = it.text + Len(it.value) + 1
    <3>1. ASSUME kind = "str0"
          PROVE  Len(bytes) \in 1 .. Len(bytes) /\ bytes[Len(bytes)] = {}
      BY <1>2, <1>3, <3>1
    <3> QED BY <1>1, <1>2, <1>3, <1>4, <1>6, <3>1
  <2>4. it.end = it.text + Len(it.value) \/ kind = "str0"
    BY <1>3, <1>6
  <2>5. \A k \in 1 .. Len(it.value) : kind = "str0" => it.value[k] # {}
    BY <1>2, <1>6
  <2>6. it.start \in Nat /\ it.text \in Nat /\ it.end \in Nat /\ it.start <= it.text /\ it.text <= it.end
    BY <1>1, <1>3, <1>2, <1>6
  <2> QED BY <1>6, <2>1, <2>2, <2>3, <2>4, <2>5, <2>6 DEF ItemIn
<1>8. written' = Append(written, it)
  BY <1>5 DEF Write
<1>9. FileWritten' /\ written' \in Seq(Items)
  BY <1>1, <1>4, <1>6, <1>7, <1>8, ItemAppended
<1>10. BeingWritten'
  <2>1. writing.kind = "none" /\ writing' = writing
    BY DEF Write, CanWrite
  <2> QED BY <2>1 DEF IInv, BeingWritten
<1>11. TypeOK' /\ BeingRead' /\ BeenRead'
  BY <1>1, <1>4, <1>9, ReaderWaits DEF Write
<1> QED BY <1>9, <1>10, <1>11 DEF IInv

LEMMA WriteLebKeeps ==
  ASSUME IInv, NEW kind \in Numbers, NEW value, NEW word \in Word,
         value \in IF kind \in Lebs THEN Word ELSE Texts,
         word = (IF kind = "strN" THEN WordOf[Len(value)] ELSE value),
         WriteLeb(kind, value, word)
  PROVE  IInv'
<1>1. stream' = stream /\ written' = written /\ reading' = reading /\ ~reading /\ writing.kind = "none"
      /\ UNCHANGED Reader
  BY DEF WriteLeb, CanWrite
<1>2. stream \in Seq(Byte) /\ written \in Seq(Items) /\ Len(stream) = EndOf(Len(written)) /\ Len(stream) \in Nat
      /\ reading \in BOOLEAN
  BY <1>1 DEF IInv, TypeOK, FileWritten
<1>3. writing' = [kind |-> kind, value |-> value, rest |-> word, start |-> Len(stream), chunks |-> 0]
  BY DEF WriteLeb
<1>4. kind # "none"
  BY DEF Numbers, Lebs
<1>5. WordIn(writing') = word
  BY <1>3 DEF WordIn
<1>6. FileWritten'
  BY <1>1, <1>3, <1>4 DEF IInv, FileWritten, EndOf
<1>7. BeingWritten'
  <2>1. 0 \in 0 .. MaxChunks - 1
    BY MaxChunksFacts
  <2>2. word = Remaining(kind, word, 0)
    BY RemainingAtFirst
  <2>3. writing'.start = EndOf(Len(written))' /\ writing'.start \in Nat /\ Len(stream') = writing'.start + writing'.chunks
    BY <1>1, <1>2, <1>3 DEF EndOf
  <2>4. ChunksWritten(writing', stream')
    BY <1>3 DEF ChunksWritten
  <2>5. writing'.kind = kind /\ writing'.value = value /\ writing'.rest = word /\ writing'.chunks = 0
    BY <1>3
  <2> QED BY <1>1, <1>3, <1>4, <1>5, <2>1, <2>2, <2>3, <2>4, <2>5 DEF BeingWritten
<1>8. TypeOK' /\ BeingRead' /\ BeenRead'
  BY <1>1, <1>2, ReaderWaits
<1> QED BY <1>6, <1>7, <1>8 DEF IInv

\* What the loop of WriteLeb knows.
LEMMA WritingIs ==
  ASSUME IInv, writing.kind # "none"
  PROVE  /\ writing.kind \in Numbers /\ writing.kind \in Kinds /\ writing.kind # "magic"
         /\ ~reading /\ stream \in Seq(Byte) /\ written \in Seq(Items)
         /\ writing.chunks \in Nat /\ writing.chunks < MaxChunks
         /\ writing.start = EndOf(Len(written)) /\ writing.start \in Nat
         /\ Len(stream) = writing.start + writing.chunks
         /\ writing.value \in IF writing.kind \in Lebs THEN Word ELSE Texts
         /\ WordIn(writing) \in Word
         /\ writing.rest = Remaining(writing.kind, WordIn(writing), writing.chunks)
         /\ ChunksWritten(writing, stream)
<1>1. BeingWritten /\ stream \in Seq(Byte) /\ written \in Seq(Items)
  BY DEF IInv, TypeOK, FileWritten
<1>2. writing.kind \in Numbers /\ writing.value \in IF writing.kind \in Lebs THEN Word ELSE Texts
  BY <1>1 DEF BeingWritten
<1>3. WordIn(writing) \in Word
  BY <1>2, WordInIs
<1>4. writing.chunks \in Nat /\ writing.chunks < MaxChunks
  BY <1>1, MaxChunksFacts DEF BeingWritten
<1>5. writing.kind \in Kinds /\ writing.kind # "magic"
  BY <1>2 DEF Numbers, Lebs, Kinds
<1> QED BY <1>1, <1>2, <1>3, <1>4, <1>5 DEF BeingWritten

LEMMA WriteMoreKeeps ==
  ASSUME IInv, writing.kind # "none", writing.chunks + 1 < MaxChunks,
         WriteMore(Chunk(writing.kind, WordIn(writing), writing.chunks),
                   Remaining(writing.kind, WordIn(writing), writing.chunks + 1))
  PROVE  IInv'
<1> DEFINE n == writing.chunks  word == WordIn(writing)  chunk == Chunk(writing.kind, word, n) \cup {More}
<1>1. /\ writing.kind \in Numbers /\ ~reading /\ stream \in Seq(Byte) /\ written \in Seq(Items)
      /\ n \in Nat /\ n < MaxChunks /\ word \in Word
      /\ writing.start = EndOf(Len(written)) /\ writing.start \in Nat
      /\ Len(stream) = writing.start + n
      /\ ChunksWritten(writing, stream)
  BY WritingIs
<1>2. chunk \in Byte
  BY ChunkIs
<1>3. stream' = Append(stream, chunk) /\ written' = written /\ reading' = reading /\ UNCHANGED Reader
  BY DEF WriteMore
<1>4. stream' \in Seq(Byte) /\ Len(stream') = Len(stream) + 1 /\ Extends(stream, stream')
      /\ stream'[Len(stream) + 1] = chunk
  BY <1>1, <1>2, <1>3, AppendExtends
<1>5. /\ writing'.kind = writing.kind /\ writing'.value = writing.value /\ writing'.start = writing.start
      /\ writing'.chunks = n + 1 /\ writing'.rest = Remaining(writing.kind, word, n + 1)
      /\ writing' = [kind |-> writing'.kind, value |-> writing'.value, rest |-> writing'.rest,
                     start |-> writing'.start, chunks |-> writing'.chunks]
  BY DEF IInv, BeingWritten, WriteMore
<1>6. WordIn(writing') = word
  BY <1>5 DEF WordIn
<1>7. FileWritten'
  <2>1. ASSUME NEW i \in 1 .. Len(written)
        PROVE  ItemIn(written[i], stream') /\ written[i].end <= Len(stream')
    <3>1. ItemIn(written[i], stream) /\ written[i].end <= Len(stream)
      BY <1>1 DEF IInv, FileWritten
    <3>2. written[i].end \in Nat
      BY <3>1 DEF ItemIn
    <3> QED BY <1>1, <1>4, <3>1, <3>2, ItemKept
  <2>2. \A i : EndOf(i)' = EndOf(i)
    BY <1>3 DEF EndOf
  <2> QED BY <1>1, <1>3, <1>5, <2>1, <2>2 DEF IInv, FileWritten
<1>8. BeingWritten'
  <2>1. n + 1 \in 0 .. MaxChunks - 1
    BY <1>1, MaxChunksFacts
  <2>2. EndOf(Len(written))' = EndOf(Len(written))
    BY <1>3 DEF EndOf
  <2>3. ChunksWritten(writing', stream')
    <3>1. ASSUME NEW k \in 0 .. n
          PROVE  stream'[writing.start + k + 1] = Chunk(writing.kind, word, k) \cup {More}
      <4>1. CASE k = n
        BY <1>1, <1>4, <4>1
      <4>2. CASE k \in 0 .. n - 1
        <5>1. writing.start + k + 1 \in 1 .. Len(stream)
          BY <1>1, <4>2
        <5> QED BY <1>1, <1>4, <4>2, <5>1 DEF Extends, ChunksWritten
      <4> QED BY <1>1, <4>1, <4>2
    <3>2. writing'.chunks - 1 = n
      BY <1>1, <1>5
    <3> QED BY <1>5, <1>6, <3>1, <3>2 DEF ChunksWritten
  <2>4. Len(stream') = writing'.start + writing'.chunks
    BY <1>1, <1>4, <1>5
  <2>5. writing.value \in IF writing.kind \in Lebs THEN Word ELSE Texts
    BY WritingIs
  <2> QED BY <1>1, <1>3, <1>5, <1>6, <2>1, <2>2, <2>3, <2>4, <2>5 DEF BeingWritten
<1>9. TypeOK' /\ BeingRead' /\ BeenRead'
  <2>1. reading' \in BOOLEAN /\ ~reading'
    BY <1>1, <1>3 DEF IInv, TypeOK
  <2> QED BY <1>1, <1>3, <1>4, <2>1, ReaderWaits
<1> QED BY <1>7, <1>8, <1>9 DEF IInv

LEMMA WriteLastKeeps ==
  ASSUME IInv, writing.kind # "none", Fits(writing.kind, WordIn(writing), writing.chunks + 1),
         WriteLast(Chunk(writing.kind, WordIn(writing), writing.chunks))
  PROVE  IInv'
<1> DEFINE n == writing.chunks  word == WordIn(writing)  chunk == Chunk(writing.kind, word, n)
           text == IF writing.kind = "strN" THEN writing.value ELSE <<>>
           mid == Append(stream, chunk)
<1>1. /\ writing.kind \in Numbers /\ writing.kind \in Kinds /\ writing.kind # "magic"
      /\ ~reading /\ stream \in Seq(Byte) /\ written \in Seq(Items)
      /\ n \in Nat /\ n < MaxChunks /\ word \in Word
      /\ writing.start = EndOf(Len(written)) /\ writing.start \in Nat
      /\ Len(stream) = writing.start + n
      /\ writing.value \in IF writing.kind \in Lebs THEN Word ELSE Texts
      /\ ChunksWritten(writing, stream)
  BY WritingIs
<1>2. chunk \in Byte
  BY ChunkIs
<1>3. text \in Seq(Byte) /\ Len(text) \in Nat /\ (writing.kind = "strN" => text = writing.value)
  <2>1. CASE writing.kind = "strN"
    BY <1>1, <2>1, TextIs DEF Lebs
  <2>2. CASE writing.kind # "strN"
    BY <2>2
  <2> QED BY <2>1, <2>2
<1>4. mid \in Seq(Byte) /\ Len(mid) = Len(stream) + 1 /\ Extends(stream, mid) /\ mid[Len(stream) + 1] = chunk
  BY <1>1, <1>2, AppendExtends
<1>5. stream' = mid \o text
  BY DEF WriteLast
<1> HIDE DEF text, mid
<1>6. /\ stream' \in Seq(Byte) /\ Len(stream') = Len(mid) + Len(text) /\ Extends(mid, stream')
      /\ \A k \in 1 .. Len(text) : stream'[Len(mid) + k] = text[k]
  BY <1>3, <1>4, <1>5, ConcatExtends
<1>7. Extends(stream, stream') /\ stream'[Len(stream) + 1] = chunk
  <2>1. Len(stream) + 1 \in 1 .. Len(mid) /\ Len(stream) \in Nat
    BY <1>1, <1>4
  <2> QED BY <1>4, <1>6, <2>1 DEF Extends
<1>8. PICK it : it = Item(writing.kind, writing.value, writing.start, Len(stream) + 1, Len(stream) + 1 + Len(text))
  OBVIOUS
<1>9. /\ it.kind = writing.kind /\ it.value = writing.value /\ it.start = writing.start
      /\ it.text = Len(stream) + 1 /\ it.end = Len(stream) + 1 + Len(text)
  BY <1>8 DEF Item
<1>10. it \in Items
  <2>1. writing.value \in Word \cup Texts
    BY <1>1
  <2> QED BY <1>1, <1>3, <1>8, <2>1 DEF Item, Items
<1>11. WordIn(it) = word /\ Length(it) = n + 1
  BY <1>1, <1>9 DEF WordIn, Length
<1>12. NumberIn(it, stream')
  <2>1. Length(it) \in 1 .. MaxChunks
    BY <1>1, <1>11, MaxChunksFacts
  <2>2. ASSUME NEW k \in 0 .. n
        PROVE  stream'[it.start + k + 1] =
                 Chunk(it.kind, word, k) \cup (IF k + 1 < n + 1 THEN {More} ELSE {})
    <3>1. CASE k = n
      BY <1>1, <1>7, <1>9, <3>1
    <3>2. CASE k \in 0 .. n - 1
      <4>1. writing.start + k + 1 \in 1 .. Len(stream) /\ k + 1 < n + 1
        BY <1>1, <3>2
      <4> QED BY <1>1, <1>7, <1>9, <3>2, <4>1 DEF Extends, ChunksWritten
    <3> QED BY <1>1, <3>1, <3>2
  <2>3. Length(it) - 1 = n
    BY <1>1, <1>11
  <2> QED BY <1>9, <1>11, <2>1, <2>2, <2>3 DEF NumberIn
<1>13. ItemIn(it, stream')
  <2>1. ASSUME it.kind \notin Lebs
        PROVE  TextIn(it, stream') /\ text = it.value
    <3>1. writing.kind = "strN"
      BY <1>1, <1>9, <2>1 DEF Numbers
    <3>2. text = it.value
      BY <1>3, <1>9, <3>1
    <3> QED BY <1>4, <1>6, <1>9, <3>2 DEF TextIn
  <2>2. ASSUME it.kind \in Lebs
        PROVE  Len(text) = 0
    BY <1>9, <2>2 DEF text, Lebs
  <2>3. it.start \in Nat /\ it.text \in Nat /\ it.end \in Nat /\ it.start <= it.text /\ it.text <= it.end
    BY <1>1, <1>3, <1>9
  <2>4. it.kind \in Lebs => it.end = it.text
    BY <1>3, <1>9, <2>2, <2>3
  <2>5. it.kind \notin Lebs => it.end = it.text + Len(it.value)
    BY <1>9, <2>1
  <2>6. it.kind # "str0" /\ it.kind \in Numbers /\ it.kind \in Kinds
    BY <1>1, <1>9 DEF Numbers, Lebs
  <2>7. {"strN", "fixed", "magic"} \cap Lebs = {}
    BY DEF Lebs
  <2>8. it.value \in IF it.kind \in Lebs THEN Word ELSE Texts
    BY <1>1, <1>9
  <2> QED BY <1>12, <2>1, <2>3, <2>4, <2>5, <2>6, <2>7, <2>8 DEF ItemIn
<1>14. written' = Append(written, it)
  BY <1>8 DEF WriteLast, text
<1>15. reading' \in BOOLEAN /\ ~reading' /\ UNCHANGED Reader
  BY <1>1 DEF IInv, TypeOK, WriteLast
<1>16. FileWritten' /\ written' \in Seq(Items)
  <2>1. it.start = EndOf(Len(written)) /\ it.end = Len(stream') /\ it.kind # "magic"
    BY <1>1, <1>4, <1>6, <1>9
  <2> QED BY <1>1, <1>6, <1>7, <1>10, <1>13, <1>14, <1>15, <2>1, ItemAppended
<1>17. BeingWritten'
  BY DEF WriteLast, NotWriting, BeingWritten
<1>18. TypeOK' /\ BeingRead' /\ BeenRead'
  BY <1>1, <1>6, <1>15, <1>16, ReaderWaits
<1> QED BY <1>16, <1>17, <1>18 DEF IInv

LEMMA WriteChunkUKeeps ==
  ASSUME IInv, WriteChunkU
  PROVE  IInv'
<1> DEFINE n == writing.chunks  word == WordIn(writing)
<1>1. writing.kind \in {"u64", "strN"} /\ writing.kind # "none" /\ writing.kind # "i64"
  BY DEF WriteChunkU
<1>2. word \in Word /\ n \in Nat /\ n < MaxChunks /\ writing.rest = Remaining(writing.kind, word, n)
  BY <1>1, WritingIs
<1>3. /\ Payload(writing.rest) = Chunk(writing.kind, word, n)
      /\ ShrU(writing.rest) = Remaining(writing.kind, word, n + 1)
  BY <1>1, <1>2, PayloadIs, ShrUIs
<1>4. CASE ShrU(writing.rest) = {} /\ WriteLast(Payload(writing.rest))
  <2>1. Fits(writing.kind, word, n + 1)
    BY <1>1, <1>2, <1>4, FitsU DEF EndsU
  <2> QED BY <1>1, <1>3, <1>4, <2>1, WriteLastKeeps
<1>5. CASE (ShrU(writing.rest) # {} \/ MakesRoom) /\ WriteMore(Payload(writing.rest), ShrU(writing.rest))
  <2>1. n + 1 < MaxChunks
    <3>1. CASE n + 1 = MaxChunks
      <4>1. ShrU(writing.rest) = {}
        BY <1>1, <1>2, <3>1, EndsInTime DEF EndsU
      <4> QED BY <1>5, <3>1, <4>1 DEF MakesRoom
    <3> QED BY <1>2, <3>1, MaxChunksFacts
  <2> QED BY <1>1, <1>3, <1>5, <2>1, WriteMoreKeeps
<1> QED BY <1>4, <1>5 DEF WriteChunkU

LEMMA WriteChunkIKeeps ==
  ASSUME IInv, WriteChunkI
  PROVE  IInv'
<1> DEFINE n == writing.chunks  word == WordIn(writing)
           ends == ShrI(writing.rest) = (IF SignBit(writing.rest) THEN Bits ELSE {})
<1>1. writing.kind = "i64" /\ writing.kind # "none"
  BY DEF WriteChunkI
<1>2. word \in Word /\ n \in Nat /\ n < MaxChunks /\ writing.rest = Remaining("i64", word, n)
  BY <1>1, WritingIs
<1>3. /\ Payload(writing.rest) = Chunk(writing.kind, word, n)
      /\ ShrI(writing.rest) = Remaining(writing.kind, word, n + 1)
  BY <1>1, <1>2, PayloadIs, ShrIIs
<1>4. CASE ends /\ WriteLast(Payload(writing.rest))
  <2>1. Fits(writing.kind, word, n + 1)
    BY <1>1, <1>2, <1>4, FitsI DEF EndsI
  <2> QED BY <1>1, <1>3, <1>4, <2>1, WriteLastKeeps
<1>5. CASE (~ends \/ MakesRoom) /\ WriteMore(Payload(writing.rest), ShrI(writing.rest))
  <2>1. n + 1 < MaxChunks
    <3>1. CASE n + 1 = MaxChunks
      <4>1. ends
        BY <1>1, <1>2, <3>1, EndsInTime DEF EndsI
      <4> QED BY <1>5, <3>1, <4>1 DEF MakesRoom
    <3> QED BY <1>2, <3>1, MaxChunksFacts
  <2> QED BY <1>1, <1>3, <1>5, <2>1, WriteMoreKeeps
<1> QED BY <1>4, <1>5 DEF WriteChunkI

LEMMA ItemCut ==
  ASSUME NEW it, NEW s \in Seq(Byte), NEW t \in Seq(Byte), Extends(t, s), ItemIn(it, s)
  PROVE  ItemIn(it, t)
<1>1. it.start \in Nat /\ it.text \in Nat /\ it.end \in Nat /\ it.start <= it.text /\ it.text <= it.end
  BY DEF ItemIn
<1>2. ASSUME NEW i \in Nat, i >= 1, i <= Len(t)
      PROVE  i <= Len(s) /\ t[i] = s[i]
  BY <1>2 DEF Extends
<1>3. ASSUME it.kind \in Numbers
      PROVE  NumberIn(it, t)
  <2>1. NumberIn(it, s)
    BY <1>3 DEF ItemIn
  <2>2. ASSUME NEW k \in 0 .. Length(it) - 1
        PROVE  it.start + k + 1 \in Nat /\ it.start + k + 1 >= 1
    BY <1>1 DEF Length
  <2> QED BY <1>2, <2>1, <2>2 DEF NumberIn
<1>4. ASSUME it.kind \notin Lebs
      PROVE  TextIn(it, t)
  <2>1. TextIn(it, s) /\ it.value \in Texts
    BY <1>4 DEF ItemIn
  <2>2. ASSUME NEW k \in 1 .. Len(it.value)
        PROVE  it.text + k \in Nat /\ it.text + k >= 1
    BY <1>1, <2>1, TextIs
  <2> QED BY <1>2, <2>1, <2>2 DEF TextIn
<1>5. ASSUME it.kind = "str0"
      PROVE  it.end <= Len(t) => t[it.end] = {}
  <2>1. it.end = it.text + Len(it.value) + 1 /\ it.value \in Texts /\ (it.end <= Len(s) => s[it.end] = {})
    BY <1>5 DEF ItemIn, Lebs
  <2>2. it.end >= 1
    BY <1>1, <2>1, TextIs
  <2> QED BY <1>1, <1>2, <2>1, <2>2
<1> QED BY <1>3, <1>4, <1>5 DEF ItemIn

LEMMA StartReadingKeeps ==
  ASSUME IInv, StartReading
  PROVE  IInv'
<1>1. ~reading /\ reading' /\ writing.kind = "none" /\ UNCHANGED <<written, writing, Reader>>
  BY DEF StartReading
<1>2. stream \in Seq(Byte) /\ written \in Seq(Items) /\ reading' \in BOOLEAN
  BY DEF IInv, TypeOK, FileWritten, StartReading
<1>3. PICK n \in 0 .. Len(stream) : stream' = SubSeq(stream, 1, n)
  BY DEF StartReading
<1>4. stream' \in Seq(Byte) /\ Extends(stream', stream) /\ Len(stream') \in Nat
  BY <1>2, <1>3 DEF Extends
<1>5. got = <<>> /\ method.name = "none" /\ position = 0 /\ membuffer.position = 0
  <2>1. got = <<>> /\ method.name = "none"
    BY <1>1 DEF IInv, BeenRead
  <2>2. position = Lesser(EndOf(0), Len(stream)) /\ membuffer.position = 0 /\ Len(stream) \in Nat
    BY <1>2, <2>1 DEF IInv, BeingRead
  <2> QED BY <2>1, <2>2 DEF Lesser, EndOf
<1>6. UNCHANGED <<got, method, position, membuffer, failed>>
  BY <1>1 DEF Reader
<1>7. TypeOK'
  BY <1>1, <1>2, <1>4, <1>5, <1>6 DEF IInv, TypeOK
<1>8. FileWritten'
  <2>1. ASSUME NEW i \in 1 .. Len(written)
        PROVE  ItemIn(written[i], stream')
    BY <1>2, <1>4, ItemCut DEF IInv, FileWritten
  <2>2. \A i : EndOf(i)' = EndOf(i)
    BY <1>1 DEF EndOf
  <2> QED BY <1>1, <2>1, <2>2 DEF IInv, FileWritten
<1>9. BeingWritten'
  BY <1>1 DEF IInv, BeingWritten
<1>10. BeingRead'
  <2>1. EndOf(Len(got))' = 0
    BY <1>5, <1>6 DEF EndOf
  <2> QED BY <1>4, <1>5, <1>6, <2>1 DEF BeingRead, Lesser
<1>11. BeenRead'
  BY <1>1, <1>5, <1>6 DEF IInv, BeenRead, ReadBack, CutNoticed
<1> QED BY <1>7, <1>8, <1>9, <1>10, <1>11 DEF IInv

-------------------------------------------------------------------------------
(* Reading: a method goes on, or returns. *)

Buffers == [bytes : Seq(Byte), position : Nat]
Methods == [name : Lebs \cup {"none", "length", "str0", "text"}, value : Word, shift : Nat,
            len : Nat, buffer : Seq(Byte)]

\* What is read next.
LEMMA DueIs ==
  ASSUME IInv, Len(got) < Len(written)
  PROVE  /\ ItemIn(Due, stream) /\ Due.start = EndOf(Len(got)) /\ (Due.kind = "magic" => Len(got) = 0)
         /\ stream \in Seq(Byte) /\ Len(stream) \in Nat /\ position \in 0 .. Len(stream)
         /\ membuffer \in Buffers /\ membuffer.position <= Len(membuffer.bytes) /\ method \in Methods
         /\ got \in Seq(Word \cup Seq(Byte)) /\ written \in Seq(Items) /\ Len(got) \in Nat
         /\ Due.start \in Nat /\ Due.text \in Nat /\ Due.end \in Nat
         /\ Due.start <= Due.text /\ Due.text <= Due.end
<1>1. stream \in Seq(Byte) /\ got \in Seq(Word \cup Seq(Byte)) /\ written \in Seq(Items)
  BY DEF IInv, TypeOK, FileWritten, BeenRead
<1>2. Len(got) \in Nat /\ Len(got) + 1 \in 1 .. Len(written) /\ Len(got) + 1 - 1 = Len(got)
  BY <1>1
<1>3. /\ ItemIn(written[Len(got) + 1], stream)
      /\ written[Len(got) + 1].start = EndOf(Len(got))
      /\ written[Len(got) + 1].kind = "magic" => Len(got) + 1 = 1
  BY <1>2 DEF IInv, FileWritten
<1>4. position \in 0 .. Len(stream) /\ membuffer \in Buffers /\ membuffer.position <= Len(membuffer.bytes)
      /\ method \in Methods /\ Len(stream) \in Nat
  BY <1>1 DEF IInv, TypeOK, Buffers, Methods
<1> QED BY <1>1, <1>2, <1>3, <1>4 DEF Due, ItemIn

LEMMA FileKept ==
  ASSUME IInv, UNCHANGED file
  PROVE  FileWritten' /\ BeingWritten'
BY DEF IInv, FileWritten, BeingWritten, EndOf, file

LEMMA ContinueKeeps ==
  ASSUME IInv, reading, Len(got) < Len(written),
         NEW locals \in Methods, locals.name # "none", NEW count \in Nat, NEW buffer \in Buffers,
         buffer.position <= Len(buffer.bytes), position + count <= Len(stream),
         InMethod(Due, stream, position + count, buffer, locals),
         Continue(locals, count, buffer)
  PROVE  IInv'
<1>1. /\ UNCHANGED <<file, got, failed>> /\ method' = locals /\ position' = position + count /\ membuffer' = buffer
  BY DEF Continue
<1>2. UNCHANGED <<written, stream, reading>>
  BY <1>1 DEF file
<1>3. FileWritten' /\ BeingWritten'
  BY <1>1, FileKept
<1>4. TypeOK'
  <2>1. position + count \in 0 .. Len(stream)
    BY DueIs
  <2> QED BY <1>1, <1>2, <2>1 DEF IInv, TypeOK, Methods, Buffers
<1>5. BeingRead'
  <2>1. Due' = Due
    BY <1>1, <1>2 DEF Due
  <2> QED BY <1>1, <1>2, <2>1 DEF BeingRead
<1>6. BeenRead'
  BY <1>1, <1>2 DEF IInv, BeenRead, ReadBack, CutNoticed, Whole
<1> QED BY <1>3, <1>4, <1>5, <1>6 DEF IInv

LEMMA ReturnKeeps ==
  ASSUME IInv, reading, Len(got) < Len(written),
         NEW value \in IF Due.kind \in Lebs THEN Word ELSE Seq(Byte), NEW count \in Nat, NEW buffer \in Buffers,
         buffer.position <= Len(buffer.bytes),
         position + count = Lesser(Due.end, Len(stream)),
         Due.end <= Len(stream) => value = Due.value,
         Due.end > Len(stream) => /\ Due.kind \in {"strN", "fixed", "magic"}
                                  /\ Len(value) = Len(Due.value),
         Return(value, count, buffer)
  PROVE  IInv'
<1>1. /\ UNCHANGED <<file, failed>> /\ got' = Append(got, value) /\ method' = NoMethod
      /\ position' = position + count /\ membuffer' = buffer
  BY DEF Return
<1>2. UNCHANGED <<written, stream, reading>>
  BY <1>1 DEF file
<1>3. FileWritten' /\ BeingWritten'
  BY <1>1, FileKept
<1>4. /\ stream \in Seq(Byte) /\ Len(stream) \in Nat /\ position \in 0 .. Len(stream) /\ Due.end \in Nat
      /\ got \in Seq(Word \cup Seq(Byte)) /\ written \in Seq(Items) /\ Len(got) \in Nat
  BY DueIs
<1> DEFINE n == Len(got)
<1>5. /\ Len(got') = n + 1 /\ got'[n + 1] = value /\ DOMAIN got' = 1 .. n + 1 /\ DOMAIN got = 1 .. n
      /\ \A i \in 1 .. n : got'[i] = got[i]
      /\ got' \in Seq(Word \cup Seq(Byte))
  BY <1>1, <1>4
<1>6. written[n + 1] = Due
  BY DEF Due
<1>7. TypeOK'
  <2>1. position + count \in 0 .. Len(stream)
    BY <1>4 DEF Lesser
  <2>2. NoMethod \in Methods
    BY DEF NoMethod, Starts, Locals, Methods, Word
  <2>3. ASSUME NEW i \in DOMAIN got'
        PROVE  got'[i] \in IF written[i].kind \in Lebs THEN Word ELSE Seq(Byte)
    <3>1. CASE i = n + 1
      BY <1>5, <1>6, <3>1
    <3>2. CASE i \in 1 .. n
      BY <1>5, <3>2 DEF IInv, TypeOK
    <3> QED BY <1>5, <3>1, <3>2
  <2> QED BY <1>1, <1>2, <2>1, <2>2, <2>3 DEF IInv, TypeOK, Methods, Buffers
<1>8. BeingRead'
  <2>1. EndOf(Len(got))' = Due.end
    BY <1>2, <1>4, <1>5, <1>6 DEF EndOf
  <2>2. got' # <<>> /\ method'.name = "none"
    BY <1>1, <1>4, <1>5 DEF NoMethod, Starts, Locals
  <2> QED BY <1>1, <1>2, <2>1, <2>2 DEF BeingRead
<1>9. BeenRead'
  <2>1. Len(got') <= Len(written)
    BY <1>4, <1>5
  <2>2. ASSUME NEW i \in DOMAIN got'
        PROVE  /\ Whole(i)' => got'[i] = written[i].value
               /\ ~Whole(i)' => /\ written[i].kind \in {"strN", "fixed", "magic"}
                                /\ Len(got'[i]) = Len(written[i].value)
    <3>1. Whole(i)' = Whole(i)
      BY <1>2 DEF Whole
    <3>2. CASE i = n + 1
      BY <1>4, <1>5, <1>6, <3>1, <3>2 DEF Whole
    <3>3. CASE i \in 1 .. n
      BY <1>5, <3>1, <3>3 DEF IInv, BeenRead, ReadBack, CutNoticed
    <3> QED BY <1>5, <3>2, <3>3
  <2> QED BY <1>2, <1>5, <2>1, <2>2 DEF BeenRead, ReadBack, CutNoticed
<1> QED BY <1>3, <1>7, <1>8, <1>9 DEF IInv

-------------------------------------------------------------------------------
(* Reading: sequences. *)

LEMMA WrittenIs ==
  ASSUME NEW m \in Buffers, m.position <= Len(m.bytes), NEW t \in Seq(Byte)
  PROVE  /\ Written(m, t) \in Buffers
         /\ Written(m, t).position = m.position + Len(t)
         /\ Written(m, t).position <= Len(Written(m, t).bytes)
         /\ \A k \in 1 .. m.position : Written(m, t).bytes[k] = m.bytes[k]
         /\ \A k \in 1 .. Len(t) : Written(m, t).bytes[m.position + k] = t[k]
<1> DEFINE n == m.position  s == m.bytes
           front == SubSeq(s, 1, n)  back == SubSeq(s, n + Len(t) + 1, Len(s))
<1>1. s \in Seq(Byte) /\ n \in Nat /\ n <= Len(s) /\ Len(t) \in Nat
  BY DEF Buffers
<1> HIDE DEF s, n
<1>2. front \in Seq(Byte) /\ Len(front) = n /\ \A k \in 1 .. n : front[k] = s[k]
  BY <1>1
<1>3. back \in Seq(Byte)
  BY <1>1
<1> HIDE DEF front, back
<1>4. /\ front \o t \in Seq(Byte) /\ Len(front \o t) = n + Len(t) /\ Extends(front, front \o t)
      /\ \A k \in 1 .. Len(t) : (front \o t)[n + k] = t[k]
  BY <1>2, ConcatExtends
<1> DEFINE new == (front \o t) \o back
<1>5. /\ new \in Seq(Byte) /\ Len(new) = n + Len(t) + Len(back) /\ Extends(front \o t, new)
  BY <1>3, <1>4, ConcatExtends
<1>6. Len(back) \in Nat
  BY <1>3
<1>7. Written(m, t) = [bytes |-> new, position |-> n + Len(t)]
  BY DEF Written, front, back, s, n
<1>8. ASSUME NEW k \in 1 .. n
      PROVE  new[k] = s[k]
  <2>1. k \in 1 .. Len(front) /\ k \in 1 .. Len(front \o t)
    BY <1>1, <1>2, <1>4
  <2> QED BY <1>2, <1>4, <1>5, <2>1 DEF Extends
<1>9. ASSUME NEW k \in 1 .. Len(t)
      PROVE  new[n + k] = t[k]
  <2>1. n + k \in 1 .. Len(front \o t)
    BY <1>1, <1>4
  <2> QED BY <1>4, <1>5, <2>1 DEF Extends
<1> HIDE DEF new
<1>10. n + Len(t) \in Nat /\ n + Len(t) <= Len(new)
  BY <1>1, <1>5, <1>6
<1> QED BY <1>5, <1>7, <1>8, <1>9, <1>10 DEF Buffers, s, n

LEMMA GetStringIs ==
  ASSUME NEW m \in Buffers, m.position <= Len(m.bytes)
  PROVE  /\ GetString(m) \in Seq(Byte) /\ Len(GetString(m)) = m.position
         /\ \A k \in 1 .. m.position : GetString(m)[k] = m.bytes[k]
BY DEF GetString, Buffers

LEMMA SameBytes ==
  ASSUME NEW s \in Seq(Byte), NEW t \in Seq(Byte), Len(s) = Len(t), \A k \in 1 .. Len(s) : s[k] = t[k]
  PROVE  s = t
OBVIOUS

\* What Stream.Read delivers.
LEMMA ReadIs ==
  ASSUME stream \in Seq(Byte), position \in Nat, NEW buffer \in Seq(Byte)
  PROVE  /\ Read(buffer) \in Seq(Byte) /\ Len(Read(buffer)) = Len(buffer)
         /\ \A k \in 1 .. Len(buffer) :
              position + k <= Len(stream) => Read(buffer)[k] = stream[position + k]
<1>1. DOMAIN buffer = 1 .. Len(buffer) /\ Len(buffer) \in Nat
  OBVIOUS
<1>2. ASSUME NEW k \in 1 .. Len(buffer)
      PROVE  (IF position + k <= Len(stream) THEN stream[position + k] ELSE buffer[k]) \in Byte
  BY <1>2
<1>3. Read(buffer) = [k \in 1 .. Len(buffer) |-> IF position + k <= Len(stream) THEN stream[position + k] ELSE buffer[k]]
  BY <1>1 DEF Read
<1>4. Read(buffer) \in Seq(Byte) /\ Len(Read(buffer)) = Len(buffer)
  BY <1>1, <1>2, <1>3
<1> QED BY <1>3, <1>4

\* Where the reader is after as much as there is of `count` bytes.
LEMMA DeliveredIs ==
  ASSUME NEW at \in Nat, Len(stream) \in Nat, position = Lesser(at, Len(stream)), NEW count \in Nat
  PROVE  /\ Delivered(count) \in Nat
         /\ position + Delivered(count) = Lesser(at + count, Len(stream))
         /\ position + Delivered(count) <= Len(stream)
<1>1. PICK n \in Nat : n = Len(stream)
  OBVIOUS
<1>2. CASE at <= n
  <2>1. position = at
    BY <1>1, <1>2 DEF Lesser
  <2>2. CASE count <= n - at
    <3>1. Delivered(count) = count /\ Lesser(at + count, n) = at + count
      BY <1>1, <2>1, <2>2 DEF Delivered, Lesser
    <3> QED BY <1>1, <2>1, <2>2, <3>1
  <2>3. CASE ~(count <= n - at)
    <3>1. Delivered(count) = n - at /\ Lesser(at + count, n) = n
      BY <1>1, <2>1, <2>3 DEF Delivered, Lesser
    <3> QED BY <1>1, <1>2, <2>1, <3>1
  <2> QED BY <2>2, <2>3
<1>3. CASE ~(at <= n)
  <2>1. position = n /\ Lesser(at + count, n) = n
    BY <1>1, <1>3 DEF Lesser
  <2>2. Delivered(count) = 0
    BY <1>1, <2>1 DEF Delivered, Lesser
  <2> QED BY <1>1, <2>1, <2>2
<1> QED BY <1>2, <1>3

-------------------------------------------------------------------------------
(* Reading: the methods are called. *)

LEMMA StartsIs ==
  ASSUME NEW name \in Lebs \cup {"none", "length", "str0", "text"}
  PROVE  /\ Starts(name) \in Methods /\ Starts(name).name = name
         /\ Starts(name).value = {} /\ Starts(name).shift = 0
<1>1. 0 \in Nat /\ <<>> \in Seq(Byte) /\ {} \in Word
  BY DEF Word
<1>2. Starts(name) = [name |-> name, value |-> {}, shift |-> 0, len |-> 0, buffer |-> <<>>]
  BY DEF Starts, Locals
<1> QED BY <1>1, <1>2 DEF Methods

LEMMA CalledAt ==
  ASSUME IInv, NEW kind, Call(kind)
  PROVE  /\ reading /\ Len(got) < Len(written) /\ Due.kind = kind /\ method.name = "none"
         /\ position = Lesser(Due.start, Len(stream))
         /\ kind = "magic" => membuffer.position = 0
<1>1. reading /\ Len(got) < Len(written) /\ Due.kind = kind /\ method.name = "none"
  BY DEF Call
<1>2. Due.start = EndOf(Len(got)) /\ (kind = "magic" => Len(got) = 0) /\ got \in Seq(Word \cup Seq(Byte))
  BY <1>1, DueIs
<1>3. Len(got) = 0 => got = <<>>
  BY <1>2
<1> QED BY <1>1, <1>2, <1>3 DEF IInv, BeingRead

LEMMA NumberStarts ==
  ASSUME IInv, Len(got) < Len(written), Due.kind \in Numbers, position = Lesser(Due.start, Len(stream)),
         NEW locals, locals.shift = 0, locals.value = {}
  PROVE  AtNumber(Due, stream, position + 0, locals)
<1>1. Length(Due) \in 1 .. MaxChunks /\ WordIn(Due) \in Word /\ Due.start \in Nat /\ position \in Nat
      /\ Length(Due) \in Nat
  <2>1. ItemIn(Due, stream) /\ Due.start \in Nat /\ Due.text \in Nat /\ position \in 0 .. Len(stream)
    BY DueIs
  <2> QED BY <2>1, WordInIs, MaxChunksFacts DEF ItemIn, NumberIn
<1>2. PICK k \in 0 .. Length(Due) - 1 : k = 0
  BY <1>1
<1>3. At(k) = 0 /\ Low(WordIn(Due), k) = {}
  BY <1>1, <1>2, AtFacts, LowIsWord
<1>4. position + 0 = Lesser(Due.start + k, Len(stream)) /\ ~(k > 0)
  BY <1>1, <1>2
<1> QED BY <1>3, <1>4 DEF AtNumber

LEMMA ReadLebStarts ==
  ASSUME IInv, NEW name \in Lebs \cup {"length"}, NEW buffer \in Buffers, buffer.position <= Len(buffer.bytes),
         name \in Lebs => Call(name),
         name = "length" => Call("strN") /\ buffer.position = 0,
         Continue(Starts(name), 0, buffer)
  PROVE  IInv'
<1> DEFINE locals == Starts(name)
<1>1. /\ reading /\ Len(got) < Len(written) /\ position = Lesser(Due.start, Len(stream))
      /\ Due.kind \in Numbers
      /\ name \in Lebs => Due.kind = name
      /\ name = "length" => Due.kind = "strN"
  <2>1. CASE name \in Lebs
    BY <2>1, CalledAt DEF Numbers, Lebs
  <2>2. CASE name = "length"
    BY <2>2, CalledAt DEF Numbers, Lebs
  <2> QED BY <2>1, <2>2
<1>2. locals \in Methods /\ locals.name = name /\ locals.shift = 0 /\ locals.value = {}
  BY StartsIs
<1>3. name \notin {"none", "str0", "text"}
  BY DEF Lebs
<1> HIDE DEF locals
<1>4. AtNumber(Due, stream, position + 0, locals)
  BY <1>1, <1>2, NumberStarts
<1>5. InMethod(Due, stream, position + 0, buffer, locals)
  BY <1>1, <1>2, <1>3, <1>4 DEF InMethod
<1>6. position + 0 <= Len(stream) /\ 0 \in Nat
  BY <1>1, DueIs
<1> QED BY <1>1, <1>2, <1>3, <1>5, <1>6, ContinueKeeps DEF locals

LEMMA SeekIs ==
  ASSUME IInv
  PROVE  /\ membuffer \in Buffers /\ membuffer.position <= Len(membuffer.bytes)
         /\ Seek(membuffer) \in Buffers /\ Seek(membuffer).position = 0
         /\ Seek(membuffer).position <= Len(Seek(membuffer).bytes)
BY DEF IInv, TypeOK, Buffers, Seek

LEMMA ReadLebKeeps ==
  ASSUME IInv, ReadU64Leb \/ ReadI64Leb \/ ReadStrN
  PROVE  IInv'
<1>1. "u64" \in Lebs /\ "i64" \in Lebs /\ "length" \notin Lebs
  BY DEF Lebs
<1>2. CASE ReadU64Leb
  BY <1>1, <1>2, ReadLebStarts, SeekIs DEF ReadU64Leb
<1>3. CASE ReadI64Leb
  BY <1>1, <1>3, ReadLebStarts, SeekIs DEF ReadI64Leb
<1>4. CASE ReadStrN
  <2>1. PICK buffer \in Buffers : buffer = Seek(membuffer)
    BY SeekIs
  <2> QED BY <1>1, <1>4, <2>1, ReadLebStarts, SeekIs DEF ReadStrN
<1> QED BY <1>2, <1>3, <1>4

LEMMA ReadStr0Keeps ==
  ASSUME IInv, ReadStr0
  PROVE  IInv'
<1>1. PICK buffer \in Buffers : buffer = Seek(membuffer)
  BY SeekIs
<1>2. PICK locals \in Methods : locals = Starts("str0")
  BY StartsIs
<1>3. locals.name = "str0" /\ buffer.position = 0 /\ buffer.position <= Len(buffer.bytes)
  BY <1>1, <1>2, SeekIs, StartsIs
<1>4. reading /\ Len(got) < Len(written) /\ position = Lesser(Due.start, Len(stream)) /\ Due.kind = "str0"
  BY CalledAt DEF ReadStr0
<1>5. Due.text = Due.start /\ Due.text \in Nat /\ Due.value \in Texts /\ position \in 0 .. Len(stream)
  BY <1>4, DueIs DEF ItemIn, Numbers, Lebs
<1>6. AtByte(Due, stream, position + 0, buffer)
  <2>1. Len(Due.value) \in Nat
    BY <1>5, TextIs
  <2> QED BY <1>3, <1>4, <1>5, <2>1 DEF AtByte
<1>7. InMethod(Due, stream, position + 0, buffer, locals)
  BY <1>3, <1>4, <1>6 DEF InMethod, Lebs
<1>8. position + 0 <= Len(stream) /\ 0 \in Nat /\ Continue(locals, 0, buffer)
  BY <1>1, <1>2, <1>4, DueIs DEF ReadStr0
<1> QED BY <1>3, <1>4, <1>7, <1>8, ContinueKeeps

LEMMA ReadTextIs ==
  ASSUME NEW len \in Nat
  PROVE  /\ ReadText(len) \in Methods /\ ReadText(len).name = "text" /\ ReadText(len).len = len
         /\ Len(ReadText(len).buffer) = BufferSize
<1>1. BufferSize \in Nat
  BY TextAssumption
<1>2. PICK zeros : zeros = [k \in 1 .. BufferSize |-> {}]
  OBVIOUS
<1>3. zeros \in Seq(Byte) /\ Len(zeros) = BufferSize
  BY <1>1, <1>2 DEF Byte
<1>4. ReadText(len) = [name |-> "text", value |-> {}, shift |-> 0, len |-> len, buffer |-> zeros]
  BY <1>2 DEF ReadText, Locals
<1>5. {} \in Word /\ 0 \in Nat
  BY DEF Word
<1> QED BY <1>3, <1>4, <1>5 DEF Methods

LEMMA ReadStrlKeeps ==
  ASSUME IInv, ReadStrl
  PROVE  IInv'
<1>1. /\ reading /\ Len(got) < Len(written) /\ position = Lesser(Due.start, Len(stream))
      /\ Due.kind = "magic" /\ membuffer.position = 0
  BY CalledAt DEF ReadStrl
<1>2. Due.text = Due.start /\ Due.text \in Nat /\ Due.value \in Texts /\ position \in 0 .. Len(stream)
  BY <1>1, DueIs DEF ItemIn, Numbers, Lebs
<1>3. PICK len \in Nat : len = Len(Due.value)
  BY <1>2, TextIs
<1>4. PICK buffer \in Buffers : buffer = membuffer
  BY SeekIs
<1>5. PICK locals \in Methods : locals = ReadText(len)
  BY ReadTextIs
<1>6. locals.name = "text" /\ locals.len = len /\ Len(locals.buffer) = BufferSize
  BY <1>5, ReadTextIs
<1>7. AtSlice(Due, stream, position + 0, buffer, locals)
  BY <1>1, <1>2, <1>3, <1>4, <1>6 DEF AtSlice
<1>8. InMethod(Due, stream, position + 0, buffer, locals)
  BY <1>1, <1>6, <1>7 DEF InMethod, Lebs
<1>9. position + 0 <= Len(stream) /\ 0 \in Nat /\ Continue(locals, 0, buffer)
  BY <1>1, <1>3, <1>4, <1>5, DueIs DEF ReadStrl
<1>10. buffer.position <= Len(buffer.bytes)
  BY <1>4, SeekIs
<1> QED BY <1>1, <1>6, <1>8, <1>9, <1>10, ContinueKeeps

LEMMA ReadTKeeps ==
  ASSUME IInv, ReadT
  PROVE  IInv'
<1>1. reading /\ Len(got) < Len(written) /\ position = Lesser(Due.start, Len(stream)) /\ Due.kind = "fixed"
  BY CalledAt DEF ReadT
<1>2. /\ Due.text = Due.start /\ Due.start \in Nat /\ Due.value \in Texts
      /\ Due.end = Due.text + Len(Due.value) /\ TextIn(Due, stream)
      /\ position \in 0 .. Len(stream) /\ stream \in Seq(Byte) /\ Len(stream) \in Nat
  BY <1>1, DueIs DEF ItemIn, Numbers, Lebs
<1>3. Due.value \in Seq(Byte) /\ DOMAIN Due.value = 1 .. Len(Due.value) /\ Len(Due.value) \in Nat
  BY <1>2, TextIs
<1>4. PICK zeros : zeros = [k \in DOMAIN Due.value |-> {}]
  OBVIOUS
<1>5. zeros \in Seq(Byte) /\ Len(zeros) = Len(Due.value)
  BY <1>3, <1>4 DEF Byte
<1>6. PICK value \in Seq(Byte) : value = Read(zeros)
  BY <1>2, <1>5, ReadIs
<1>7. Len(value) = Len(Due.value)
      /\ \A k \in 1 .. Len(zeros) : position + k <= Len(stream) => value[k] = stream[position + k]
  BY <1>2, <1>5, <1>6, ReadIs
<1>8. /\ Delivered(Len(zeros)) \in Nat
      /\ position + Delivered(Len(zeros)) = Lesser(Due.end, Len(stream))
  <2>1. PICK at \in Nat : at = Due.start
    BY <1>2
  <2>2. at + Len(zeros) = Due.end /\ Len(zeros) \in Nat
    BY <1>2, <1>3, <1>5, <2>1
  <2> QED BY <1>1, <1>2, <2>1, <2>2, DeliveredIs
<1>9. PICK count \in Nat : count = Delivered(Len(zeros))
  BY <1>8
<1>10. ASSUME Due.end <= Len(stream)
       PROVE  value = Due.value
  <2>1. position = Due.start
    BY <1>1, <1>2, <1>3, <1>10 DEF Lesser
  <2>2. ASSUME NEW k \in 1 .. Len(Due.value)
        PROVE  value[k] = Due.value[k]
    <3>1. position + k <= Len(stream)
      BY <1>2, <1>3, <1>10, <2>1
    <3> QED BY <1>2, <1>5, <1>7, <2>1, <3>1 DEF TextIn
  <2> QED BY <1>3, <1>7, <2>2, SameBytes
<1>11. PICK buffer \in Buffers : buffer = membuffer /\ buffer.position <= Len(buffer.bytes)
  BY SeekIs
<1>12. Return(value, count, buffer)
  BY <1>4, <1>6, <1>9, <1>11 DEF ReadT
<1>13. Due.kind \notin Lebs
  BY <1>1 DEF Lebs
<1> QED BY <1>1, <1>7, <1>8, <1>9, <1>10, <1>11, <1>12, <1>13, ReturnKeeps

-------------------------------------------------------------------------------
(* Reading: numbers. *)

\* In the loop of a number, before the end of the stream: chunk k comes next.
LEMMA ChunkComes ==
  ASSUME IInv, method.name \in Lebs \cup {"length"}, ~AtEnd
  PROVE  /\ reading /\ Len(got) < Len(written) /\ Due.kind \in Numbers /\ WordIn(Due) \in Word
         /\ InMethod(Due, stream, position, membuffer, method)
         /\ \E k \in Nat :
              /\ k < MaxChunks /\ k + 1 <= Length(Due)
              /\ position = Due.start + k /\ position + 1 <= Len(stream)
              /\ method.shift = At(k) /\ Gathered = Low(WordIn(Due), k + 1)
              /\ LastChunk(Next8) <=> k + 1 = Length(Due)
              /\ LastChunk(Next8) => Next8 = Chunk(Due.kind, WordIn(Due), k)
<1>1. method.name \notin {"none", "str0", "text"}
  BY DEF Lebs
<1>2. reading /\ Len(got) < Len(written) /\ InMethod(Due, stream, position, membuffer, method)
  BY <1>1 DEF IInv, BeingRead
<1>3. AtNumber(Due, stream, position, method) /\ Due.kind \in Numbers
  BY <1>2 DEF InMethod, Numbers
<1>4. /\ ItemIn(Due, stream) /\ Due.start \in Nat /\ Due.text \in Nat /\ Len(stream) \in Nat
      /\ position \in 0 .. Len(stream)
  BY <1>2, DueIs
<1>5. NumberIn(Due, stream) /\ WordIn(Due) \in Word
  BY <1>3, <1>4, WordInIs DEF ItemIn
<1>6. Length(Due) \in 1 .. MaxChunks /\ Length(Due) \in Nat /\ MaxChunks \in Nat
  BY <1>5, MaxChunksFacts DEF NumberIn
<1>7. PICK k \in 0 .. Length(Due) - 1 :
        /\ position = Lesser(Due.start + k, Len(stream))
        /\ method.shift = At(k) /\ method.value = Low(WordIn(Due), k)
  BY <1>3 DEF AtNumber
<1>8. k \in Nat /\ k < MaxChunks /\ k + 1 <= Length(Due)
  BY <1>6
<1>9. position = Due.start + k /\ position + 1 <= Len(stream)
  BY <1>4, <1>7, <1>8 DEF AtEnd, Lesser
<1> DEFINE chunk == Chunk(Due.kind, WordIn(Due), k)
<1>10. Next8 = chunk \cup (IF k + 1 < Length(Due) THEN {More} ELSE {})
  <2>1. Due.start + k + 1 <= Len(stream)
    BY <1>4, <1>8, <1>9
  <2>2. stream[Due.start + k + 1] = chunk \cup (IF k + 1 < Length(Due) THEN {More} ELSE {})
    BY <1>5, <1>8, <2>1 DEF NumberIn
  <2> QED BY <1>9, <2>2 DEF Next8
<1>11. Payload(chunk) = chunk /\ Payload(chunk \cup {More}) = chunk /\ More \notin chunk
  BY ChunkIs
<1> HIDE DEF chunk
<1>12. Payload(Next8) = chunk /\ (LastChunk(Next8) <=> k + 1 = Length(Due)) /\ (LastChunk(Next8) => Next8 = chunk)
  <2>1. CASE k + 1 < Length(Due)
    <3>1. Next8 = chunk \cup {More}
      BY <1>10, <2>1
    <3>2. k + 1 # Length(Due)
      BY <1>6, <1>8, <2>1
    <3> QED BY <1>11, <3>1, <3>2 DEF LastChunk
  <2>2. CASE ~(k + 1 < Length(Due))
    <3>1. Next8 = chunk
      BY <1>10, <2>2
    <3>2. k + 1 = Length(Due)
      BY <1>6, <1>8, <2>2
    <3> QED BY <1>11, <3>1, <3>2 DEF LastChunk
  <2> QED BY <2>1, <2>2
<1>13. Gathered = Low(WordIn(Due), k + 1)
  <2>1. Gathered = Low(WordIn(Due), k) \cup Shl(chunk, At(k))
    BY <1>7, <1>12 DEF Gathered
  <2> QED BY <1>5, <1>8, <2>1, GatheredIs DEF chunk
<1> QED BY <1>2, <1>3, <1>5, <1>7, <1>8, <1>9, <1>12, <1>13 DEF chunk

LEMMA ChunkKeeps ==
  ASSUME IInv, method.name \in Lebs \cup {"length"}, ~AtEnd, ~LastChunk(Next8),
         Continue([method EXCEPT !.value = Gathered, !.shift = @ + ChunkBits], 1, membuffer)
  PROVE  IInv'
<1>1. /\ reading /\ Len(got) < Len(written) /\ WordIn(Due) \in Word
      /\ InMethod(Due, stream, position, membuffer, method)
  BY ChunkComes
<1>2. PICK k \in Nat :
        /\ k < MaxChunks /\ k + 1 <= Length(Due)
        /\ position = Due.start + k /\ position + 1 <= Len(stream)
        /\ method.shift = At(k) /\ Gathered = Low(WordIn(Due), k + 1)
        /\ LastChunk(Next8) <=> k + 1 = Length(Due)
  BY ChunkComes
<1>3. Due.start \in Nat /\ Due.text \in Nat /\ Len(stream) \in Nat /\ method \in Methods
  BY <1>1, DueIs
<1>4. PICK buffer \in Buffers : buffer = membuffer /\ buffer.position <= Len(buffer.bytes)
  BY SeekIs
<1>5. PICK shift \in Nat : shift = method.shift + ChunkBits /\ shift = At(k + 1)
  BY <1>2, AtFacts
<1>6. PICK value \in Word : value = Low(WordIn(Due), k + 1) /\ value = Gathered
  BY <1>1, <1>2, LowIsWord
<1>7. PICK locals : locals = [method EXCEPT !.value = value, !.shift = shift]
  OBVIOUS
<1>8. locals \in Methods /\ locals.name = method.name /\ locals.value = value /\ locals.shift = shift
  BY <1>3, <1>7 DEF Methods
<1>9. Continue(locals, 1, buffer)
  BY <1>4, <1>5, <1>6, <1>7
<1>10. AtNumber(Due, stream, position + 1, locals)
  <2>1. k + 1 \in 0 .. Length(Due) - 1
    <3>1. Length(Due) \in Int
      BY <1>3 DEF Length
    <3> QED BY <1>2, <3>1
  <2>2. position + 1 = Lesser(Due.start + (k + 1), Len(stream)) /\ Due.start + (k + 1) <= Len(stream)
    BY <1>2, <1>3 DEF Lesser
  <2> QED BY <1>5, <1>6, <1>8, <2>1, <2>2 DEF AtNumber
<1>11. InMethod(Due, stream, position + 1, buffer, locals)
  <2>1. locals.name \notin {"str0", "text"}
    BY <1>8 DEF Lebs
  <2> QED BY <1>1, <1>4, <1>8, <1>10, <2>1 DEF InMethod
<1>12. locals.name # "none" /\ 1 \in Nat
  BY <1>8 DEF Lebs
<1> QED BY <1>1, <1>2, <1>4, <1>8, <1>9, <1>11, <1>12, ContinueKeeps

LEMMA NumberReturns ==
  ASSUME IInv, method.name \in Lebs, ~AtEnd, LastChunk(Next8),
         NEW value, value = Due.value, Return(value, 1, membuffer)
  PROVE  IInv'
<1>1. reading /\ Len(got) < Len(written) /\ InMethod(Due, stream, position, membuffer, method)
  BY ChunkComes
<1>2. PICK k \in Nat :
        position = Due.start + k /\ position + 1 <= Len(stream) /\ k + 1 = Length(Due)
  BY ChunkComes
<1>3. ItemIn(Due, stream) /\ Due.start \in Nat /\ Due.text \in Nat /\ Due.end \in Nat /\ Len(stream) \in Nat
  BY <1>1, DueIs
<1>4. Due.kind \in Lebs /\ Due.end = Due.text /\ Due.value \in Word
  BY <1>1, <1>3 DEF InMethod, ItemIn
<1>5. position + 1 = Due.end /\ Due.end <= Len(stream)
  BY <1>2, <1>3, <1>4 DEF Length
<1>6. position + 1 = Lesser(Due.end, Len(stream)) /\ ~(Due.end > Len(stream))
  BY <1>3, <1>5 DEF Lesser
<1>7. PICK buffer \in Buffers : buffer = membuffer /\ buffer.position <= Len(buffer.bytes)
  BY SeekIs
<1>8. Return(value, 1, buffer) /\ 1 \in Nat
  BY <1>7
<1>9. value \in IF Due.kind \in Lebs THEN Word ELSE Seq(Byte)
  BY <1>4
<1> QED BY <1>1, <1>6, <1>7, <1>8, <1>9, ReturnKeeps

LEMMA ReadChunkUKeeps ==
  ASSUME IInv, ReadChunkU
  PROVE  IInv'
<1>1. method.name \in {"u64", "length"} /\ method.name \in Lebs \cup {"length"} /\ ~AtEnd
  BY DEF ReadChunkU, Runs, Lebs
<1>2. /\ reading /\ Len(got) < Len(written) /\ WordIn(Due) \in Word
      /\ InMethod(Due, stream, position, membuffer, method)
  BY <1>1, ChunkComes
<1>3. PICK k \in Nat :
        /\ position = Due.start + k /\ position + 1 <= Len(stream)
        /\ Gathered = Low(WordIn(Due), k + 1)
        /\ LastChunk(Next8) <=> k + 1 = Length(Due)
  BY <1>1, ChunkComes
<1>4. Due.kind # "i64" /\ Due.kind \in Numbers /\ (method.name = "u64" => Due.kind = "u64")
      /\ (method.name = "length" => Due.kind = "strN" /\ membuffer.position = 0)
  BY <1>1, <1>2 DEF InMethod, Numbers, Lebs
<1>5. ItemIn(Due, stream) /\ Due.start \in Nat /\ Due.text \in Nat /\ Due.end \in Nat /\ Len(stream) \in Nat
  BY <1>2, DueIs
<1>6. ASSUME LastChunk(Next8)
      PROVE  Gathered = WordIn(Due)
  <2>1. Fits(Due.kind, WordIn(Due), k + 1)
    BY <1>3, <1>4, <1>5, <1>6 DEF ItemIn, NumberIn
  <2> QED BY <1>2, <1>3, <1>4, <2>1, WholeU
<1>7. CASE LastChunk(Next8) /\ method.name = "u64"
  <2>1. Gathered = Due.value
    BY <1>4, <1>6, <1>7 DEF WordIn
  <2>2. method.name \in Lebs
    BY <1>7 DEF Lebs
  <2>3. PICK value : value = Gathered
    OBVIOUS
  <2>4. Return(value, 1, membuffer)
    BY <1>7, <2>3 DEF ReadChunkU
  <2> QED BY <1>1, <1>7, <2>1, <2>2, <2>3, <2>4, NumberReturns
<1>8. CASE LastChunk(Next8) /\ method.name # "u64"
  <2>1. Due.kind = "strN" /\ membuffer.position = 0
    BY <1>1, <1>4, <1>8
  <2>2. Due.value \in Texts
    BY <1>5, <2>1 DEF ItemIn, Lebs
  <2>3. PICK len \in Nat : len = Len(Due.value) /\ len \in 0 .. MaxText
    BY <2>2, TextIs
  <2>4. LengthOf(Gathered) = len
    <3>1. Gathered = WordOf[len]
      BY <1>6, <1>8, <2>1, <2>3 DEF WordIn
    <3> QED BY <2>3, <3>1, LengthIs
  <2>5. PICK locals \in Methods : locals = ReadText(len)
    BY ReadTextIs
  <2>6. locals.name = "text" /\ locals.len = len /\ Len(locals.buffer) = BufferSize
    BY <2>5, ReadTextIs
  <2>7. PICK buffer \in Buffers : buffer = membuffer /\ buffer.position <= Len(buffer.bytes)
    BY SeekIs
  <2>8. Continue(locals, 1, buffer)
    BY <1>8, <2>4, <2>5, <2>7 DEF ReadChunkU
  <2>9. position + 1 = Due.text
    BY <1>3, <1>5, <1>8 DEF Length
  <2>10. AtSlice(Due, stream, position + 1, buffer, locals)
    <3>1. position + 1 = Lesser(Due.text + buffer.position, Len(stream))
      BY <1>3, <1>5, <2>1, <2>7, <2>9 DEF Lesser
    <3> QED BY <2>1, <2>3, <2>6, <2>7, <3>1 DEF AtSlice
  <2>11. InMethod(Due, stream, position + 1, buffer, locals)
    BY <2>1, <2>6, <2>10 DEF InMethod, Lebs
  <2>12. locals.name # "none" /\ 1 \in Nat
    BY <2>6
  <2> QED BY <1>2, <1>3, <2>7, <2>8, <2>11, <2>12, ContinueKeeps
<1>9. CASE ~LastChunk(Next8)
  <2>1. Continue([method EXCEPT !.value = Gathered, !.shift = @ + ChunkBits], 1, membuffer)
    BY <1>9 DEF ReadChunkU
  <2> QED BY <1>1, <1>9, <2>1, ChunkKeeps
<1> QED BY <1>7, <1>8, <1>9

LEMMA ReadChunkIKeeps ==
  ASSUME IInv, ReadChunkI
  PROVE  IInv'
<1>1. method.name = "i64" /\ method.name \in Lebs /\ method.name \in Lebs \cup {"length"} /\ ~AtEnd
  BY DEF ReadChunkI, Runs, Lebs
<1>2. /\ reading /\ Len(got) < Len(written) /\ WordIn(Due) \in Word
      /\ InMethod(Due, stream, position, membuffer, method)
  BY <1>1, ChunkComes
<1>3. PICK k \in Nat :
        /\ k < MaxChunks /\ method.shift = At(k) /\ Gathered = Low(WordIn(Due), k + 1)
        /\ LastChunk(Next8) <=> k + 1 = Length(Due)
        /\ LastChunk(Next8) => Next8 = Chunk(Due.kind, WordIn(Due), k)
  BY <1>1, ChunkComes
<1>4. Due.kind = "i64" /\ Due.kind \in Numbers /\ WordIn(Due) = Due.value
  BY <1>1, <1>2 DEF InMethod, Numbers, WordIn
<1>5. ItemIn(Due, stream)
  BY <1>2, DueIs
<1>6. CASE LastChunk(Next8)
  <2>1. Fits("i64", Due.value, k + 1)
    BY <1>3, <1>4, <1>5, <1>6 DEF ItemIn, NumberIn
  <2>2. method.shift + ChunkBits = At(k + 1)
    BY <1>3, AtFacts
  <2>3. PICK value : value = Extended(Gathered, method.shift + ChunkBits, Next8)
    OBVIOUS
  <2>4. value = Extended(Low(Due.value, k + 1), At(k + 1), Chunk("i64", Due.value, k))
    BY <1>3, <1>4, <1>6, <2>2, <2>3
  <2>5. value = Due.value
    BY <1>2, <1>3, <1>4, <2>1, <2>4, WholeI
  <2>6. Return(value, 1, membuffer)
    BY <1>6, <2>3 DEF ReadChunkI
  <2> QED BY <1>1, <1>6, <2>5, <2>6, NumberReturns
<1>7. CASE ~LastChunk(Next8)
  <2>1. Continue([method EXCEPT !.value = Gathered, !.shift = @ + ChunkBits], 1, membuffer)
    BY <1>7 DEF ReadChunkI
  <2> QED BY <1>1, <1>7, <2>1, ChunkKeeps
<1> QED BY <1>6, <1>7

-------------------------------------------------------------------------------
(* Reading: strings. *)

LEMMA ReadByteKeeps ==
  ASSUME IInv, ReadByte
  PROVE  IInv'
<1>1. method.name = "str0" /\ ~AtEnd
  BY DEF ReadByte, Runs
<1>2. reading /\ Len(got) < Len(written) /\ Due.kind = "str0" /\ AtByte(Due, stream, position, membuffer)
  BY <1>1 DEF IInv, BeingRead, InMethod
<1>3. /\ ItemIn(Due, stream) /\ Due.start \in Nat /\ Due.text \in Nat /\ Due.end \in Nat
      /\ stream \in Seq(Byte) /\ Len(stream) \in Nat /\ position \in 0 .. Len(stream) /\ method \in Methods
  BY <1>2, DueIs
<1>4. /\ Due.value \in Texts /\ TextIn(Due, stream) /\ Due.end = Due.text + Len(Due.value) + 1
      /\ Due.end <= Len(stream) => stream[Due.end] = {}
      /\ \A k \in 1 .. Len(Due.value) : Due.value[k] # {}
  BY <1>2, <1>3 DEF ItemIn, Lebs
<1>5. Due.value \in Seq(Byte) /\ Len(Due.value) \in Nat
  BY <1>4, TextIs
<1>6. PICK buffer \in Buffers : buffer = membuffer /\ buffer.position <= Len(buffer.bytes)
  BY SeekIs
<1>7. PICK n \in Nat : n = buffer.position
  BY DEF Buffers
<1>8. n <= Len(Due.value) /\ (\A k \in 1 .. n : buffer.bytes[k] = Due.value[k])
      /\ position = Due.text + n /\ position + 1 <= Len(stream)
  BY <1>1, <1>2, <1>3, <1>6, <1>7 DEF AtByte, AtEnd, Lesser
<1>9. Next8 = stream[position + 1] /\ Next8 \in Byte
  BY <1>3, <1>8 DEF Next8
<1>10. CASE n = Len(Due.value)
  <2>1. position + 1 = Due.end /\ Due.end <= Len(stream)
    BY <1>4, <1>5, <1>8, <1>10
  <2>2. Next8 = {}
    BY <1>4, <1>9, <2>1
  <2>3. PICK value : value = GetString(buffer)
    OBVIOUS
  <2>4. value \in Seq(Byte) /\ Len(value) = n /\ \A k \in 1 .. n : value[k] = buffer.bytes[k]
    BY <1>6, <1>7, <2>3, GetStringIs
  <2>5. value = Due.value
    <3>1. \A k \in 1 .. Len(value) : value[k] = Due.value[k]
      BY <1>8, <2>4
    <3> QED BY <1>5, <1>10, <2>4, <3>1, SameBytes
  <2>6. Return(value, 1, buffer)
    BY <1>6, <2>2, <2>3 DEF ReadByte
  <2>7. value \in IF Due.kind \in Lebs THEN Word ELSE Seq(Byte)
    BY <1>2, <2>4 DEF Lebs
  <2>8. position + 1 = Lesser(Due.end, Len(stream)) /\ ~(Due.end > Len(stream)) /\ 1 \in Nat
    BY <1>3, <2>1 DEF Lesser
  <2> QED BY <1>2, <1>6, <2>5, <2>6, <2>7, <2>8, ReturnKeeps
<1>11. CASE n < Len(Due.value)
  <2>1. n + 1 \in 1 .. Len(Due.value)
    BY <1>5, <1>11
  <2>2. Next8 = Due.value[n + 1]
    <3>1. Due.text + (n + 1) <= Len(stream) /\ Due.text + (n + 1) = position + 1
      BY <1>3, <1>8
    <3> QED BY <1>4, <1>9, <2>1, <3>1 DEF TextIn
  <2>3. Next8 # {}
    BY <1>4, <2>1, <2>2
  <2>4. PICK text : text = <<Next8>>
    OBVIOUS
  <2>5. text \in Seq(Byte) /\ Len(text) = 1 /\ text[1] = Next8
    BY <1>9, <2>4
  <2>6. PICK new : new = Written(buffer, text)
    OBVIOUS
  <2>7. /\ new \in Buffers /\ new.position = n + 1 /\ new.position <= Len(new.bytes)
        /\ \A k \in 1 .. n : new.bytes[k] = buffer.bytes[k]
        /\ \A k \in 1 .. 1 : new.bytes[n + k] = text[k]
    <3>1. /\ new \in Buffers /\ new.position = n + Len(text) /\ new.position <= Len(new.bytes)
          /\ \A k \in 1 .. n : new.bytes[k] = buffer.bytes[k]
          /\ \A k \in 1 .. Len(text) : new.bytes[n + k] = text[k]
      BY <1>6, <1>7, <2>5, <2>6, WrittenIs
    <3> QED BY <2>5, <3>1
  <2>8. \A k \in 1 .. n + 1 : new.bytes[k] = Due.value[k]
    <3>1. ASSUME NEW k \in 1 .. n + 1
          PROVE  new.bytes[k] = Due.value[k]
      <4>1. CASE k \in 1 .. n
        BY <1>8, <2>7, <4>1
      <4>2. CASE k = n + 1
        BY <2>2, <2>5, <2>7, <4>2
      <4> QED BY <4>1, <4>2
    <3> QED BY <3>1
  <2>9. AtByte(Due, stream, position + 1, new)
    <3>1. position + 1 = Lesser(Due.text + (n + 1), Len(stream)) /\ Due.text + (n + 1) <= Len(stream)
      BY <1>3, <1>8 DEF Lesser
    <3>2. n + 1 <= Len(Due.value)
      BY <1>5, <1>11
    <3> QED BY <2>7, <2>8, <3>1, <3>2 DEF AtByte
  <2>10. PICK locals \in Methods : locals = method
    BY <1>3
  <2>11. InMethod(Due, stream, position + 1, new, locals)
    BY <1>1, <1>2, <2>9, <2>10 DEF InMethod, Lebs
  <2>12. Continue(locals, 1, new)
    BY <1>6, <2>3, <2>4, <2>6, <2>10 DEF ReadByte
  <2>13. locals.name # "none" /\ 1 \in Nat
    BY <1>1, <2>10
  <2> QED BY <1>2, <1>8, <2>7, <2>11, <2>12, <2>13, ContinueKeeps
<1> QED BY <1>5, <1>8, <1>10, <1>11

\* In the loop of a string whose length is known.
LEMMA SliceComes ==
  ASSUME IInv, method.name = "text"
  PROVE  /\ reading /\ Len(got) < Len(written) /\ Due.kind \in {"strN", "magic"} /\ Due.kind \notin Lebs
         /\ AtSlice(Due, stream, position, membuffer, method) /\ method \in Methods
         /\ Due.text \in Nat /\ Due.end \in Nat /\ stream \in Seq(Byte) /\ Len(stream) \in Nat
         /\ position \in 0 .. Len(stream)
         /\ Due.value \in Seq(Byte) /\ Len(Due.value) \in Nat /\ Due.end = Due.text + Len(Due.value)
         /\ TextIn(Due, stream)
<1>1. reading /\ Len(got) < Len(written) /\ Due.kind \in {"strN", "magic"} /\ Due.kind \notin Lebs
      /\ AtSlice(Due, stream, position, membuffer, method)
  BY DEF IInv, BeingRead, InMethod, Lebs
<1>2. /\ ItemIn(Due, stream) /\ Due.text \in Nat /\ Due.end \in Nat /\ method \in Methods
      /\ stream \in Seq(Byte) /\ Len(stream) \in Nat /\ position \in 0 .. Len(stream)
  BY <1>1, DueIs
<1>3. Due.value \in Texts /\ TextIn(Due, stream) /\ Due.end = Due.text + Len(Due.value)
  BY <1>1, <1>2 DEF ItemIn
<1> QED BY <1>1, <1>2, <1>3, TextIs

LEMMA ReadSliceKeeps ==
  ASSUME IInv, ReadSlice
  PROVE  IInv'
<1>1. method.name = "text" /\ method.len > 0
  BY DEF ReadSlice, Runs
<1>2. /\ reading /\ Len(got) < Len(written) /\ Due.kind \in {"strN", "magic"}
      /\ AtSlice(Due, stream, position, membuffer, method) /\ method \in Methods
      /\ Due.text \in Nat /\ stream \in Seq(Byte) /\ Len(stream) \in Nat /\ position \in 0 .. Len(stream)
      /\ Due.value \in Seq(Byte) /\ Len(Due.value) \in Nat /\ TextIn(Due, stream)
  BY <1>1, SliceComes
<1>3. PICK buffer \in Buffers : buffer = membuffer /\ buffer.position <= Len(buffer.bytes)
  BY SeekIs
<1>4. PICK n \in Nat : n = buffer.position
  BY DEF Buffers
<1>5. PICK len \in Nat : len = method.len
  BY <1>2 DEF Methods
<1>6. n + len = Len(Due.value) /\ position = Lesser(Due.text + n, Len(stream))
      /\ (\A k \in 1 .. n : Due.text + k <= Len(stream) => buffer.bytes[k] = Due.value[k])
  BY <1>2, <1>3, <1>4, <1>5 DEF AtSlice
<1>7. PICK over \in Seq(Byte) : over = method.buffer /\ Len(over) = BufferSize
  BY <1>2 DEF AtSlice, Methods
<1>8. PICK c \in Nat : c = Lesser(len, BufferSize) /\ c <= len /\ c <= BufferSize
  BY TextAssumption DEF Lesser
<1>9. PICK zone \in Seq(Byte) : zone = SubSeq(over, 1, c) /\ Len(zone) = c
  <2>1. c <= Len(over) /\ Len(over) \in Nat
    BY <1>7, <1>8
  <2>2. SubSeq(over, 1, c) \in Seq(Byte) /\ Len(SubSeq(over, 1, c)) = c
    BY <2>1
  <2> QED BY <2>2
<1>10. PICK slice \in Seq(Byte) : slice = Read(zone)
  BY <1>2, ReadIs
<1>11. Len(slice) = c /\ \A k \in 1 .. c : position + k <= Len(stream) => slice[k] = stream[position + k]
  <2>1. position \in Nat /\ Len(zone) = c
    BY <1>2, <1>9
  <2> QED BY <1>2, <1>10, <2>1, ReadIs
<1>12. PICK rest \in Seq(Byte) : rest = SubSeq(over, c + 1, BufferSize) /\ Len(rest) = BufferSize - c
  <2>1. c + 1 \in Nat \ {0} /\ Len(over) \in Nat /\ c <= Len(over)
    BY <1>7, <1>8
  <2>2. SubSeq(over, c + 1, Len(over)) \in Seq(Byte) /\ Len(SubSeq(over, c + 1, Len(over))) = Len(over) - c
    BY <2>1
  <2> QED BY <1>7, <2>2
<1>13. PICK next \in Seq(Byte) : next = slice \o rest /\ Len(next) = BufferSize
  <2>1. slice \o rest \in Seq(Byte) /\ Len(slice \o rest) = c + (BufferSize - c)
    BY <1>11, <1>12, ConcatExtends
  <2>2. c + (BufferSize - c) = BufferSize
    BY TextAssumption
  <2> QED BY <2>1, <2>2
<1>14. PICK locals : locals = [method EXCEPT !.len = len - c, !.buffer = next]
  OBVIOUS
<1>15. locals \in Methods /\ locals.name = "text" /\ locals.len = len - c /\ locals.buffer = next
  <2>1. len - c \in Nat
    BY <1>8
  <2> QED BY <1>1, <1>2, <1>14, <2>1 DEF Methods
<1>16. PICK new : new = Written(buffer, slice)
  OBVIOUS
<1>17. /\ new \in Buffers /\ new.position = n + c /\ new.position <= Len(new.bytes)
       /\ \A k \in 1 .. n : new.bytes[k] = buffer.bytes[k]
       /\ \A k \in 1 .. c : new.bytes[n + k] = slice[k]
  BY <1>3, <1>4, <1>11, <1>16, WrittenIs
<1>18. PICK count \in Nat :
         /\ count = Delivered(c)
         /\ position + count = Lesser(Due.text + n + c, Len(stream)) /\ position + count <= Len(stream)
  <2>1. PICK at \in Nat : at = Due.text + n
    BY <1>2
  <2> QED BY <1>2, <1>6, <2>1, DeliveredIs
<1>19. Continue(locals, count, new)
  <2>1. Lesser(method.len, BufferSize) = c
    BY <1>5, <1>8
  <2>2. Read(SubSeq(method.buffer, 1, Lesser(method.len, BufferSize))) = slice
    BY <1>7, <1>9, <1>10, <2>1
  <2> QED BY <1>3, <1>5, <1>7, <1>11, <1>12, <1>13, <1>14, <1>16, <1>18, <2>2 DEF ReadSlice
<1>20. ASSUME NEW k \in 1 .. n + c, Due.text + k <= Len(stream)
       PROVE  new.bytes[k] = Due.value[k]
  <2>1. CASE k \in 1 .. n
    BY <1>6, <1>17, <1>20, <2>1
  <2>2. CASE k \notin 1 .. n
    <3>1. PICK j \in 1 .. c : k = n + j
      <4>1. k - n \in 1 .. c /\ k = n + (k - n)
        BY <2>2
      <4> QED BY <4>1
    <3>2. position = Due.text + n
      BY <1>2, <1>6, <1>20, <3>1 DEF Lesser
    <3>3. position + j = Due.text + k
      BY <1>2, <3>1, <3>2
    <3>4. new.bytes[k] = stream[Due.text + k]
      BY <1>11, <1>17, <1>20, <3>1, <3>3
    <3>5. k \in 1 .. Len(Due.value)
      <4>1. n + len = Len(Due.value) /\ c <= len /\ j <= c /\ j >= 1
        BY <1>6, <1>8, <3>1
      <4>2. n + j \in 1 .. n + len
        BY <3>1, <4>1
      <4> QED BY <3>1, <4>1, <4>2
    <3> QED BY <1>2, <1>20, <3>4, <3>5 DEF TextIn
  <2> QED BY <2>1, <2>2
<1>21. AtSlice(Due, stream, position + count, new, locals)
  <2>1. new.position + locals.len = Len(Due.value)
    BY <1>6, <1>8, <1>15, <1>17
  <2>2. Due.text + n + c = Due.text + new.position
    BY <1>2, <1>17
  <2> QED BY <1>13, <1>15, <1>17, <1>18, <1>20, <2>1, <2>2 DEF AtSlice
<1>22. InMethod(Due, stream, position + count, new, locals)
  BY <1>2, <1>15, <1>21 DEF InMethod, Lebs
<1> QED BY <1>2, <1>15, <1>17, <1>18, <1>19, <1>22, ContinueKeeps

LEMMA ReturnStringKeeps ==
  ASSUME IInv, ReturnString
  PROVE  IInv'
<1>1. method.name = "text" /\ method.len <= 0
  BY DEF ReturnString, Runs
<1>2. /\ reading /\ Len(got) < Len(written) /\ Due.kind \in {"strN", "magic"} /\ Due.kind \notin Lebs
      /\ AtSlice(Due, stream, position, membuffer, method) /\ method \in Methods
      /\ Due.text \in Nat /\ Due.end \in Nat /\ Len(stream) \in Nat /\ position \in 0 .. Len(stream)
      /\ Due.value \in Seq(Byte) /\ Len(Due.value) \in Nat /\ Due.end = Due.text + Len(Due.value)
  BY <1>1, SliceComes
<1>3. PICK buffer \in Buffers : buffer = membuffer /\ buffer.position <= Len(buffer.bytes)
  BY SeekIs
<1>4. buffer.position \in Nat /\ method.len \in Nat
  BY <1>2 DEF Buffers, Methods
<1>5. buffer.position = Len(Due.value) /\ position = Lesser(Due.end, Len(stream))
      /\ (\A k \in 1 .. Len(Due.value) : Due.text + k <= Len(stream) => buffer.bytes[k] = Due.value[k])
  <2>1. buffer.position + method.len = Len(Due.value) /\ position = Lesser(Due.text + buffer.position, Len(stream))
        /\ (\A k \in 1 .. buffer.position : Due.text + k <= Len(stream) => buffer.bytes[k] = Due.value[k])
    BY <1>2, <1>3 DEF AtSlice
  <2>2. buffer.position = Len(Due.value)
    BY <1>1, <1>2, <1>4, <2>1
  <2> QED BY <1>2, <2>1, <2>2
<1>6. PICK value : value = GetString(buffer)
  OBVIOUS
<1>7. value \in Seq(Byte) /\ Len(value) = Len(Due.value)
      /\ \A k \in 1 .. Len(Due.value) : value[k] = buffer.bytes[k]
  BY <1>3, <1>5, <1>6, GetStringIs
<1>8. ASSUME Due.end <= Len(stream)
      PROVE  value = Due.value
  <2>1. ASSUME NEW k \in 1 .. Len(value)
        PROVE  value[k] = Due.value[k]
    <3>1. Due.text + k <= Len(stream)
      BY <1>2, <1>7, <1>8
    <3> QED BY <1>5, <1>7, <3>1
  <2> QED BY <1>2, <1>7, <2>1, SameBytes
<1>9. Return(value, 0, buffer)
  BY <1>3, <1>6 DEF ReturnString
<1>10. position + 0 = Lesser(Due.end, Len(stream)) /\ 0 \in Nat
  BY <1>2, <1>5
<1>11. Due.kind \in {"strN", "fixed", "magic"} /\ value \in IF Due.kind \in Lebs THEN Word ELSE Seq(Byte)
  BY <1>2, <1>7
<1> QED BY <1>2, <1>3, <1>7, <1>8, <1>9, <1>10, <1>11, ReturnKeeps

LEMMA FailedKeeps ==
  ASSUME IInv, failed' \in BOOLEAN, UNCHANGED <<file, position, membuffer, method, got>>
  PROVE  IInv'
<1>1. UNCHANGED <<written, writing, stream, reading, position, membuffer, method, got>>
  BY DEF file
<1>2. TypeOK'
  BY <1>1 DEF IInv, TypeOK
<1>3. FileWritten' /\ BeingWritten'
  BY FileKept
<1>4. BeingRead'
  BY <1>1 DEF IInv, BeingRead, Due, EndOf
<1>5. BeenRead'
  BY <1>1 DEF IInv, BeenRead, ReadBack, CutNoticed, Whole
<1> QED BY <1>2, <1>3, <1>4, <1>5 DEF IInv

-------------------------------------------------------------------------------
(* Every step. *)

LEMMA WritesKeep ==
  ASSUME IInv, \/ \E v \in Word : WriteLebU(v) \/ WriteLebI(v)
               \/ \E s \in Texts : WriteStr0(s) \/ WriteStrN(s) \/ WriteT(s) \/ WriteMagic(s)
  PROVE  IInv'
<1>1. ASSUME NEW v \in Word, WriteLebU(v)
      PROVE  IInv'
  BY <1>1, WriteLebKeeps DEF WriteLebU, Numbers, Lebs
<1>2. ASSUME NEW v \in Word, WriteLebI(v)
      PROVE  IInv'
  BY <1>2, WriteLebKeeps DEF WriteLebI, Numbers, Lebs
<1>3. ASSUME NEW s \in Texts, WriteStr0(s)
      PROVE  IInv'
  <2>1. PICK bytes : bytes = s \o <<{}>>
    OBVIOUS
  <2>2. (\A k \in DOMAIN s : s[k] # {}) /\ Write("str0", s, bytes)
    BY <1>3, <2>1 DEF WriteStr0
  <2> QED BY <2>1, <2>2, WriteKeeps
<1>4. ASSUME NEW s \in Texts, WriteStrN(s)
      PROVE  IInv'
  <2>1. PICK word \in Word : word = WordOf[Len(s)]
    BY TextIs, LengthIs
  <2>2. WriteLeb("strN", s, word)
    BY <1>4, <2>1 DEF WriteStrN
  <2>3. "strN" \in Numbers /\ "strN" \notin Lebs
    BY DEF Numbers, Lebs
  <2> QED BY <2>1, <2>2, <2>3, WriteLebKeeps
<1>5. ASSUME NEW s \in Texts, WriteT(s)
      PROVE  IInv'
  BY <1>5, WriteKeeps DEF WriteT
<1>6. ASSUME NEW s \in Texts, WriteMagic(s)
      PROVE  IInv'
  BY <1>6, WriteKeeps DEF WriteMagic
<1> QED BY <1>1, <1>2, <1>3, <1>4, <1>5, <1>6

LEMMA StepKeeps ==
  ASSUME IInv, [Next]_vars
  PROVE  IInv'
<1>1. CASE \/ \E v \in Word : WriteLebU(v) \/ WriteLebI(v)
           \/ \E s \in Texts : WriteStr0(s) \/ WriteStrN(s) \/ WriteT(s) \/ WriteMagic(s)
  BY <1>1, WritesKeep
<1>2. CASE WriteChunkU
  BY <1>2, WriteChunkUKeeps
<1>3. CASE WriteChunkI
  BY <1>3, WriteChunkIKeeps
<1>4. CASE StartReading
  BY <1>4, StartReadingKeeps
<1>5. CASE ReadU64Leb \/ ReadI64Leb \/ ReadStrN
  BY <1>5, ReadLebKeeps
<1>6. CASE ReadStr0
  BY <1>6, ReadStr0Keeps
<1>7. CASE ReadStrl
  BY <1>7, ReadStrlKeeps
<1>8. CASE ReadT
  BY <1>8, ReadTKeeps
<1>9. CASE ReadChunkU
  BY <1>9, ReadChunkUKeeps
<1>10. CASE ReadChunkI
  BY <1>10, ReadChunkIKeeps
<1>11. CASE ReadByte
  BY <1>11, ReadByteKeeps
<1>12. CASE ReadSlice
  BY <1>12, ReadSliceKeeps
<1>13. CASE ReturnString
  BY <1>13, ReturnStringKeeps
<1>14. CASE ReadU8AtEnd
  BY <1>14, FailedKeeps DEF ReadU8AtEnd, EndOfStream
<1>15. CASE Ended \/ UNCHANGED vars
  <2>1. UNCHANGED <<file, position, membuffer, method, got>> /\ failed' = failed
    BY <1>15 DEF Ended, vars, file
  <2>2. failed' \in BOOLEAN
    BY <2>1 DEF IInv, TypeOK
  <2> QED BY <2>1, <2>2, FailedKeeps
<1> QED BY <1>1, <1>2, <1>3, <1>4, <1>5, <1>6, <1>7, <1>8, <1>9, <1>10, <1>11, <1>12, <1>13, <1>14,
   <1>15 DEF Next

-------------------------------------------------------------------------------
(* The theorems. *)

\* At every iteration of every loop what is written, what is read and what the
\* locals of the methods hold fit each other (BinWriter.cs, BinReader.cs).
THEOREM Invariance == Spec => []IInv
<1>1. Init => IInv
  BY Start
<1>2. IInv /\ [Next]_vars => IInv'
  BY StepKeeps
<1> QED BY <1>1, <1>2, PTL DEF Spec

\* The reader stays in the stream, GetString takes what is in membuffer, and what
\* is returned has the type of the method that was called.
THEOREM TypeCorrect == Spec => []TypeOK
<1>1. IInv => TypeOK
  BY DEF IInv
<1> QED BY <1>1, Invariance, PTL

\* For words of every width in chunks of every width, texts of every length and
\* buffers of every size: what BinWriter or a padding encoder of LEB128 writes,
\* BinReader reads, whatever it read before, as long as it is in the file.
THEOREM WrittenIsRead == Spec => []ReadBack
<1>1. IInv => ReadBack
  BY DEF IInv, BeenRead
<1> QED BY <1>1, Invariance, PTL

\* After every call the reader is where the item ends or the file does: no
\* padding of LEB128, no slice of a string makes it stop early or go too far.
THEOREM ReaderInStep == Spec => []InStep
<1>1. IInv => InStep
  <2>1. ASSUME IInv, got # <<>>, method.name = "none"
        PROVE  position = Lesser(written[Len(got)].end, Len(stream))
    <3>1. got \in Seq(Word \cup Seq(Byte))
      BY <2>1 DEF IInv, BeenRead
    <3>2. Len(got) # 0
      BY <2>1, <3>1
    <3>3. position = Lesser(EndOf(Len(got)), Len(stream))
      BY <2>1 DEF IInv, BeingRead
    <3> QED BY <3>2, <3>3 DEF EndOf
  <2> QED BY <2>1 DEF InStep
<1> QED BY <1>1, Invariance, PTL

\* A file that was cut is noticed (the checked conversion of -1 to a byte in
\* ReadU8), except by what Stream.Read fills: a number of fixed width, and the
\* characters of a string whose length is known.
THEOREM CutsAreNoticed == Spec => []CutNoticed
<1>1. IInv => CutNoticed
  BY DEF IInv, BeenRead
<1> QED BY <1>1, Invariance, PTL

===============================================================================

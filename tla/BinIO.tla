-------------------------------- MODULE BinIO ---------------------------------
(* BinReader and BinWriter: a stream of numbers and strings is written, and    *)
(* read again in the same order, from a file that may have been cut short.     *)
(* One iteration of a loop of the code is one action.                          *)
(*                                                                             *)
(* A byte and a word are the sets of their bits that are 1: there are          *)
(* ChunkBits + 1 and WordBits of them, 8 and 64 in the code.  So | is union,   *)
(* & intersection.  Strings are the bytes of their UTF-8 form.  An encoder of  *)
(* LEB128 other than BinWriter may go on with chunks that say nothing, as      *)
(* linkers do to make room.                                                    *)
EXTENDS Integers, Sequences

CONSTANTS WordBits,   \* 64 in the code
          ChunkBits,  \* 7 in the code
          BufferSize, \* 100 in the code: bytes of a string read at a time
          WordOf,     \* the word that a length is
          Chars,      \* bytes of strings
          MaxText,    \* bound: the longest string
          MaxItems    \* bound: numbers and strings in the stream

Bits == 0 .. WordBits - 1
More == ChunkBits                    \* the bit that says another chunk follows
Byte == SUBSET (0 .. More)
Word == SUBSET Bits
MaxChunks == (WordBits + ChunkBits - 1) \div ChunkBits

ASSUME WidthsAssumption == ChunkBits \in Nat \ {0} /\ WordBits \in Nat /\ WordBits > ChunkBits
ASSUME TextAssumption ==
  Chars \subseteq Byte /\ BufferSize \in Nat \ {0} /\ MaxText \in Nat /\ MaxItems \in Nat
\* Different lengths are different words.
ASSUME LengthsAssumption ==
  /\ WordOf \in [0 .. MaxText -> Word]
  /\ \A m, n \in 0 .. MaxText : WordOf[m] = WordOf[n] => m = n

Texts == UNION {[1 .. n -> Chars] : n \in 0 .. MaxText}
Lebs == {"u64", "i64"}
Kinds == Lebs \cup {"str0", "strN", "fixed", "magic"}

VARIABLES
  written,   \* what was written: kind, value and where it is in the stream
  writing,   \* WriteLeb: its locals
  stream,    \* the bytes
  reading,   \* the stream is being read, it does not change any more
  position,  \* BinReader.Position
  membuffer, \* BinReader.membuffer: its bytes and its Position
  method,    \* the method of BinReader that runs: its name and its locals
  got,       \* the values read
  failed     \* ReadU8 threw at the end of the stream

file == <<written, writing, stream, reading>>
vars == <<written, writing, stream, reading, position, membuffer, method, got, failed>>

Lesser(j, k) == IF j <= k THEN j ELSE k

NotWriting == [kind |-> "none", value |-> <<>>, rest |-> {}, start |-> 0, chunks |-> 0]
Locals(name, len, buffer) ==
  [name |-> name, value |-> {}, shift |-> 0, len |-> len, buffer |-> buffer]
Starts(name) == Locals(name, 0, <<>>)
NoMethod == Starts("none")

Init ==
  /\ written = <<>> /\ writing = NotWriting /\ stream = <<>> /\ reading = FALSE
  /\ position = 0 /\ membuffer = [bytes |-> <<>>, position |-> 0]
  /\ method = NoMethod /\ got = <<>> /\ failed = FALSE

-------------------------------------------------------------------------------
(* Bits. *)

\* & 0x7f and & 0x40
Payload(x) == x \cap 0 .. ChunkBits - 1
SignBit(x) == ChunkBits - 1 \in x

\* A shift to the left takes its count modulo the width of the word.
Shl(x, count) == {i \in Bits : i - (count % WordBits) \in x}
\* value >>= 7 of a ulong, and of a long, where the sign comes in.
ShrU(x) == {i \in Bits : i + ChunkBits \in x}
ShrI(x) == {i \in Bits : (IF i + ChunkBits < WordBits THEN i + ChunkBits ELSE WordBits - 1) \in x}

-------------------------------------------------------------------------------
(* Writing. *)

CanWrite == ~reading /\ writing.kind = "none" /\ Len(written) < MaxItems
Reader == <<position, membuffer, method, got, failed>>

\* An item of the stream: its bytes from start to end, those of its text from text.
Item(kind, value, start, text, end) ==
  [kind |-> kind, value |-> value, start |-> start, text |-> text, end |-> end]

Write(kind, value, bytes) ==
  /\ CanWrite
  /\ stream' = stream \o bytes
  /\ written' = Append(written, Item(kind, value, Len(stream), Len(stream), Len(stream) + Len(bytes)))
  /\ UNCHANGED <<writing, reading, Reader>>

\* Write<T>: a number of fixed width, as the bytes it has.
WriteT(s) == Write("fixed", s, s)
\* The magic bytes at the beginning of a module.
WriteMagic(s) == written = <<>> /\ Write("magic", s, s)
\* A string that has no 0 in it.
WriteStr0(s) == (\A k \in DOMAIN s : s[k] # {}) /\ Write("str0", s, s \o <<{}>>)

\* WriteLeb of a number, or of the length of a string that follows.
WriteLeb(kind, value, word) ==
  /\ CanWrite
  /\ writing' = [kind |-> kind, value |-> value, rest |-> word, start |-> Len(stream), chunks |-> 0]
  /\ UNCHANGED <<written, stream, reading, Reader>>
WriteLebU(v) == WriteLeb("u64", v, v)
WriteLebI(v) == WriteLeb("i64", v, v)
WriteStrN(s) == WriteLeb("strN", s, WordOf[Len(s)])

\* Its last chunk, and str.Write of the string.
WriteLast(bits) ==
  LET text == IF writing.kind = "strN" THEN writing.value ELSE <<>> IN
  /\ stream' = Append(stream, bits) \o text
  /\ written' = Append(written, Item(writing.kind, writing.value, writing.start, Len(stream) + 1,
                                     Len(stream) + 1 + Len(text)))
  /\ writing' = NotWriting
  /\ UNCHANGED <<reading, Reader>>

WriteMore(bits, next) ==
  /\ stream' = Append(stream, bits \cup {More})
  /\ writing' = [writing EXCEPT !.rest = next, !.chunks = @ + 1]
  /\ UNCHANGED <<written, reading, Reader>>

MakesRoom == writing.chunks + 1 < MaxChunks

WriteChunkU ==
  /\ writing.kind \in {"u64", "strN"}
  /\ LET next == ShrU(writing.rest) IN
     \/ next = {} /\ WriteLast(Payload(writing.rest))
     \/ (next # {} \/ MakesRoom) /\ WriteMore(Payload(writing.rest), next)

WriteChunkI ==
  /\ writing.kind = "i64"
  /\ LET next == ShrI(writing.rest)
         ends == next = (IF SignBit(writing.rest) THEN Bits ELSE {}) IN
     \/ ends /\ WriteLast(Payload(writing.rest))
     \/ (~ends \/ MakesRoom) /\ WriteMore(Payload(writing.rest), next)

\* The file is what was written, or the beginning of it.
StartReading ==
  /\ ~reading /\ writing.kind = "none"
  /\ reading' = TRUE
  /\ \E n \in 0 .. Len(stream) : stream' = SubSeq(stream, 1, n)
  /\ UNCHANGED <<written, writing, Reader>>

-------------------------------------------------------------------------------
(* Reading. *)

\* The method that the caller calls is the one for what comes next.
Due == written[Len(got) + 1]
Call(kind) ==
  reading /\ ~failed /\ method.name = "none" /\ Len(got) < Len(written) /\ Due.kind = kind
Runs(names) == ~failed /\ method.name \in names

\* ReadU8 at the end of the stream: (byte)(-1), checked.
AtEnd == position = Len(stream)
Next8 == stream[position + 1]

Return(value, count, buffer) ==
  /\ got' = Append(got, value)
  /\ position' = position + count
  /\ membuffer' = buffer
  /\ method' = NoMethod
  /\ UNCHANGED <<file, failed>>

Continue(locals, count, buffer) ==
  /\ method' = locals
  /\ position' = position + count
  /\ membuffer' = buffer
  /\ UNCHANGED <<file, got, failed>>

EndTakenForZero == Return(method.value, 0, membuffer)
EndOfStream == failed' = TRUE /\ UNCHANGED <<file, position, membuffer, method, got>>
ReadU8AtEnd == Runs(Lebs \cup {"length", "str0"}) /\ AtEnd /\ EndOfStream

\* A chunk without the bit ends a number; so does a chunk 0, which is one.
OnlyZero(chunk) == chunk = {}
LastChunk(chunk) == More \notin chunk

\* membuffer.Write; GetString takes what is before its Position.
Written(m, bytes) ==
  [bytes |-> SubSeq(m.bytes, 1, m.position) \o bytes
             \o SubSeq(m.bytes, m.position + Len(bytes) + 1, Len(m.bytes)),
   position |-> m.position + Len(bytes)]
GetString(m) == SubSeq(m.bytes, 1, m.position)
SeekForgotten(m) == m
Seek(m) == [m EXCEPT !.position = 0]

ReadU64Leb == Call("u64") /\ Continue(Starts("u64"), 0, membuffer)
ReadI64Leb == Call("i64") /\ Continue(Starts("i64"), 0, membuffer)
ReadStr0 == Call("str0") /\ Continue(Starts("str0"), 0, Seek(membuffer))
ReadStrN == Call("strN") /\ Continue(Starts("length"), 0, Seek(membuffer))

\* The loop over a string of len bytes, through a new buffer.
ReadText(len) == Locals("text", len, [k \in 1 .. BufferSize |-> {}])
\* ReadStrl, with the length its caller knows; it does not seek.
ReadStrl == Call("magic") /\ Continue(ReadText(Len(Due.value)), 0, membuffer)

\* (int)ReadU64Leb() of ReadStrN.
LengthOf(word) == CHOOSE n \in 0 .. MaxText : WordOf[n] = word

Gathered == method.value \cup Shl(Payload(Next8), method.shift)

ReadChunkU ==
  /\ Runs({"u64", "length"}) /\ ~AtEnd
  /\ IF LastChunk(Next8)
     THEN IF method.name = "u64" THEN Return(Gathered, 1, membuffer)
          ELSE Continue(ReadText(LengthOf(Gathered)), 1, membuffer)
     ELSE Continue([method EXCEPT !.value = Gathered, !.shift = @ + ChunkBits], 1, membuffer)

Extended(value, shift, chunk) ==
  IF shift < WordBits /\ SignBit(chunk) THEN value \cup Shl(Bits, shift) ELSE value

ReadChunkI ==
  /\ Runs({"i64"}) /\ ~AtEnd
  /\ IF LastChunk(Next8)
     THEN Return(Extended(Gathered, method.shift + ChunkBits, Next8), 1, membuffer)
     ELSE Continue([method EXCEPT !.value = Gathered, !.shift = @ + ChunkBits], 1, membuffer)

ReadByte ==
  /\ Runs({"str0"}) /\ ~AtEnd
  /\ IF Next8 = {} THEN Return(GetString(membuffer), 1, membuffer)
     ELSE Continue(method, 1, Written(membuffer, <<Next8>>))

\* Stream.Read: what there is goes over the beginning of the buffer.
Read(buffer) ==
  [k \in DOMAIN buffer |-> IF position + k <= Len(stream) THEN stream[position + k] ELSE buffer[k]]
Asked(count) == count
Delivered(count) == Lesser(count, Len(stream) - position)

ReadSlice ==
  /\ Runs({"text"}) /\ method.len > 0
  /\ LET slice == Read(SubSeq(method.buffer, 1, Lesser(method.len, BufferSize)))
         rest == SubSeq(method.buffer, Len(slice) + 1, BufferSize) IN
     Continue([method EXCEPT !.len = @ - Len(slice), !.buffer = slice \o rest],
              Delivered(Len(slice)), Written(membuffer, slice))
ReturnString == Runs({"text"}) /\ method.len <= 0 /\ Return(GetString(membuffer), 0, membuffer)

\* A number of fixed width, over zeros.
ReadT ==
  /\ Call("fixed")
  /\ LET zeros == [k \in DOMAIN Due.value |-> {}] IN
     Return(Read(zeros), Delivered(Len(zeros)), membuffer)

Ended ==
  /\ failed \/ (reading /\ method.name = "none" /\ Len(got) = Len(written))
  /\ UNCHANGED vars

Next ==
  \/ \E v \in Word : WriteLebU(v) \/ WriteLebI(v)
  \/ \E s \in Texts : WriteStr0(s) \/ WriteStrN(s) \/ WriteT(s) \/ WriteMagic(s)
  \/ WriteChunkU \/ WriteChunkI \/ StartReading
  \/ ReadU64Leb \/ ReadI64Leb \/ ReadStr0 \/ ReadStrN \/ ReadStrl \/ ReadT
  \/ ReadChunkU \/ ReadChunkI \/ ReadByte \/ ReadSlice \/ ReturnString \/ ReadU8AtEnd
  \/ Ended

Spec == Init /\ [][Next]_vars

-------------------------------------------------------------------------------
(* Properties. *)

\* Types of what changes while reading: what is read is bytes and words, what
\* GetString takes is in the buffer, and the reader stays in the file.
TypeOK ==
  /\ stream \in Seq(Byte) /\ position \in 0 .. Len(stream)
  /\ membuffer \in [bytes : Seq(Byte), position : Nat] /\ membuffer.position <= Len(membuffer.bytes)
  /\ method \in [name : Lebs \cup {"none", "length", "str0", "text"}, value : Word, shift : Nat,
                 len : Nat, buffer : Seq(Byte)]
  /\ \A i \in DOMAIN got : got[i] \in IF written[i].kind \in Lebs THEN Word ELSE Seq(Byte)
  /\ failed \in BOOLEAN /\ reading \in BOOLEAN

\* What is wholly in the file is read as it was written, whatever was read
\* before: all widths and paddings of LEB128, and strings of any lengths through
\* the one membuffer (UnitTests.TestReadWrite checks some).
Whole(i) == written[i].end <= Len(stream)
ReadBack == \A i \in DOMAIN got : Whole(i) => got[i] = written[i].value

\* Between two calls the reader is at the end of the last item it read, or of the file.
InStep ==
  got # <<>> /\ method.name = "none" => position = Lesser(written[Len(got)].end, Len(stream))

\* Only what is read with Stream.Read can go beyond the end of the file unseen:
\* a number of fixed width, or a string whose length is in the file.
CutNoticed ==
  \A i \in DOMAIN got : ~Whole(i) => /\ written[i].kind \in {"strN", "fixed", "magic"}
                                     /\ Len(got[i]) = Len(written[i].value)
===============================================================================

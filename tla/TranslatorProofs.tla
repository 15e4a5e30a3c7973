--------------------------- MODULE TranslatorProofs ---------------------------
(* Proofs, for every choice of types, signatures and body length, that the     *)
(* translator of Translator.tla keeps its label stack in step with the open    *)
(* constructs, that every branch lands where WebAssembly says, and that its    *)
(* type stack never runs empty.                                                *)
EXTENDS Translator, FiniteSetTheorems, SequenceTheorems, TLAPS

-------------------------------------------------------------------------------
(* Sequences. *)

\* The first n elements of a sequence.
LEMMA TakeFacts ==
  ASSUME NEW S, NEW s \in Seq(S), NEW n \in 0 .. Len(s)
  PROVE  /\ Take(s, n) \in Seq(S)
         /\ Len(Take(s, n)) = n
         /\ \A i \in 1 .. n : Take(s, n)[i] = s[i]
  BY SubSeqProperties DEF Take

\* All but the last n elements of a sequence.
LEMMA CutFacts ==
  ASSUME NEW S, NEW s \in Seq(S), NEW n \in 0 .. Len(s)
  PROVE  /\ Cut(s, n) \in Seq(S)
         /\ Len(Cut(s, n)) = Len(s) - n
         /\ \A i \in 1 .. Len(s) - n : Cut(s, n)[i] = s[i]
  <1>1. Len(s) - n \in 0 .. Len(s)
    OBVIOUS
  <1>2. Cut(s, n) = Take(s, Len(s) - n)
    BY DEF Cut, Take
  <1> QED
    BY <1>1, <1>2, TakeFacts

\* Replacing the last n elements of a sequence by those of another.
LEMMA CutAppendFacts ==
  ASSUME NEW S, NEW s \in Seq(S), NEW n \in 0 .. Len(s), NEW t \in Seq(S)
  PROVE  /\ Cut(s, n) \o t \in Seq(S)
         /\ Len(Cut(s, n) \o t) = Len(s) - n + Len(t)
  <1>1. Cut(s, n) \in Seq(S) /\ Len(Cut(s, n)) = Len(s) - n
    BY CutFacts
  <1> QED
    BY <1>1, ConcatProperties

\* Every instruction class takes no more entries off `top` than operands off the
\* stack, and leaves no fewer.
ShapeOf(i) ==
  /\ i.in \in Seq(Types) /\ i.out \in Seq(Types)
  /\ i.pushes \in Seq(Types \cup {"void"})
  /\ i.pops \in Nat /\ i.pops <= Len(i.in)
  /\ Len(i.out) + i.pops <= Len(i.pushes) + Len(i.in)

LEMMA ResultFacts ==
  ASSUME NEW r \in Results
  PROVE  r \in Seq(Types) /\ r \in Seq(Types \cup {"void"}) /\ Len(r) \in 0 .. 1
         /\ (r # <<>> => Len(r) = 1)
  <1>1. CASE r = <<>>
    BY <1>1
  <1>2. ASSUME NEW t \in Types, r = <<t>>
        PROVE  r \in Seq(Types) /\ r \in Seq(Types \cup {"void"}) /\ Len(r) = 1
    BY <1>2
  <1> QED
    BY <1>1, <1>2 DEF Results

LEMMA SigFacts ==
  ASSUME NEW s \in Sigs
  PROVE  s.params \in Seq(Types) /\ s.result \in Results
  BY SigsAssumption

LEMMA PlainShape ==
  ASSUME NEW i \in Producers \cup Consumers \cup Keepers \cup Conversions \cup ZeroTests
                    \cup Growths \cup Arithmetic
                    \cup Comparisons \cup CopySigns \cup Loads \cup Stores
  PROVE  ShapeOf(i)
  <1>1. ASSUME NEW t \in Types, NEW u \in Types
        PROVE  /\ ShapeOf(Instr(<<>>, <<t>>, 0, <<t>>))
               /\ ShapeOf(Instr(<<t>>, <<>>, 1, <<>>))
               /\ ShapeOf(Instr(<<t>>, <<t>>, 0, <<>>))
               /\ ShapeOf(Instr(<<t>>, <<u>>, 1, <<u>>))
    BY DEF ShapeOf, Instr
  <1>2. ASSUME NEW t \in Types, NEW u \in Types
        PROVE  /\ ShapeOf(Instr(<<t, t>>, <<t>>, 1, <<>>))
               /\ ShapeOf(Instr(<<t, t>>, <<u>>, 2, <<u>>))
               /\ ShapeOf(Instr(<<t, t>>, <<t>>, 0, <<>>))
    BY DEF ShapeOf, Instr
  <1>3. ASSUME NEW t \in Types
        PROVE  /\ ShapeOf(Instr(<<"i32">>, <<t>>, 0, <<t>>))
               /\ ShapeOf(Instr(<<"i32", t>>, <<>>, 1, <<>>))
    BY TypesAssumption DEF ShapeOf, Instr
  <1>4. "i32" \in Types
    BY TypesAssumption
  <1>5. CASE i \in Producers \cup Consumers \cup Keepers
    BY <1>1, <1>5 DEF Producers, Consumers, Keepers
  <1>6. CASE i \in Conversions
    <2>1. PICK p \in Types \X Types : i = Instr(<<p[1]>>, <<p[2]>>, 1, <<p[2]>>)
      BY <1>6 DEF Conversions, ConversionPairs
    <2>2. p[1] \in Types /\ p[2] \in Types
      OBVIOUS
    <2> QED
      BY <1>1, <2>1, <2>2
  <1>7. CASE i \in Arithmetic \cup Comparisons \cup CopySigns
    BY <1>2, <1>4, <1>7 DEF Arithmetic, Comparisons, CopySigns
  <1>8. CASE i \in Loads \cup Stores
    BY <1>3, <1>8 DEF Loads, Stores
  <1>9. CASE i \in ZeroTests \cup Growths
    BY <1>1, <1>4, <1>9 DEF ZeroTests, Growths
  <1> QED
    BY <1>5, <1>6, <1>7, <1>8, <1>9

LEMMA CallShape ==
  ASSUME NEW i \in Calls \cup HostCalls \cup IndirectCalls
  PROVE  ShapeOf(i)
  <1>1. ASSUME NEW s \in Sigs, i = Instr(s.params, s.result, Len(s.params), s.result)
        PROVE  ShapeOf(i)
    BY <1>1, SigFacts, ResultFacts DEF ShapeOf, Instr
  <1>2. ASSUME NEW s \in Sigs, NEW v \in VoidPushes,
               i = Instr(s.params, s.result, Len(s.params), IF s.result = <<>> THEN v ELSE s.result)
        PROVE  ShapeOf(i)
    <2>1. v \in Seq(Types \cup {"void"}) /\ Len(v) >= 0
      <3>1. CASE v = <<>>
        BY <3>1
      <3>2. CASE v = <<"void">>
        <4>1. <<"void">> \in Seq(Types \cup {"void"})
          OBVIOUS
        <4> QED
          BY <3>2, <4>1
      <3> QED
        BY <3>1, <3>2, VoidPushesAssumption
    <2>2. CASE s.result = <<>>
      BY <1>2, <2>1, <2>2, SigFacts DEF ShapeOf, Instr
    <2>3. CASE s.result # <<>>
      BY <1>2, <2>3, SigFacts, ResultFacts DEF ShapeOf, Instr
    <2> QED
      BY <2>2, <2>3
  <1>3. ASSUME NEW s \in Sigs,
               i = Instr(Append(s.params, "i32"), s.result, Len(s.params), s.result)
        PROVE  ShapeOf(i)
    <2>1. Append(s.params, "i32") \in Seq(Types) /\ Len(Append(s.params, "i32")) = Len(s.params) + 1
      BY SigFacts, TypesAssumption
    <2> QED
      BY <1>3, <2>1, SigFacts, ResultFacts DEF ShapeOf, Instr
  <1> QED
    BY <1>1, <1>2, <1>3 DEF Calls, HostCalls, IndirectCalls

-------------------------------------------------------------------------------
(* The inductive invariant. *)

\* labelStack and ctrl entry by entry, also once the body is read.
EntryOf(f) == CASE f.kind = "func" -> [start |-> NoLabel, end |-> NoLabel]
                [] f.kind = "block" -> [start |-> f.id, end |-> f.id]
                [] f.kind = "loop" -> [start |-> f.id, end |-> NoLabel]
Mirrored ==
  /\ Reading => Len(ctrl) > 0
  /\ Len(labelStack) = Len(ctrl)
  /\ \A i \in 1 .. Len(ctrl) : labelStack[i] = EntryOf(ctrl[i])

\* Constructs are nested: the function first, then by position and height.
Nested ==
  /\ \A i \in 1 .. Len(ctrl) : (ctrl[i].kind = "func" <=> i = 1) /\ (ctrl[i].id = 0 <=> i = 1)
  /\ \A i, j \in 1 .. Len(ctrl) : i < j => /\ ctrl[i].id < ctrl[j].id
                                           /\ ctrl[i].height <= ctrl[j].height

\* A branch carries the label of its target, and the label of a block waits for
\* the block's END or was appended there.
Open(b) == \E i \in 1 .. Len(ctrl) : ctrl[i].id = b.frame /\ ctrl[i].kind = "block"
Ended(b) == \E p \in 1 .. pc : <<b.frame, p>> \in ended /\ <<b.label, p>> \in placed
Aimed ==
  /\ \A b \in branches :
       /\ b.label = b.frame
       /\ b.kind = "func" <=> b.frame = 0
       /\ b.kind = "loop" => <<b.label, b.frame>> \in placed
       /\ b.kind = "block" => Open(b) \/ Ended(b)
  /\ \A i \in 1 .. Len(ctrl) : ctrl[i].kind = "loop" => <<ctrl[i].id, ctrl[i].id>> \in placed
  /\ \A x \in placed, i \in 1 .. Len(ctrl) : ctrl[i].kind = "block" => x[1] # ctrl[i].id
  /\ \A x, y \in placed : x[1] = y[1] => x = y

\* The open constructs whose result some branch has carried to their end.  Each
\* such branch left an entry more on `top` than there are operands: a BR_IF
\* because it pops nothing, a BR because it cuts the operands only.  The END
\* that resumes unreachable code uses one up.
Owing == {i \in 1 .. Len(ctrl) : Reached(ctrl[i]) /\ ctrl[i].result # <<>>}
Tracked ==
  /\ outcome # "underflow"
  /\ Reading => /\ Topmost(ctrl).height <= Len(ops)
                /\ Len(top) - Len(ops) >= Cardinality(Owing)

IInv == TypeOK /\ Mirrored /\ Nested /\ Aimed /\ Tracked

-------------------------------------------------------------------------------
(* Facts used by the steps. *)

LEMMA OwingFinite ==
  ASSUME TypeOK
  PROVE  IsFiniteSet(Owing) /\ Cardinality(Owing) \in Nat
  <1>1. Len(ctrl) \in Nat
    BY DEF TypeOK
  <1>2. IsFiniteSet(1 .. Len(ctrl))
    BY <1>1, FS_Interval
  <1>3. IsFiniteSet(Owing)
    BY <1>2, FS_Subset DEF Owing
  <1> QED
    BY <1>3, FS_CardinalityType

\* The innermost construct.
LEMMA TopmostFrame ==
  ASSUME TypeOK, Mirrored, Reading
  PROVE  /\ Len(ctrl) \in Nat \ {0}
         /\ Topmost(ctrl) = ctrl[Len(ctrl)]
         /\ Topmost(ctrl) \in Frames
         /\ Topmost(ctrl).height \in Nat /\ Topmost(ctrl).result \in Results
  <1>1. ctrl \in Seq(Frames) /\ Len(ctrl) > 0
    BY DEF TypeOK, Mirrored
  <1>2. Len(ctrl) \in Nat \ {0} /\ ctrl[Len(ctrl)] \in Frames
    BY <1>1
  <1> QED
    BY <1>2 DEF Frames, Topmost

\* Each open construct is a construct.
LEMMA FrameFacts ==
  ASSUME TypeOK, NEW i \in 1 .. Len(ctrl)
  PROVE  /\ ctrl[i] \in Frames /\ ctrl[i].id \in Positions /\ ctrl[i].height \in Nat
         /\ ctrl[i].result \in Results /\ ctrl[i].kind \in Kinds
  <1>1. ctrl[i] \in Frames
    BY DEF TypeOK
  <1> QED
    BY <1>1 DEF Frames

\* There are at least as many entries as operands.
LEMMA EntriesCover ==
  ASSUME IInv, Reading
  PROVE  Len(ops) \in Nat /\ Len(top) \in Nat /\ Len(top) >= Len(ops)
  <1>1. Len(ops) \in Nat /\ Len(top) \in Nat
    BY DEF IInv, TypeOK
  <1>2. Cardinality(Owing) \in Nat /\ Len(top) - Len(ops) >= Cardinality(Owing)
    BY OwingFinite DEF IInv, Tracked
  <1> QED
    BY <1>1, <1>2

\* Constructs, labels and branches do not change: only the operand part of the
\* invariant is left to show.
LEMMA SameStructure ==
  ASSUME IInv, Reading, pc' = pc + 1,
         UNCHANGED <<ctrl, labelStack, placed, branches, ended>>
  PROVE  Mirrored' /\ Nested' /\ Aimed' /\ Owing' = Owing
  <1>1. Mirrored' /\ Nested'
    BY DEF IInv, Mirrored, Nested, Reading, EntryOf
  <1>2. ASSUME NEW b \in branches, Open(b) \/ Ended(b)
        PROVE  (Open(b) \/ Ended(b))'
    <2>1. CASE Open(b)
      BY <2>1 DEF Open
    <2>2. CASE Ended(b)
      <3>1. PICK p \in 1 .. pc : <<b.frame, p>> \in ended /\ <<b.label, p>> \in placed
        BY <2>2 DEF Ended
      <3>2. p \in 1 .. pc'
        BY DEF IInv, TypeOK
      <3> QED
        BY <3>1, <3>2 DEF Ended
    <2> QED
      BY <1>2, <2>1, <2>2
  <1>3. Aimed'
    BY <1>2 DEF IInv, Aimed
  <1>4. Owing' = Owing
    BY DEF Owing, Reached
  <1> QED
    BY <1>1, <1>3, <1>4

\* Positions only grow, so what was typed stays typed.
LEMMA StructureTyped ==
  ASSUME TypeOK, pc' = pc + 1
  PROVE  /\ pc' \in Nat
         /\ Positions \subseteq Positions' /\ 1 .. pc \subseteq 1 .. pc'
         /\ Here \in Positions' /\ Here \in 1 .. pc' /\ NoLabel \in Positions'
         /\ ctrl \in Seq(Frames') /\ labelStack \in Seq(Entries')
         /\ placed \subseteq (1 .. pc') \X (1 .. pc')
         /\ ended \subseteq Positions' \X (1 .. pc')
         /\ branches \subseteq Branches'
  <1>1. /\ pc' \in Nat
        /\ Positions \subseteq Positions' /\ 1 .. pc \subseteq 1 .. pc'
        /\ Here \in Positions' /\ Here \in 1 .. pc' /\ NoLabel \in Positions'
    BY DEF TypeOK, Positions, Here, NoLabel
  <1>2. Frames \subseteq Frames' /\ Entries \subseteq Entries' /\ Branches \subseteq Branches'
    BY <1>1 DEF Frames, Entries, Branches
  <1>3. ctrl \in Seq(Frames) /\ labelStack \in Seq(Entries) /\ branches \subseteq Branches
    BY DEF TypeOK
  <1>4. ctrl \in Seq(Frames') /\ labelStack \in Seq(Entries')
    BY <1>2, <1>3, SeqMonotonic
  <1>5. placed \subseteq (1 .. pc') \X (1 .. pc') /\ ended \subseteq Positions' \X (1 .. pc')
    BY <1>1 DEF TypeOK
  <1> QED
    BY <1>1, <1>2, <1>3, <1>4, <1>5

-------------------------------------------------------------------------------
(* The instructions that leave the constructs alone. *)

\* Popping n entries and pushing some, when there are that many.
LEMMA PopPushFacts ==
  ASSUME IInv, Reading, NEW n \in Nat, NEW pushes \in Seq(Types \cup {"void"}),
         n <= Len(ops), PopPush(n, pushes)
  PROVE  /\ n <= Len(top)
         /\ top' \in Seq(Types \cup {"void"})
         /\ Len(top') = Len(top) - n + Len(pushes)
  <1>1. Len(ops) \in Nat /\ Len(top) \in Nat /\ Len(top) >= Len(ops)
    BY EntriesCover
  <1>2. n <= Len(top) /\ n \in 0 .. Len(top)
    BY <1>1
  <1>3. top' = Cut(top, n) \o pushes
    BY <1>2 DEF PopPush
  <1>4. top \in Seq(Types \cup {"void"})
    BY DEF IInv, TypeOK
  <1> QED
    BY <1>2, <1>3, <1>4, CutAppendFacts

\* Operands that are there can be taken without leaving the innermost construct.
LEMMA HasFacts ==
  ASSUME IInv, Reading, NEW s \in Seq(Types), Has(s)
  PROVE  /\ Len(s) \in 0 .. Len(ops)
         /\ Len(ops) - Len(s) >= Topmost(ctrl).height
  BY TopmostFrame DEF IInv, Has, EndsWith, TypeOK

LEMMA StraightStep ==
  ASSUME IInv, NEW i, ShapeOf(i), NEW t \in BOOLEAN, Straight(i, t)
  PROVE  IInv'
  <1>1. Reading /\ pc' = pc + 1 /\ UNCHANGED <<ctrl, labelStack, placed, branches, ended>>
    BY DEF Straight, Read, Here
  <1>2. Mirrored' /\ Nested' /\ Aimed' /\ Owing' = Owing
    BY <1>1, SameStructure
  <1>3. /\ Len(i.in) \in 0 .. Len(ops)
        /\ Len(ops) - Len(i.in) >= Topmost(ctrl).height
    BY <1>1, HasFacts DEF Straight, ShapeOf
  <1>4. ops' \in Seq(Types) /\ Len(ops') = Len(ops) - Len(i.in) + Len(i.out)
    <2>1. ops \in Seq(Types) /\ ops' = Cut(ops, Len(i.in)) \o i.out
      BY DEF IInv, TypeOK, Straight
    <2> QED
      BY <1>3, <2>1, CutAppendFacts DEF ShapeOf
  <1>5. /\ i.pops <= Len(top)
        /\ top' \in Seq(Types \cup {"void"})
        /\ Len(top') = Len(top) - i.pops + Len(i.pushes)
    <2>1. i.pops \in Nat /\ i.pops <= Len(ops)
      BY <1>3 DEF ShapeOf, IInv, TypeOK
    <2> QED
      BY <1>1, <2>1, PopPushFacts DEF Straight, ShapeOf
  <1>6. outcome' = outcome
    BY <1>5 DEF Straight
  <1>7. TypeOK'
    <2>1. exact' \in BOOLEAN /\ live' \in BOOLEAN /\ outcome' \in Outcomes
      BY <1>6 DEF Straight, IInv, TypeOK
    <2> QED
      BY <1>1, <1>4, <1>5, <2>1, StructureTyped DEF TypeOK, IInv
  <1>8. Tracked'
    <2>1. Len(ops) \in Nat /\ Len(top) \in Nat /\ Cardinality(Owing) \in Nat
      BY OwingFinite DEF IInv, TypeOK
    <2>2. Len(top) - Len(ops) >= Cardinality(Owing) /\ outcome # "underflow"
      BY <1>1 DEF IInv, Tracked
    <2>n. /\ Len(i.in) \in Nat /\ Len(i.out) \in Nat /\ Len(i.pushes) \in Nat /\ i.pops \in Nat
          /\ Len(i.out) + i.pops <= Len(i.pushes) + Len(i.in)
      <3>1. i.in \in Seq(Types) /\ i.out \in Seq(Types) /\ i.pushes \in Seq(Types \cup {"void"})
        BY DEF ShapeOf
      <3>2. Len(i.in) \in Nat /\ Len(i.out) \in Nat /\ Len(i.pushes) \in Nat
        BY <3>1
      <3> QED
        BY <3>2 DEF ShapeOf
    <2> DEFINE in == Len(i.in)  out == Len(i.out)  pops == i.pops  pushes == Len(i.pushes)
               o == Len(ops)  o2 == Len(ops')  t1 == Len(top)  t2 == Len(top')
               h == Topmost(ctrl).height
    <2>e. /\ o2 = o - in + out /\ t2 = t1 - pops + pushes /\ o - in >= h
      BY <1>3, <1>4, <1>5
    <2>h. /\ h \in Nat /\ o \in Nat /\ t1 \in Nat /\ in \in Nat /\ out \in Nat
          /\ pops \in Nat /\ pushes \in Nat /\ out + pops <= pushes + in
      BY <1>1, <2>1, <2>n, TopmostFrame DEF IInv
    <2> HIDE DEF in, out, pops, pushes, o, o2, t1, t2, h
    <2>3. t2 - o2 >= t1 - o /\ h <= o2
      BY <2>e, <2>h
    <2>4. Len(top') - Len(ops') >= Len(top) - Len(ops) /\ Topmost(ctrl).height <= Len(ops')
      BY <2>3 DEF o, o2, t1, t2, h
    <2>5. Len(ops') \in Nat /\ Len(top') \in Nat
      BY <1>4, <1>5
    <2> QED
      BY <1>1, <1>2, <1>6, <2>1, <2>2, <2>4, <2>5 DEF Tracked, Topmost
  <1> QED
    BY <1>2, <1>7, <1>8 DEF IInv

\* Numbers the invariant gives while the body is read.
LEMMA Numbers ==
  ASSUME IInv, Reading
  PROVE  /\ Len(ops) \in Nat /\ Len(top) \in Nat /\ Len(ctrl) \in Nat \ {0}
         /\ Topmost(ctrl).height \in Nat /\ Topmost(ctrl).height <= Len(ops)
         /\ Cardinality(Owing) \in Nat /\ Len(top) - Len(ops) >= Cardinality(Owing)
         /\ outcome \in Outcomes /\ outcome # "underflow"
  <1>1. /\ Len(ops) \in Nat /\ Len(top) \in Nat /\ outcome \in Outcomes
    BY DEF IInv, TypeOK
  <1>2. Cardinality(Owing) \in Nat
    BY OwingFinite DEF IInv
  <1>3. Len(ctrl) \in Nat \ {0} /\ Topmost(ctrl).height \in Nat
    BY TopmostFrame DEF IInv
  <1> QED
    BY <1>1, <1>2, <1>3 DEF IInv, Tracked

LEMMA SelectStep ==
  ASSUME IInv, Select
  PROVE  IInv'
  <1>1. Reading /\ pc' = pc + 1 /\ UNCHANGED <<ctrl, labelStack, placed, branches, ended, live, exact>>
    BY DEF Select, Read, Here
  <1>2. Mirrored' /\ Nested' /\ Aimed' /\ Owing' = Owing
    BY <1>1, SameStructure
  <1>3. PICK t \in Types : Has(<<t, t, "i32">>)
    BY DEF Select
  <1>4. 3 <= Len(ops) /\ Len(ops) - 3 >= Topmost(ctrl).height
    <2> DEFINE s == <<t, t, "i32">>
    <2>1. s \in Seq(Types) /\ Len(s) = 3 /\ Has(s)
      BY <1>3, TypesAssumption
    <2> HIDE DEF s
    <2>2. Len(s) \in 0 .. Len(ops) /\ Len(ops) - Len(s) >= Topmost(ctrl).height
      BY <1>1, <2>1, HasFacts
    <2> QED
      BY <1>1, <2>1, <2>2, Numbers
  <1>5. ops' \in Seq(Types) /\ Len(ops') = Len(ops) - 2
    <2>1. ops \in Seq(Types) /\ ops' = Cut(ops, 2) /\ 2 \in 0 .. Len(ops)
      BY <1>1, <1>4, Numbers DEF Select, IInv, TypeOK
    <2> QED
      BY <2>1, CutFacts
  <1>6. 2 <= Len(top) /\ top' \in Seq(Types \cup {"void"}) /\ Len(top') = Len(top) - 2
    <2>1. 2 \in Nat /\ 2 <= Len(ops) /\ <<>> \in Seq(Types \cup {"void"}) /\ Len(<<>>) = 0
      BY <1>1, <1>4, Numbers
    <2>2. PopPush(2, <<>>)
      BY DEF Select
    <2>3. 2 <= Len(top) /\ top' \in Seq(Types \cup {"void"}) /\ Len(top') = Len(top) - 2 + 0
      BY <1>1, <2>1, <2>2, PopPushFacts
    <2> QED
      BY <1>1, <2>3, Numbers
  <1>7. outcome' = outcome
    BY <1>6 DEF Select
  <1>8. TypeOK'
    BY <1>1, <1>5, <1>6, <1>7, StructureTyped DEF TypeOK, IInv
  <1>9. Tracked'
    BY <1>1, <1>2, <1>4, <1>5, <1>6, <1>7, Numbers DEF Tracked, Topmost
  <1> QED
    BY <1>2, <1>8, <1>9 DEF IInv

\* An exception of the translator: only the outcome changes.
LEMMA FailStep ==
  ASSUME IInv, Read, NEW reason \in Outcomes \ {"reading", "underflow"}, Fail(reason)
  PROVE  IInv'
  <1>1. Reading /\ pc' = pc + 1 /\ outcome' = reason
        /\ UNCHANGED <<ops, ctrl, live, top, labelStack, placed, branches, exact, ended>>
    BY DEF Read, Here, Fail
  <1>2. Mirrored' /\ Nested' /\ Aimed'
    BY <1>1, SameStructure
  <1>3. TypeOK'
    BY <1>1, StructureTyped DEF TypeOK, IInv
  <1>4. Tracked'
    BY <1>1 DEF Tracked, Reading
  <1> QED
    BY <1>2, <1>3, <1>4 DEF IInv

\* Cutting the operands off at the innermost construct.
LEMMA CutOffFacts ==
  ASSUME IInv, Reading, CutOff
  PROVE  /\ ops' \in Seq(Types) /\ live' \in BOOLEAN
         /\ Len(ops') = Topmost(ctrl).height
  <1>1. ops \in Seq(Types) /\ Topmost(ctrl).height \in 0 .. Len(ops)
    BY Numbers DEF IInv, TypeOK
  <1> QED
    BY <1>1, TakeFacts DEF CutOff

LEMMA CutOffStep ==
  ASSUME IInv, Read, CutOff,
         UNCHANGED <<ctrl, top, labelStack, placed, branches, outcome, exact, ended>>
  PROVE  IInv'
  <1>1. Reading /\ pc' = pc + 1
    BY DEF Read, Here
  <1>2. Mirrored' /\ Nested' /\ Aimed' /\ Owing' = Owing
    BY <1>1, SameStructure
  <1>3. ops' \in Seq(Types) /\ live' \in BOOLEAN /\ Len(ops') = Topmost(ctrl).height
    BY <1>1, CutOffFacts
  <1>4. TypeOK'
    BY <1>1, <1>3, StructureTyped DEF TypeOK, IInv
  <1>5. Tracked'
    BY <1>1, <1>2, <1>3, Numbers DEF Tracked, Topmost
  <1> QED
    BY <1>2, <1>4, <1>5 DEF IInv

-------------------------------------------------------------------------------
(* Opening and closing constructs. *)

\* BLOCK and LOOP differ in the entry and in the label LOOP appends at once.
LEMMA OpenStep ==
  ASSUME IInv, Read, NEW f, f \in Frames',
         f.kind \in {"block", "loop"}, f.id = Here, f.height = Len(ops),
         ctrl' = Append(ctrl, f), labelStack' = Append(labelStack, EntryOf(f)),
         placed' = IF f.kind = "loop" THEN placed \cup {<<Here, Here>>} ELSE placed,
         UNCHANGED <<ops, live, top, branches, outcome, exact, ended>>
  PROVE  IInv'
  <1>1. Reading /\ pc' = pc + 1 /\ Here = pc + 1 /\ pc \in Nat
    BY DEF Read, Here, IInv, TypeOK
  <1>2. /\ ctrl \in Seq(Frames') /\ labelStack \in Seq(Entries') /\ Len(labelStack) = Len(ctrl)
        /\ Len(ctrl) \in Nat \ {0}
    BY <1>1, StructureTyped, Numbers DEF IInv, Mirrored
  <1>3. EntryOf(f) \in Entries'
    BY <1>1 DEF EntryOf, Entries, Positions, Here, NoLabel
  <1>4. /\ ctrl' \in Seq(Frames') /\ Len(ctrl') = Len(ctrl) + 1
        /\ \A i \in 1 .. Len(ctrl) : ctrl'[i] = ctrl[i]
        /\ ctrl'[Len(ctrl) + 1] = f
    BY <1>2, AppendProperties
  <1>5. /\ labelStack' \in Seq(Entries') /\ Len(labelStack') = Len(ctrl) + 1
        /\ \A i \in 1 .. Len(ctrl) : labelStack'[i] = labelStack[i]
        /\ labelStack'[Len(ctrl) + 1] = EntryOf(f)
    BY <1>2, <1>3, AppendProperties
  <1>6. TypeOK'
    <2>1. placed' \subseteq (1 .. pc') \X (1 .. pc')
      BY <1>1, StructureTyped DEF IInv
    <2> QED
      BY <1>1, <1>4, <1>5, <2>1, StructureTyped DEF TypeOK, IInv
  <1>7. Mirrored'
    <2>1. ASSUME NEW i \in 1 .. Len(ctrl')
          PROVE  labelStack'[i] = EntryOf(ctrl'[i])
      <3>1. CASE i \in 1 .. Len(ctrl)
        BY <1>4, <1>5, <3>1 DEF IInv, Mirrored
      <3>2. CASE i = Len(ctrl) + 1
        BY <1>4, <1>5, <3>2
      <3> QED
        BY <1>2, <1>4, <3>1, <3>2
    <2> QED
      <3>1. Len(ctrl') > 0 /\ Len(labelStack') = Len(ctrl')
        BY <1>2, <1>4, <1>5
      <3> QED
        BY <2>1, <3>1 DEF Mirrored
  <1>8. \A i \in 1 .. Len(ctrl) : ctrl[i].id \in Positions /\ ctrl[i].height \in Nat
                               /\ ctrl[i].height <= Len(ops) /\ ctrl[i].id < Here
    <2>1. ASSUME NEW i \in 1 .. Len(ctrl)
          PROVE  /\ ctrl[i].id \in Positions /\ ctrl[i].height \in Nat
                 /\ ctrl[i].height <= Topmost(ctrl).height
      <3>1. ctrl[i] \in Frames /\ ctrl[Len(ctrl)] \in Frames
        BY <1>2 DEF IInv, TypeOK
      <3>2. i = Len(ctrl) \/ ctrl[i].height <= ctrl[Len(ctrl)].height
        BY <1>2 DEF IInv, Nested
      <3> QED
        BY <3>1, <3>2 DEF Frames, Topmost
    <2> QED
      BY <1>1, <2>1, Numbers DEF Positions
  <1>9. Nested'
    <2>1. ASSUME NEW i \in 1 .. Len(ctrl')
          PROVE  (ctrl'[i].kind = "func" <=> i = 1) /\ (ctrl'[i].id = 0 <=> i = 1)
      <3>1. CASE i \in 1 .. Len(ctrl)
        <4>1. ctrl'[i] = ctrl[i]
          BY <1>4, <3>1
        <4>2. (ctrl[i].kind = "func" <=> i = 1) /\ (ctrl[i].id = 0 <=> i = 1)
          BY <3>1 DEF IInv, Nested
        <4> QED
          BY <4>1, <4>2
      <3>2. CASE i = Len(ctrl) + 1
        BY <1>1, <1>2, <1>4, <3>2
      <3> QED
        BY <1>2, <1>4, <3>1, <3>2
    <2>2. ASSUME NEW i \in 1 .. Len(ctrl'), NEW j \in 1 .. Len(ctrl'), i < j
          PROVE  ctrl'[i].id < ctrl'[j].id /\ ctrl'[i].height <= ctrl'[j].height
      <3>1. i \in 1 .. Len(ctrl)
        BY <1>2, <1>4, <2>2
      <3>2. CASE j \in 1 .. Len(ctrl)
        BY <1>4, <2>2, <3>1, <3>2 DEF IInv, Nested
      <3>3. CASE j = Len(ctrl) + 1
        BY <1>4, <1>8, <3>1, <3>3
      <3> QED
        BY <1>2, <1>4, <3>2, <3>3
    <2> QED
      BY <2>1, <2>2 DEF Nested
  <1>10. Aimed'
    <2>1. ASSUME NEW b \in branches
          PROVE  /\ b.label = b.frame
                 /\ b.kind = "func" <=> b.frame = 0
                 /\ b.kind = "loop" => <<b.label, b.frame>> \in placed'
                 /\ b.kind = "block" => (Open(b) \/ Ended(b))'
      <3>1. ASSUME Open(b)
            PROVE  Open(b)'
        BY <1>2, <1>4, <3>1 DEF Open
      <3>2. ASSUME Ended(b)
            PROVE  Ended(b)'
        <4>1. PICK p \in 1 .. pc : <<b.frame, p>> \in ended /\ <<b.label, p>> \in placed
          BY <3>2 DEF Ended
        <4>2. p \in 1 .. pc' /\ <<b.frame, p>> \in ended' /\ <<b.label, p>> \in placed'
          BY <1>1, <4>1
        <4> QED
          BY <4>2 DEF Ended
      <3> QED
        BY <3>1, <3>2 DEF IInv, Aimed
    <2>2. ASSUME NEW i \in 1 .. Len(ctrl'), ctrl'[i].kind = "loop"
          PROVE  <<ctrl'[i].id, ctrl'[i].id>> \in placed'
      <3>1. CASE i \in 1 .. Len(ctrl)
        BY <1>4, <2>2, <3>1 DEF IInv, Aimed
      <3>2. CASE i = Len(ctrl) + 1
        BY <1>4, <2>2, <3>2
      <3>3. i \in 1 .. Len(ctrl) \/ i = Len(ctrl) + 1
        BY <1>2, <1>4
      <3> QED
        BY <3>1, <3>2, <3>3
    <2>3. \A x \in placed : x[1] \in 1 .. pc /\ x[1] # Here
      BY <1>1 DEF IInv, TypeOK
    <2>4. ASSUME NEW x \in placed', NEW i \in 1 .. Len(ctrl'), ctrl'[i].kind = "block"
          PROVE  x[1] # ctrl'[i].id
      <3>1. CASE i \in 1 .. Len(ctrl)
        <4>1. ctrl'[i] = ctrl[i] /\ ctrl[i].id # Here
          BY <1>1, <1>4, <1>8, <3>1 DEF Positions
        <4> QED
          BY <2>4, <3>1, <4>1 DEF IInv, Aimed
      <3>2. CASE i = Len(ctrl) + 1
        BY <1>4, <2>3, <2>4, <3>2
      <3> QED
        BY <1>2, <1>4, <3>1, <3>2
    <2>5. \A x, y \in placed' : x[1] = y[1] => x = y
      BY <2>3 DEF IInv, Aimed
    <2> QED
      BY <2>1, <2>2, <2>4, <2>5 DEF Aimed
  <1>11. Owing' = Owing
    <2>1. ~(\E b \in branches : b.frame = Here)
      BY <1>1 DEF IInv, TypeOK, Branches, Positions
    <2>2. ASSUME NEW i
          PROVE  i \in Owing' <=> i \in Owing
      <3>1. CASE i \in 1 .. Len(ctrl)
        BY <1>2, <1>4, <3>1 DEF Owing, Reached
      <3>2. CASE i = Len(ctrl) + 1
        BY <1>2, <1>4, <2>1, <3>2 DEF Owing, Reached
      <3> QED
        BY <1>2, <1>4, <3>1, <3>2 DEF Owing
    <2> QED
      BY <2>2 DEF Owing
  <1>12. Tracked'
    <2>1. Topmost(ctrl') = f
      BY <1>2, <1>4 DEF Topmost
    <2> QED
      BY <1>1, <1>11, <2>1, Numbers DEF Tracked
  <1> QED
    BY <1>6, <1>7, <1>9, <1>10, <1>12 DEF IInv

\* An entry that left an invariant part true leaves it true at later positions.
LEMMA EndedGrows ==
  ASSUME TypeOK, pc' = pc + 1, ended \subseteq ended', placed \subseteq placed',
         NEW b, Ended(b)
  PROVE  Ended(b)'
  <1>1. PICK p \in 1 .. pc : <<b.frame, p>> \in ended /\ <<b.label, p>> \in placed
    BY DEF Ended
  <1>2. p \in 1 .. pc' /\ <<b.frame, p>> \in ended' /\ <<b.label, p>> \in placed'
    BY <1>1 DEF TypeOK
  <1> QED
    BY <1>2 DEF Ended

LEMMA EndConstructStep ==
  ASSUME IInv, EndConstruct
  PROVE  IInv'
  <1> DEFINE n == Len(ctrl)
             f == Topmost(ctrl)
  <1>1. /\ Reading /\ pc' = pc + 1 /\ Here = pc + 1 /\ pc \in Nat
        /\ UNCHANGED <<top, branches, outcome>>
    BY DEF EndConstruct, Read, Here, IInv, TypeOK
  <1>2. /\ n \in Nat /\ n > 1 /\ Len(labelStack) = n /\ f = ctrl[n]
        /\ f \in Frames /\ f.height \in Nat /\ f.result \in Results /\ f.id \in Positions
        /\ f.kind \in {"block", "loop"} /\ f.id \in 1 .. pc
    <2>1. n \in Nat \ {0} /\ n > 1 /\ Len(labelStack) = n /\ f = ctrl[n] /\ f \in Frames
      BY <1>1, TopmostFrame DEF EndConstruct, IInv, Mirrored
    <2>2. f.kind # "func" /\ f.id # 0
      BY <2>1 DEF IInv, Nested
    <2> QED
      BY <1>1, <2>1, <2>2 DEF Frames, Kinds, Positions
  <1> HIDE DEF n, f
  <1>3. /\ ctrl' \in Seq(Frames') /\ Len(ctrl') = n - 1
        /\ \A i \in 1 .. n - 1 : ctrl'[i] = ctrl[i]
    <2>1. ctrl \in Seq(Frames') /\ 1 \in 0 .. Len(ctrl) /\ ctrl' = Cut(ctrl, 1)
      BY <1>1, <1>2, StructureTyped DEF EndConstruct, IInv, n
    <2> QED
      BY <2>1, CutFacts DEF n
  <1>4. /\ labelStack' \in Seq(Entries') /\ Len(labelStack') = n - 1
        /\ \A i \in 1 .. n - 1 : labelStack'[i] = labelStack[i]
    <2>1. /\ labelStack \in Seq(Entries') /\ 1 \in 0 .. Len(labelStack)
          /\ labelStack' = Cut(labelStack, 1)
      BY <1>1, <1>2, StructureTyped DEF EndConstruct, IInv
    <2> QED
      BY <1>2, <2>1, CutFacts
  <1>5. placed' = IF f.kind = "block" THEN placed \cup {<<f.id, Here>>} ELSE placed
    <2>1. Topmost(labelStack) = EntryOf(f)
      BY <1>2 DEF IInv, Mirrored, Topmost
    <2>2. placed' = placed \cup PlaceEnd(EntryOf(f))
      BY <2>1 DEF EndConstruct
    <2> QED
      BY <1>2, <2>2 DEF PlaceEnd, EntryOf, NoLabel
  <1>6. ended' = ended \cup {<<f.id, Here>>}
    BY DEF EndConstruct, f
  <1>7. /\ live' \in BOOLEAN /\ exact' \in BOOLEAN
        /\ ops' \in Seq(Types)
        /\ \/ live' /\ Len(ops') = f.height + Len(f.result)
           \/ ~live' /\ Len(ops') = f.height
        /\ live' <=> (live \/ Reached(f))
        /\ live => Len(ops) = f.height + Len(f.result)
    <2>1. /\ live \in BOOLEAN /\ live' = (live \/ Reached(f))
          /\ ops' = Take(ops, f.height) \o (IF live' THEN f.result ELSE <<>>)
          /\ exact' = (exact /\ live) /\ exact \in BOOLEAN
          /\ live => Len(ops) = f.height + Len(f.result)
      BY DEF EndConstruct, CanEnd, f, IInv, TypeOK
    <2>2. Take(ops, f.height) \in Seq(Types) /\ Len(Take(ops, f.height)) = f.height
      <3>1. ops \in Seq(Types) /\ f.height \in 0 .. Len(ops)
        BY <1>1, Numbers DEF IInv, TypeOK, f
      <3> QED
        BY <3>1, TakeFacts
    <2>3. f.result \in Seq(Types)
      BY <1>2, ResultFacts
    <2>4. live' \in BOOLEAN /\ (live' <=> (live \/ Reached(f)))
      <3>1. Reached(f) \in BOOLEAN
        BY DEF Reached
      <3> QED
        BY <2>1, <3>1
    <2>5. CASE live'
      <3>1. ops' = Take(ops, f.height) \o f.result
        BY <2>1, <2>5
      <3>2. ops' \in Seq(Types) /\ Len(ops') = Len(Take(ops, f.height)) + Len(f.result)
        BY <2>2, <2>3, <3>1, ConcatProperties
      <3> QED
        BY <2>1, <2>2, <2>4, <2>5, <3>2
    <2>6. CASE ~live'
      <3>1. ops' = Take(ops, f.height) \o <<>> /\ <<>> \in Seq(Types) /\ Len(<<>>) = 0
        BY <2>1, <2>6
      <3>2. ops' \in Seq(Types) /\ Len(ops') = f.height + 0
        BY <2>2, <3>1, ConcatProperties
      <3> QED
        BY <1>2, <2>1, <2>4, <2>6, <3>2
    <2> QED
      BY <2>4, <2>5, <2>6
  <1>8. TypeOK'
    <2>1. placed' \subseteq (1 .. pc') \X (1 .. pc') /\ ended' \subseteq Positions' \X (1 .. pc')
      BY <1>1, <1>2, <1>5, <1>6, StructureTyped DEF IInv
    <2> QED
      BY <1>1, <1>3, <1>4, <1>7, <2>1, StructureTyped DEF TypeOK, IInv
  <1>9. Mirrored'
    <2>1. Len(ctrl') > 0 /\ Len(labelStack') = Len(ctrl')
      BY <1>2, <1>3, <1>4
    <2>2. ASSUME NEW i \in 1 .. Len(ctrl')
          PROVE  labelStack'[i] = EntryOf(ctrl'[i])
      BY <1>2, <1>3, <1>4 DEF IInv, Mirrored, n
    <2> QED
      BY <2>1, <2>2 DEF Mirrored
  <1>10. Nested'
    <2>1. \A i \in 1 .. Len(ctrl') : i \in 1 .. Len(ctrl) /\ ctrl'[i] = ctrl[i]
      BY <1>2, <1>3 DEF n
    <2> QED
      BY <2>1 DEF IInv, Nested
  <1>11. Aimed'
    <2>1. \A i \in 1 .. Len(ctrl') : i \in 1 .. n /\ i # n /\ ctrl'[i] = ctrl[i]
      BY <1>2, <1>3
    <2>2. ASSUME NEW b \in branches'
          PROVE  /\ b.label = b.frame
                 /\ b.kind = "func" <=> b.frame = 0
                 /\ b.kind = "loop" => <<b.label, b.frame>> \in placed'
                 /\ b.kind = "block" => (Open(b) \/ Ended(b))'
      <3>1. b \in branches
        BY <1>1
      <3>2. ASSUME Ended(b)
            PROVE  Ended(b)'
        BY <1>1, <1>5, <1>6, <3>2, EndedGrows DEF IInv
      <3>3. ASSUME Open(b), b.label = b.frame
            PROVE  (Open(b) \/ Ended(b))'
        <4>1. PICK i \in 1 .. n : ctrl[i].id = b.frame /\ ctrl[i].kind = "block"
          BY <3>3 DEF Open, n
        <4>2. CASE i = n
          <5>1. f.kind = "block" /\ f.id = b.frame /\ f.id = b.label
            BY <1>2, <3>3, <4>1, <4>2
          <5>2. Here \in 1 .. pc' /\ <<b.frame, Here>> \in ended' /\ <<b.label, Here>> \in placed'
            BY <1>1, <1>5, <1>6, <5>1
          <5> QED
            BY <5>2 DEF Ended
        <4>3. CASE i # n
          <5>1. i \in 1 .. Len(ctrl') /\ ctrl'[i] = ctrl[i]
            BY <1>2, <1>3, <4>1, <4>3
          <5> QED
            BY <4>1, <5>1 DEF Open
        <4> QED
          BY <4>2, <4>3
      <3> QED
        BY <1>5, <3>1, <3>2, <3>3 DEF IInv, Aimed
    <2>3. ASSUME NEW i \in 1 .. Len(ctrl'), ctrl'[i].kind = "loop"
          PROVE  <<ctrl'[i].id, ctrl'[i].id>> \in placed'
      BY <1>5, <2>1, <2>3 DEF IInv, Aimed, n
    <2>4. ASSUME NEW x \in placed', NEW i \in 1 .. Len(ctrl'), ctrl'[i].kind = "block"
          PROVE  x[1] # ctrl'[i].id
      <3>1. CASE x \in placed
        BY <2>1, <2>4, <3>1 DEF IInv, Aimed, n
      <3>2. CASE f.kind = "block" /\ x = <<f.id, Here>>
        <4>1. i \in 1 .. n /\ i < n /\ n \in 1 .. n
          BY <1>2, <2>1
        <4>2. ctrl[i].id < f.id
          BY <1>2, <4>1 DEF IInv, Nested, n
        <4>3. ctrl[i].id \in Positions /\ f.id \in Positions
          BY <1>2, <4>1, FrameFacts DEF IInv, n
        <4> QED
          BY <1>1, <2>1, <3>2, <4>2, <4>3 DEF Positions
      <3> QED
        BY <1>5, <3>1, <3>2
    <2>5. ASSUME NEW x \in placed', NEW y \in placed', x[1] = y[1]
          PROVE  x = y
      <3>1. ASSUME f.kind = "block", NEW z \in placed
            PROVE  z[1] # f.id
        BY <1>2, <3>1 DEF IInv, Aimed, n
      <3> QED
        BY <1>5, <2>5, <3>1 DEF IInv, Aimed
    <2> QED
      BY <2>2, <2>3, <2>4, <2>5 DEF Aimed
  <1>12. Owing' = Owing \ {n}
    <2>1. \A i \in 1 .. n - 1 : Reached(ctrl[i])' <=> Reached(ctrl[i])
      BY <1>1, <1>3 DEF Reached
    <2>2. ASSUME NEW i
          PROVE  i \in Owing' <=> i \in Owing \ {n}
      BY <1>2, <1>3, <2>1 DEF Owing, n
    <2> QED
      BY <2>2
  <1>13. Tracked'
    <2>1. Topmost(ctrl') = ctrl[n - 1] /\ ctrl[n - 1].height \in Nat /\ ctrl[n - 1].height <= f.height
      <3>1. n - 1 \in 1 .. n /\ n \in 1 .. n /\ n - 1 < n /\ Topmost(ctrl') = ctrl[n - 1]
        BY <1>2, <1>3 DEF Topmost
      <3>2. ctrl[n - 1].height \in Nat
        BY <3>1, FrameFacts DEF IInv, n
      <3> QED
        BY <1>2, <3>1, <3>2 DEF IInv, Nested, n
    <2>2. Len(f.result) \in 0 .. 1 /\ (f.result # <<>> => Len(f.result) = 1)
          /\ (f.result = <<>> => Len(f.result) = 0)
      BY <1>2, ResultFacts
    <2>3. Len(ops') \in Nat /\ f.height <= Len(ops')
      BY <1>2, <1>7, <2>2
    <2>4. f.height <= Len(ops)
      BY <1>1, Numbers DEF f
    <2>5. /\ Cardinality(Owing') \in Nat
          /\ Cardinality(Owing') <= Cardinality(Owing)
          /\ n \in Owing => Cardinality(Owing') = Cardinality(Owing) - 1
      <3>1. IsFiniteSet(Owing) /\ Cardinality(Owing) \in Nat
        BY OwingFinite DEF IInv
      <3>2. IsFiniteSet(Owing \ {n}) /\ Cardinality(Owing \ {n}) \in Nat
        BY <3>1, FS_RemoveElement, FS_CardinalityType
      <3>3. Cardinality(Owing \ {n}) = IF n \in Owing THEN Cardinality(Owing) - 1 ELSE Cardinality(Owing)
        BY <3>1, FS_RemoveElement
      <3> QED
        BY <1>12, <3>1, <3>2, <3>3
    <2>6. Len(top) - Len(ops') >= Cardinality(Owing')
      <3>1. CASE live
        <4>1. Len(ops') = Len(ops)
          BY <1>7, <3>1
        <4> QED
          BY <1>1, <2>5, <4>1, Numbers
      <3>2. CASE ~live /\ ~live'
        BY <1>1, <1>2, <1>7, <2>4, <2>5, <3>2, Numbers
      <3>3. CASE ~live /\ live' /\ f.result = <<>>
        BY <1>1, <1>2, <1>7, <2>2, <2>4, <2>5, <3>3, Numbers
      <3>4. CASE ~live /\ live' /\ f.result # <<>>
        <4>1. n \in Owing
          BY <1>2, <1>7, <3>4 DEF Owing, n
        <4>2. Len(ops') = f.height + 1
          BY <1>7, <2>2, <3>4
        <4> QED
          BY <1>1, <1>2, <2>4, <2>5, <4>1, <4>2, Numbers
      <3> QED
        BY <3>1, <3>2, <3>3, <3>4
    <2> QED
      BY <1>1, <1>2, <2>1, <2>3, <2>6, Numbers DEF Tracked
  <1> QED
    BY <1>8, <1>9, <1>10, <1>11, <1>13 DEF IInv

LEMMA EndFunctionStep ==
  ASSUME IInv, EndFunction
  PROVE  IInv'
  <1>1. /\ Reading /\ pc' = pc + 1 /\ Here = pc + 1 /\ pc \in Nat
        /\ UNCHANGED <<ops, live, top, placed, branches, exact>>
        /\ outcome' = "done"
    BY DEF EndFunction, Read, Here, IInv, TypeOK
  <1>2. Len(ctrl) = 1 /\ Len(labelStack) = 1 /\ Topmost(ctrl) \in Frames
    <2>1. Len(ctrl) \in Nat \ {0} /\ Len(labelStack) = Len(ctrl) /\ Topmost(ctrl) \in Frames
      BY <1>1, TopmostFrame DEF IInv, Mirrored
    <2>2. Len(labelStack) <= 1
      BY DEF EndFunction
    <2> QED
      BY <2>1, <2>2
  <1>3. ctrl' \in Seq(Frames') /\ Len(ctrl') = 0
    <2>1. ctrl \in Seq(Frames') /\ 1 \in 0 .. Len(ctrl) /\ ctrl' = Cut(ctrl, 1)
      BY <1>1, <1>2, StructureTyped DEF EndFunction, IInv
    <2>2. ctrl' \in Seq(Frames') /\ Len(ctrl') = Len(ctrl) - 1
      BY <2>1, CutFacts
    <2> QED
      BY <1>2, <2>2
  <1>4. labelStack' \in Seq(Entries') /\ Len(labelStack') = 0
    <2>1. labelStack \in Seq(Entries') /\ labelStack # <<>> /\ labelStack' = Tail(labelStack)
      BY <1>1, <1>2, StructureTyped DEF EndFunction, IInv
    <2> QED
      BY <1>2, <2>1, HeadTailProperties
  <1>5. ended' = ended \cup {<<Topmost(ctrl).id, Here>>}
    BY DEF EndFunction
  <1>6. TypeOK'
    <2>1. ended' \subseteq Positions' \X (1 .. pc')
      BY <1>1, <1>2, <1>5, StructureTyped DEF IInv, Frames
    <2>2. outcome' \in Outcomes /\ ops' \in Seq(Types) /\ live' \in BOOLEAN /\ exact' \in BOOLEAN
          /\ top' \in Seq(Types \cup {"void"})
      BY <1>1 DEF TypeOK, IInv, Outcomes
    <2>3. placed' \subseteq (1 .. pc') \X (1 .. pc') /\ branches' \subseteq Branches' /\ pc' \in Nat
      BY <1>1, StructureTyped DEF IInv
    <2> QED
      BY <1>3, <1>4, <2>1, <2>2, <2>3 DEF TypeOK
  <1>7. Mirrored' /\ Nested'
    BY <1>1, <1>3, <1>4 DEF Mirrored, Nested, Reading
  <1>8. Aimed'
    <2>1. ASSUME NEW b \in branches, b.kind = "block"
          PROVE  Ended(b)'
      <3>1. ~Open(b)
        BY <1>2 DEF Open, IInv, Nested
      <3>2. Ended(b)
        BY <2>1, <3>1 DEF IInv, Aimed
      <3> QED
        BY <1>1, <1>5, <3>2, EndedGrows DEF IInv
    <2> QED
      BY <1>1, <1>3, <2>1 DEF IInv, Aimed
  <1>9. Tracked'
    BY <1>1 DEF Tracked, Reading
  <1> QED
    BY <1>6, <1>7, <1>8, <1>9 DEF IInv

-------------------------------------------------------------------------------
(* Branches. *)

\* What brindex selects: the construct that many levels out, and its own label.
LEMMA BranchFacts ==
  ASSUME IInv, Reading, NEW k \in Depths
  PROVE  /\ Len(ctrl) - k \in 1 .. Len(ctrl)
         /\ FrameAt(k) = ctrl[Len(ctrl) - k] /\ FrameAt(k) \in Frames
         /\ Target(k) = EntryOf(FrameAt(k)).start
         /\ Branch(k) = [frame |-> FrameAt(k).id, kind |-> FrameAt(k).kind, label |-> FrameAt(k).id]
         /\ Branch(k) \in Branches
         /\ Carried(FrameAt(k)) \in Seq(Types)
  <1>1. Len(ctrl) \in Nat \ {0} /\ Len(ctrl) - k \in 1 .. Len(ctrl)
    BY Numbers DEF Depths
  <1>2. FrameAt(k) = ctrl[Len(ctrl) - k] /\ FrameAt(k) \in Frames
    BY <1>1, FrameFacts DEF FrameAt, IInv
  <1>3. /\ FrameAt(k).kind \in Kinds /\ FrameAt(k).id \in Positions
        /\ FrameAt(k).result \in Results
    BY <1>2 DEF Frames
  <1>4. Target(k) = EntryOf(FrameAt(k)).start
    BY <1>1, <1>2 DEF Target, IInv, Mirrored
  <1>5. EntryOf(FrameAt(k)).start = FrameAt(k).id
    <2>1. FrameAt(k).kind = "func" => FrameAt(k).id = 0
      BY <1>1, <1>2 DEF IInv, Nested
    <2> QED
      BY <1>3, <2>1 DEF EntryOf, Kinds, NoLabel
  <1>6. Carried(FrameAt(k)) \in Seq(Types)
    <2>1. FrameAt(k).result \in Seq(Types) /\ <<>> \in Seq(Types)
      BY <1>3, ResultFacts
    <2> QED
      BY <2>1 DEF Carried
  <1> QED
    BY <1>1, <1>2, <1>3, <1>4, <1>5, <1>6 DEF Branch, Branches

\* Emitting branches to constructs that are open.
LEMMA BranchStructure ==
  ASSUME IInv, Reading, pc' = pc + 1, NEW K \in SUBSET Depths,
         branches' = branches \cup {Branch(k) : k \in K},
         UNCHANGED <<ctrl, labelStack, placed, ended, outcome>>
  PROVE  Mirrored' /\ Nested' /\ Aimed' /\ branches' \subseteq Branches'
  <1>1. Mirrored' /\ Nested'
    BY DEF IInv, Mirrored, Nested, Reading, EntryOf
  <1>2. branches' \subseteq Branches'
    <2>1. branches \subseteq Branches' /\ Branches \subseteq Branches'
      BY StructureTyped DEF IInv, Branches
    <2> QED
      BY <2>1, BranchFacts
  <1>3. ASSUME NEW b \in branches'
        PROVE  /\ b.label = b.frame
               /\ b.kind = "func" <=> b.frame = 0
               /\ b.kind = "loop" => <<b.label, b.frame>> \in placed
               /\ b.kind = "block" => (Open(b) \/ Ended(b))'
    <2>1. CASE b \in branches
      <3>1. ASSUME Open(b)
            PROVE  Open(b)'
        BY <3>1 DEF Open
      <3>2. ASSUME Ended(b)
            PROVE  Ended(b)'
        BY <3>2, EndedGrows DEF IInv
      <3> QED
        BY <2>1, <3>1, <3>2 DEF IInv, Aimed
    <2>2. ASSUME NEW k \in K, b = Branch(k)
          PROVE  /\ b.label = b.frame
                 /\ b.kind = "func" <=> b.frame = 0
                 /\ b.kind = "loop" => <<b.label, b.frame>> \in placed
                 /\ b.kind = "block" => Open(b)'
      <3> DEFINE j == Len(ctrl) - k
      <3>1. /\ j \in 1 .. Len(ctrl)
            /\ b = [frame |-> ctrl[j].id, kind |-> ctrl[j].kind, label |-> ctrl[j].id]
        BY <2>2, BranchFacts
      <3> HIDE DEF j
      <3>2. b.frame = ctrl[j].id /\ b.kind = ctrl[j].kind /\ b.label = ctrl[j].id
        BY <3>1
      <3>3. b.kind = "func" <=> b.frame = 0
        BY <3>1, <3>2 DEF IInv, Nested
      <3>4. b.kind = "loop" => <<b.label, b.frame>> \in placed
        BY <3>1, <3>2 DEF IInv, Aimed
      <3>5. b.kind = "block" => Open(b)'
        BY <3>1, <3>2 DEF Open
      <3> QED
        BY <3>2, <3>3, <3>4, <3>5
    <2> QED
      BY <2>1, <2>2
  <1>4. Aimed'
    BY <1>3 DEF IInv, Aimed
  <1> QED
    BY <1>1, <1>2, <1>4

\* A branch adds its target to the constructs owing an entry, if it carries a
\* result there.
LEMMA OwingGrows ==
  ASSUME IInv, Reading, NEW K \in SUBSET Depths, NEW j,
         branches' = branches \cup {Branch(k) : k \in K}, UNCHANGED ctrl,
         \A k \in K : Carried(FrameAt(k)) # <<>> => Len(ctrl) - k = j
  PROVE  Owing' \subseteq Owing \cup {j}
  <1>1. ASSUME NEW i \in Owing', i \notin Owing
        PROVE  i = j
    <2>1. /\ i \in 1 .. Len(ctrl) /\ ctrl[i].result # <<>> /\ ctrl[i].kind # "loop"
          /\ \E b \in branches' : b.frame = ctrl[i].id
          /\ ~ \E b \in branches : b.frame = ctrl[i].id
      BY <1>1 DEF Owing, Reached
    <2>2. PICK k \in K : Branch(k).frame = ctrl[i].id
      BY <2>1
    <2>3. Len(ctrl) - k \in 1 .. Len(ctrl) /\ FrameAt(k) = ctrl[Len(ctrl) - k]
          /\ ctrl[Len(ctrl) - k].id = ctrl[i].id
      BY <2>2, BranchFacts
    <2>4. i = Len(ctrl) - k
      <3>1. ctrl[i].id \in Nat
        BY <2>1, FrameFacts DEF IInv, Positions
      <3> QED
        BY <2>1, <2>3, <3>1 DEF IInv, Nested
    <2> QED
      BY <2>1, <2>3, <2>4 DEF Carried
  <1> QED
    BY <1>1

\* Hence their number grows by one at most, and not at all if nothing is carried.
LEMMA OwingCount ==
  ASSUME IInv, NEW j, Owing' \subseteq Owing \cup {j}
  PROVE  Cardinality(Owing') \in Nat /\ Cardinality(Owing') <= Cardinality(Owing) + 1
  <1>1. IsFiniteSet(Owing) /\ Cardinality(Owing) \in Nat
    BY OwingFinite DEF IInv
  <1>2. /\ IsFiniteSet(Owing \cup {j})
        /\ Cardinality(Owing \cup {j}) = IF j \in Owing THEN Cardinality(Owing)
                                         ELSE Cardinality(Owing) + 1
    BY <1>1, FS_AddElement
  <1>3. IsFiniteSet(Owing') /\ Cardinality(Owing') <= Cardinality(Owing \cup {j})
    BY <1>2, FS_Subset
  <1>4. Cardinality(Owing') \in Nat
    BY <1>3, FS_CardinalityType
  <1> QED
    BY <1>1, <1>2, <1>3, <1>4

LEMMA NothingOwed ==
  ASSUME IInv, Reading, NEW K \in SUBSET Depths,
         branches' = branches \cup {Branch(k) : k \in K}, UNCHANGED ctrl,
         \A k \in K : Carried(FrameAt(k)) = <<>>
  PROVE  Cardinality(Owing') \in Nat /\ Cardinality(Owing') <= Cardinality(Owing)
  <1>1. Owing' \subseteq Owing \cup {0} /\ 0 \notin Owing'
    <2>1. Owing' \subseteq Owing \cup {0}
      BY OwingGrows
    <2>2. 0 \notin 1 .. Len(ctrl')
      BY Numbers
    <2> QED
      BY <2>1, <2>2 DEF Owing
  <1>2. Owing' \subseteq Owing
    BY <1>1
  <1>3. IsFiniteSet(Owing) /\ Cardinality(Owing) \in Nat
    BY OwingFinite DEF IInv
  <1>4. IsFiniteSet(Owing') /\ Cardinality(Owing') <= Cardinality(Owing)
    BY <1>2, <1>3, FS_Subset
  <1> QED
    BY <1>4, FS_CardinalityType

LEMMA BrStep ==
  ASSUME IInv, NEW k \in Depths, Br(k)
  PROVE  IInv'
  <1>1. Read /\ Reading /\ pc' = pc + 1
    BY DEF Br, Read, Here
  <1>2. CASE Target(k) = NoLabel
    BY <1>1, <1>2, FailStep DEF Br, Outcomes
  <1>3. CASE Target(k) # NoLabel
    <2> DEFINE K == {k}
    <2>1. /\ branches' = branches \cup {Branch(l) : l \in K} /\ CutOff
          /\ UNCHANGED <<ctrl, top, labelStack, placed, outcome, exact, ended>>
          /\ K \in SUBSET Depths /\ \A l \in K : l = k
      BY <1>3 DEF Br
    <2> HIDE DEF K
    <2>2. Mirrored' /\ Nested' /\ Aimed' /\ branches' \subseteq Branches'
      BY <1>1, <2>1, BranchStructure
    <2>3. ops' \in Seq(Types) /\ live' \in BOOLEAN /\ Len(ops') = Topmost(ctrl).height
      BY <1>1, <2>1, CutOffFacts
    <2>4. TypeOK'
      BY <1>1, <2>1, <2>2, <2>3, StructureTyped DEF TypeOK, IInv
    <2>5. Len(top) - Len(ops') >= Cardinality(Owing')
      <3>1. CASE Carried(FrameAt(k)) = <<>>
        <4>1. Cardinality(Owing') \in Nat /\ Cardinality(Owing') <= Cardinality(Owing)
          <5>1. \A l \in K : Carried(FrameAt(l)) = <<>>
            BY <2>1, <3>1
          <5> QED
            BY <1>1, <2>1, <5>1, NothingOwed
        <4> QED
          BY <1>1, <2>3, <4>1, Numbers
      <3>2. CASE Carried(FrameAt(k)) # <<>>
        <4> DEFINE c == Carried(FrameAt(k))
        <4>1. c \in Seq(Types) /\ Has(c)
          BY <1>1, BranchFacts DEF Br
        <4>2. Len(c) \in Nat /\ Len(c) # 0
          BY <3>2, <4>1, EmptySeq
        <4> HIDE DEF c
        <4>3. Len(ops) - Len(c) >= Topmost(ctrl).height
          BY <1>1, <4>1, HasFacts
        <4>4. Owing' \subseteq Owing \cup {Len(ctrl) - k}
          <5>1. \A l \in K : Len(ctrl) - l = Len(ctrl) - k
            BY <2>1
          <5> QED
            BY <1>1, <2>1, <5>1, OwingGrows
        <4>5. Cardinality(Owing') \in Nat /\ Cardinality(Owing') <= Cardinality(Owing) + 1
          BY <4>4, OwingCount
        <4> QED
          BY <1>1, <2>3, <4>2, <4>3, <4>5, Numbers
      <3> QED
        BY <3>1, <3>2
    <2>6. Tracked'
      BY <1>1, <2>1, <2>3, <2>5, Numbers DEF Tracked, Topmost
    <2> QED
      BY <2>2, <2>4, <2>6 DEF IInv
  <1> QED
    BY <1>2, <1>3

LEMMA BrIfStep ==
  ASSUME IInv, NEW k \in Depths, BrIf(k)
  PROVE  IInv'
  <1>1. Read /\ Reading /\ pc' = pc + 1
    BY DEF BrIf, Read, Here
  <1>2. CASE Target(k) = NoLabel
    BY <1>1, <1>2, FailStep DEF BrIf, Outcomes
  <1>3. CASE Target(k) # NoLabel
    <2> DEFINE K == {k}
    <2>1. /\ branches' = branches \cup {Branch(l) : l \in K} /\ ops' = Cut(ops, 1)
          /\ exact' = FALSE
          /\ UNCHANGED <<ctrl, live, top, labelStack, placed, outcome, ended>>
          /\ K \in SUBSET Depths /\ \A l \in K : l = k
      BY <1>3 DEF BrIf
    <2> HIDE DEF K
    <2>2. Mirrored' /\ Nested' /\ Aimed' /\ branches' \subseteq Branches'
      BY <1>1, <2>1, BranchStructure
    <2>3. 1 <= Len(ops) /\ Len(ops) - 1 >= Topmost(ctrl).height
      <3> DEFINE c == Carried(FrameAt(k))
                 s == Append(c, "i32")
      <3>1. c \in Seq(Types) /\ Has(s)
        BY <1>1, BranchFacts DEF BrIf
      <3> HIDE DEF c
      <3>2. s \in Seq(Types) /\ Len(s) = Len(c) + 1 /\ Len(c) \in Nat
        BY <3>1, TypesAssumption, AppendProperties
      <3> HIDE DEF s
      <3>3. Len(s) \in 0 .. Len(ops) /\ Len(ops) - Len(s) >= Topmost(ctrl).height
        BY <1>1, <3>1, <3>2, HasFacts
      <3> QED
        BY <1>1, <3>2, <3>3, Numbers
    <2>4. ops' \in Seq(Types) /\ Len(ops') = Len(ops) - 1
      <3>1. ops \in Seq(Types) /\ 1 \in 0 .. Len(ops)
        BY <1>1, <2>3, Numbers DEF IInv, TypeOK
      <3> QED
        BY <2>1, <3>1, CutFacts
    <2>5. TypeOK'
      BY <1>1, <2>1, <2>2, <2>4, StructureTyped DEF TypeOK, IInv
    <2>6. Cardinality(Owing') \in Nat /\ Cardinality(Owing') <= Cardinality(Owing) + 1
      <3>1. Owing' \subseteq Owing \cup {Len(ctrl) - k}
        <4>1. \A l \in K : Len(ctrl) - l = Len(ctrl) - k
          BY <2>1
        <4> QED
          BY <1>1, <2>1, <4>1, OwingGrows
      <3> QED
        BY <3>1, OwingCount
    <2>7. Tracked'
      BY <1>1, <2>1, <2>3, <2>4, <2>6, Numbers DEF Tracked, Topmost
    <2> QED
      BY <2>2, <2>5, <2>7 DEF IInv
  <1> QED
    BY <1>2, <1>3

LEMMA BrTableStep ==
  ASSUME IInv, NEW items \in SUBSET Depths, NEW default \in Depths, BrTable(items, default)
  PROVE  IInv'
  <1>1. Read /\ Reading /\ pc' = pc + 1
    BY DEF BrTable, Read, Here
  <1>2. CASE Target(default) = NoLabel
    BY <1>1, <1>2, FailStep DEF BrTable, Outcomes
  <1>3. CASE Target(default) # NoLabel
    <2> DEFINE K == items \cup {default}
    <2>1. /\ branches' = branches \cup {Branch(l) : l \in K} /\ CutOff /\ PopPush(1, <<>>)
          /\ outcome' = IF 1 <= Len(top) THEN outcome ELSE "underflow"
          /\ UNCHANGED <<ctrl, labelStack, placed, exact, ended>>
          /\ K \in SUBSET Depths
          /\ \A l \in K : Carried(FrameAt(l)) = <<>>
      BY <1>3 DEF BrTable
    <2> HIDE DEF K
    <2>2. 1 <= Len(ops) /\ Len(ops) - 1 >= Topmost(ctrl).height
      <3> DEFINE s == <<"i32">>
      <3>1. s \in Seq(Types) /\ Len(s) = 1 /\ Has(s)
        <4>1. "i32" \in Types /\ Has(s)
          BY TypesAssumption DEF BrTable
        <4> QED
          BY <4>1
      <3> HIDE DEF s
      <3>2. Len(s) \in 0 .. Len(ops) /\ Len(ops) - Len(s) >= Topmost(ctrl).height
        BY <1>1, <3>1, HasFacts
      <3> QED
        BY <1>1, <3>1, <3>2, Numbers
    <2>3. 1 <= Len(top) /\ top' \in Seq(Types \cup {"void"}) /\ Len(top') = Len(top) - 1
      <3>1. 1 \in Nat /\ 1 <= Len(ops) /\ <<>> \in Seq(Types \cup {"void"}) /\ Len(<<>>) = 0
        BY <2>2
      <3>2. 1 <= Len(top) /\ top' \in Seq(Types \cup {"void"}) /\ Len(top') = Len(top) - 1 + 0
        BY <1>1, <2>1, <3>1, PopPushFacts
      <3> QED
        BY <1>1, <3>2, Numbers
    <2>4. outcome' = outcome
      BY <2>1, <2>3
    <2>5. Mirrored' /\ Nested' /\ Aimed' /\ branches' \subseteq Branches'
      BY <1>1, <2>1, <2>4, BranchStructure
    <2>6. ops' \in Seq(Types) /\ live' \in BOOLEAN /\ Len(ops') = Topmost(ctrl).height
      BY <1>1, <2>1, CutOffFacts
    <2>7. TypeOK'
      BY <1>1, <2>1, <2>3, <2>4, <2>5, <2>6, StructureTyped DEF TypeOK, IInv
    <2>8. Cardinality(Owing') \in Nat /\ Cardinality(Owing') <= Cardinality(Owing)
      BY <1>1, <2>1, NothingOwed
    <2>9. Tracked'
      BY <1>1, <2>1, <2>2, <2>3, <2>4, <2>6, <2>8, Numbers DEF Tracked, Topmost
    <2> QED
      BY <2>5, <2>7, <2>9 DEF IInv
  <1> QED
    BY <1>2, <1>3

-------------------------------------------------------------------------------
(* The invariant holds of every reachable state. *)

LEMMA BlockStep ==
  ASSUME IInv, NEW r \in Results, Block(r)
  PROVE  IInv'
  <1> DEFINE f == Frame("block", r)
  <1>1. Read /\ pc' = pc + 1 /\ ctrl' = Append(ctrl, f)
    BY DEF Block, Read, Here
  <1>2. f \in Frames' /\ f.kind = "block" /\ f.id = Here /\ f.height = Len(ops)
    <2>1. Len(ops) \in Nat /\ Here \in Positions'
      BY <1>1, StructureTyped DEF IInv, TypeOK
    <2> QED
      BY <2>1 DEF Frame, Frames, Kinds
  <1> HIDE DEF f
  <1>3. labelStack' = Append(labelStack, EntryOf(f))
    BY <1>2 DEF Block, EntryOf
  <1>4. placed' = IF f.kind = "loop" THEN placed \cup {<<Here, Here>>} ELSE placed
    BY <1>2 DEF Block
  <1> QED
    BY <1>1, <1>2, <1>3, <1>4, OpenStep DEF Block

LEMMA LoopStep ==
  ASSUME IInv, NEW r \in Results, Loop(r)
  PROVE  IInv'
  <1> DEFINE f == Frame("loop", r)
  <1>1. Read /\ pc' = pc + 1 /\ ctrl' = Append(ctrl, f)
    BY DEF Loop, Read, Here
  <1>2. f \in Frames' /\ f.kind = "loop" /\ f.id = Here /\ f.height = Len(ops)
    <2>1. Len(ops) \in Nat /\ Here \in Positions'
      BY <1>1, StructureTyped DEF IInv, TypeOK
    <2> QED
      BY <2>1 DEF Frame, Frames, Kinds
  <1> HIDE DEF f
  <1>3. labelStack' = Append(labelStack, EntryOf(f))
    BY <1>2 DEF Loop, LoopEntry, EntryOf
  <1>4. placed' = IF f.kind = "loop" THEN placed \cup {<<Here, Here>>} ELSE placed
    BY <1>2 DEF Loop
  <1> QED
    BY <1>1, <1>2, <1>3, <1>4, OpenStep DEF Loop

LEMMA InitInvariant ==
  ASSUME Init
  PROVE  IInv
  <1>1. PICK r \in Results : ctrl = <<[kind |-> "func", id |-> 0, height |-> 0, result |-> r]>>
    BY DEF Init
  <1> DEFINE f == [kind |-> "func", id |-> 0, height |-> 0, result |-> r]
             e == [start |-> 0, end |-> 0]
  <1>2. /\ pc = 0 /\ outcome = "reading" /\ labelStack = <<e>>
        /\ ops = <<>> /\ top = <<>> /\ live = TRUE /\ exact = TRUE
        /\ placed = {} /\ branches = {} /\ ended = {}
    BY DEF Init, NoLabel
  <1>3. f \in Frames /\ e \in Entries /\ EntryOf(f) = e
    BY <1>2 DEF Frames, Entries, Positions, Kinds, EntryOf, NoLabel
  <1>4. f.kind = "func" /\ f.id = 0 /\ f.height = 0
    OBVIOUS
  <1> HIDE DEF f, e
  <1>5. /\ ctrl \in Seq(Frames) /\ Len(ctrl) = 1 /\ ctrl[1] = f
        /\ labelStack \in Seq(Entries) /\ Len(labelStack) = 1 /\ labelStack[1] = e
    BY <1>1, <1>2, <1>3 DEF f
  <1>6. TypeOK
    BY <1>2, <1>5 DEF TypeOK, Outcomes
  <1>7. Mirrored /\ Nested
    <2>1. \A i \in 1 .. Len(ctrl) : i = 1
      BY <1>5
    <2> QED
      BY <1>3, <1>4, <1>5, <2>1 DEF Mirrored, Nested
  <1>8. Aimed
    BY <1>2, <1>4, <1>5 DEF Aimed
  <1>9. Tracked
    <2>1. Owing = {}
      BY <1>2 DEF Owing, Reached
    <2>2. Cardinality(Owing) = 0
      BY <2>1, FS_EmptySet
    <2> QED
      BY <1>2, <1>4, <1>5, <2>2 DEF Tracked, Topmost
  <1> QED
    BY <1>6, <1>7, <1>8, <1>9 DEF IInv

\* One step for each disjunct of Next.
LEMMA StepInvariant ==
  ASSUME IInv, [Next]_vars
  PROVE  IInv'
  <1>1. ASSUME Produce \/ Consume \/ Keep \/ Convert \/ Arith \/ Compare \/ CopySign
               \/ Load \/ Store
        PROVE  IInv'
    <2>1. PICK i \in Producers \cup Consumers \cup Keepers \cup Conversions \cup ZeroTests
                    \cup Growths \cup Arithmetic
                      \cup Comparisons \cup CopySigns \cup Loads \cup Stores,
               t \in BOOLEAN : Straight(i, t)
      BY <1>1 DEF Produce, Consume, Keep, Convert, Arith, Compare, CopySign, Load, Store
    <2> QED
      BY <2>1, PlainShape, StraightStep
  <1>2. ASSUME Call \/ CallIndirect \/ CallHost
        PROVE  IInv'
    <2>1. PICK i \in Calls \cup HostCalls \cup IndirectCalls, t \in BOOLEAN : Straight(i, t)
      BY <1>2 DEF Call, CallIndirect, CallHost
    <2> QED
      BY <2>1, CallShape, StraightStep
  <1>3. CASE Select
    BY <1>3, SelectStep
  <1>4. CASE Unsupported
    BY <1>4, FailStep DEF Unsupported, Outcomes
  <1>5. CASE \E r \in Results : Block(r) \/ Loop(r)
    BY <1>5, BlockStep, LoopStep
  <1>6. CASE EndConstruct
    BY <1>6, EndConstructStep
  <1>7. CASE EndFunction
    BY <1>7, EndFunctionStep
  <1>8. CASE \E k \in Depths : Br(k) \/ BrIf(k)
    BY <1>8, BrStep, BrIfStep
  <1>9. CASE \E items \in SUBSET Depths, default \in Depths : BrTable(items, default)
    BY <1>9, BrTableStep
  <1>10. CASE Return
    BY <1>10, CutOffStep DEF Return
  <1>11. CASE Unreachable
    BY <1>11, CutOffStep DEF Unreachable
  <1>12. CASE Finished \/ UNCHANGED vars
    <2>1. UNCHANGED vars
      BY <1>12 DEF Finished
    <2>2. TypeOK' /\ Mirrored' /\ Nested'
      BY <2>1 DEF vars, IInv, TypeOK, Mirrored, Nested, Positions, Frames, Entries, Branches,
         Reading, EntryOf
    <2>3. Aimed' /\ Tracked'
      BY <2>1 DEF vars, IInv, Aimed, Open, Ended, Tracked, Owing, Reached, Reading, Topmost
    <2> QED
      BY <2>2, <2>3 DEF IInv
  <1> QED
    BY <1>1, <1>2, <1>3, <1>4, <1>5, <1>6, <1>7, <1>8, <1>9, <1>10, <1>11, <1>12 DEF Next

\* The inductive invariant holds throughout the translation of a body.
THEOREM Invariance == Spec => []IInv
  <1>1. Init => IInv
    BY InitInvariant
  <1>2. IInv /\ [Next]_vars => IInv'
    BY StepInvariant
  <1> QED
    BY <1>1, <1>2, PTL DEF Spec

\* The variables keep their types; in particular END never appends the null end
\* label of a loop.
THEOREM TypeCorrect == Spec => []TypeOK
  <1>1. IInv => TypeOK
    BY DEF IInv
  <1> QED
    BY <1>1, Invariance, PTL

\* labelStack mirrors the open constructs, so that labelStack.Count - brindex - 1
\* is the entry of the construct brindex levels out, in every body.
THEOREM LabelsCorrect == Spec => []LabelsMirrorFrames
  <1>1. IInv => LabelsMirrorFrames
    <2> SUFFICES ASSUME IInv, Reading
                 PROVE  LabelsMirrorFrames
      BY DEF LabelsMirrorFrames
    <2> QED
      BY DEF IInv, Mirrored, LabelsMirrorFrames, EntryOf
  <1> QED
    BY <1>1, Invariance, PTL

\* Every branch lands at the start of its loop or right after the END of its
\* block, and every label is appended at one place, in every body.
THEOREM BranchesCorrect == Spec => []BranchesLand
  <1>1. IInv => BranchesLand
    <2> SUFFICES ASSUME IInv, NEW b \in branches
                 PROVE  Lands(b)
      BY DEF BranchesLand, IInv, Aimed
    <2>1. /\ b.label = b.frame
          /\ b.kind = "func" => b.frame = 0
          /\ b.kind = "loop" => <<b.label, b.frame>> \in placed
          /\ b.kind = "block" => Open(b) \/ Ended(b)
      BY DEF IInv, Aimed
    <2>2. b.kind \in Kinds
      BY DEF IInv, TypeOK, Branches
    <2>3. CASE b.kind = "func"
      BY <2>1, <2>3 DEF Lands, NoLabel
    <2>4. CASE b.kind = "loop"
      BY <2>1, <2>4 DEF Lands
    <2>5. CASE b.kind = "block"
      <3>1. ASSUME Open(b)
            PROVE  Pending(b)
        <4>1. PICK i \in 1 .. Len(ctrl) : ctrl[i].id = b.frame /\ ctrl[i].kind = "block"
          BY <3>1 DEF Open
        <4>2. labelStack[i].end = b.label /\ i <= Len(labelStack)
          <5>1. labelStack[i] = EntryOf(ctrl[i]) /\ Len(labelStack) = Len(ctrl)
            BY <4>1 DEF IInv, Mirrored
          <5>2. EntryOf(ctrl[i]).end = ctrl[i].id
            BY <4>1 DEF EntryOf
          <5>3. i <= Len(ctrl)
            BY DEF IInv, TypeOK
          <5> QED
            BY <2>1, <4>1, <5>1, <5>2, <5>3
        <4> QED
          BY <4>1, <4>2 DEF Pending
      <3> QED
        BY <2>1, <2>5, <3>1 DEF Lands, Ended
    <2> QED
      BY <2>2, <2>3, <2>4, <2>5 DEF Kinds
  <1> QED
    BY <1>1, Invariance, PTL

\* The type stack never runs empty, in every body of the kind described in
\* Translator: the entries a branch leaves behind always make up for the result
\* an END brings back to the operand stack.
THEOREM StackNeverEmpty == Spec => []NoUnderflow
  <1>1. IInv => NoUnderflow
    BY EntriesCover DEF NoUnderflow, IInv, Tracked
  <1> QED
    BY <1>1, Invariance, PTL

-------------------------------------------------------------------------------
(* The type stack is exact until an instruction loses track of it.             *)

\* Cutting nothing off, and putting one element back on.
LEMMA CutNothing ==
  ASSUME NEW S, NEW s \in Seq(S)
  PROVE  Cut(s, 0) = s /\ s \o <<>> = s
  BY DEF Cut

LEMMA PutBack ==
  ASSUME NEW S, NEW s \in Seq(S), NEW n \in 1 .. Len(s)
  PROVE  Cut(s, n) \o <<s[Len(s) - n + 1]>> = Cut(s, n - 1)
  <1> PICK l \in Nat : l = Len(s)
    OBVIOUS
  <1> DEFINE c == Cut(s, n)  d == Cut(s, n - 1)  e == s[l - n + 1]
  <1>1. c \in Seq(S) /\ Len(c) = l - n /\ \A i \in 1 .. l - n : c[i] = s[i]
    <2>1. n \in 0 .. Len(s)
      OBVIOUS
    <2> QED
      BY <2>1, CutFacts
  <1>2. d \in Seq(S) /\ Len(d) = l - n + 1 /\ \A i \in 1 .. l - n + 1 : d[i] = s[i]
    <2>1. n - 1 \in 0 .. Len(s) /\ l - (n - 1) = l - n + 1
      OBVIOUS
    <2> QED
      BY <2>1, CutFacts
  <1>3. e \in S
    OBVIOUS
  <1> HIDE DEF c, d, e
  <1>4. c \o <<e>> \in Seq(S) /\ Len(c \o <<e>>) = l - n + 1
    BY <1>1, <1>3
  <1>5. ASSUME NEW i \in 1 .. l - n + 1
        PROVE  (c \o <<e>>)[i] = d[i]
    BY <1>1, <1>2, <1>3 DEF e
  <1>6. c \o <<e>> = d
    BY <1>2, <1>4, <1>5, SeqEqual
  <1> QED
    BY <1>6 DEF c, d, e

\* Where the sequence that another ends with begins.
LEMMA EndFacts ==
  ASSUME NEW S, NEW s \in Seq(S), NEW t \in Seq(S), EndsWith(s, t),
         NEW n \in Nat \ {0}, n = Len(t)
  PROVE  n \in 1 .. Len(s) /\ s[Len(s) - n + 1] = t[1]
  <1> PICK l \in Nat : l = Len(s)
    OBVIOUS
  <1>1. n <= l /\ SubSeq(s, l - n + 1, l) = t
    BY DEF EndsWith
  <1>2. l - n + 1 \in 1 .. l + 1 /\ l \in l - n + 1 - 1 .. l
    BY <1>1
  <1>3. \A i \in 1 .. l - (l - n + 1) + 1 : SubSeq(s, l - n + 1, l)[i] = s[l - n + 1 + i - 1]
    BY <1>2, SubSeqProperties
  <1>4. 1 \in 1 .. l - (l - n + 1) + 1 /\ l - n + 1 + 1 - 1 = l - n + 1
    BY <1>1
  <1>5. SubSeq(s, l - n + 1, l)[1] = s[l - n + 1 + 1 - 1]
    BY <1>3, <1>4
  <1> QED
    BY <1>1, <1>4, <1>5

\* Instructions whose case does to `top` what they do to the operands.
Follows(i) == \A s \in Seq(Types) :
  EndsWith(s, i.in) => Cut(s, Len(i.in)) \o i.out = Cut(s, i.pops) \o i.pushes

LEMMA PlainFollows ==
  ASSUME NEW i \in Producers \cup Consumers \cup Keepers \cup Conversions \cup ZeroTests
                    \cup Growths \cup Arithmetic \cup Comparisons
  PROVE  Follows(i)
  <1>1. ASSUME Len(i.in) = i.pops, i.out = i.pushes
        PROVE  Follows(i)
    BY <1>1 DEF Follows
  <1>2. ASSUME NEW t \in Types, i = Instr(<<t>>, <<t>>, 0, <<>>)
        PROVE  Follows(i)
    <2>1. i.in = <<t>> /\ i.out = <<t>> /\ i.pops = 0 /\ i.pushes = <<>>
      BY <1>2 DEF Instr
    <2>2. SUFFICES ASSUME NEW s \in Seq(Types), EndsWith(s, <<t>>)
                   PROVE  Cut(s, 1) \o <<t>> = Cut(s, 0) \o <<>>
      BY <2>1 DEF Follows
    <2>3. 1 \in 1 .. Len(s) /\ s[Len(s)] = t
      <3> PICK w : w = <<t>>
        OBVIOUS
      <3> PICK n \in Nat \ {0} : n = 1
        OBVIOUS
      <3>1. w \in Seq(Types) /\ n = Len(w) /\ t = w[1] /\ EndsWith(s, w)
        BY <2>2
      <3>2. n \in 1 .. Len(s) /\ s[Len(s) - n + 1] = w[1]
        BY <3>1, EndFacts
      <3> QED
        BY <3>1, <3>2
    <2>4. Cut(s, 1) \o <<s[Len(s) - 1 + 1]>> = Cut(s, 1 - 1)
      BY <2>3, PutBack
    <2>5. Cut(s, 0) \o <<>> = Cut(s, 0)
      BY CutNothing
    <2> QED
      BY <2>3, <2>4, <2>5
  <1>3. ASSUME NEW t \in Types, i = Instr(<<t, t>>, <<t>>, 1, <<>>)
        PROVE  Follows(i)
    <2>1. i.in = <<t, t>> /\ i.out = <<t>> /\ i.pops = 1 /\ i.pushes = <<>>
      BY <1>3 DEF Instr
    <2>2. SUFFICES ASSUME NEW s \in Seq(Types), EndsWith(s, <<t, t>>)
                   PROVE  Cut(s, 2) \o <<t>> = Cut(s, 1) \o <<>>
      BY <2>1 DEF Follows
    <2>3. 2 \in 1 .. Len(s) /\ s[Len(s) - 1] = t
      <3> PICK w : w = <<t, t>>
        OBVIOUS
      <3> PICK n \in Nat \ {0} : n = 2
        OBVIOUS
      <3>1. w \in Seq(Types) /\ n = Len(w) /\ t = w[1] /\ EndsWith(s, w)
        BY <2>2
      <3>2. n \in 1 .. Len(s) /\ s[Len(s) - n + 1] = w[1]
        BY <3>1, EndFacts
      <3> QED
        BY <3>1, <3>2
    <2>4. Cut(s, 2) \o <<s[Len(s) - 2 + 1]>> = Cut(s, 2 - 1)
      BY <2>3, PutBack
    <2>5. Cut(s, 1) \in Seq(Types)
      BY <2>3, CutFacts
    <2>6. Cut(s, 1) \o <<>> = Cut(s, 1)
      BY <2>5, CutNothing
    <2> QED
      BY <2>3, <2>4, <2>6
  <1>4. CASE i \in Producers \cup Consumers
    BY <1>1, <1>4 DEF Producers, Consumers, Instr
  <1>5. CASE i \in Keepers
    BY <1>2, <1>5 DEF Keepers
  <1>6. CASE i \in Conversions \cup ZeroTests \cup Growths
    <2>1. ASSUME NEW t, NEW u, i = Instr(<<t>>, <<u>>, 1, <<u>>)
          PROVE  Len(i.in) = i.pops /\ i.out = i.pushes
      BY <2>1 DEF Instr
    <2> QED
      BY <1>1, <1>6, <2>1 DEF Conversions, ZeroTests, Growths
  <1>7. CASE i \in Arithmetic
    BY <1>3, <1>7 DEF Arithmetic
  <1>8. CASE i \in Comparisons
    <2>1. ASSUME NEW t, NEW u, i = Instr(<<t, t>>, <<u>>, 2, <<u>>)
          PROVE  Len(i.in) = i.pops /\ i.out = i.pushes
      BY <2>1 DEF Instr
    <2> QED
      BY <1>1, <1>8, <2>1 DEF Comparisons
  <1> QED
    BY <1>4, <1>5, <1>6, <1>7, <1>8

\* A call of a host method follows unless it pushes the Void of the import.
LEMMA CallFollows ==
  ASSUME NEW i \in Calls \cup HostCalls, i.pushes # <<"void">>
  PROVE  Follows(i)
  <1>1. Len(i.in) = i.pops /\ i.out = i.pushes
    <2>1. CASE i \in Calls
      BY <2>1 DEF Calls, Instr
    <2>2. CASE i \in HostCalls
      <3>1. PICK s \in Sigs, v \in VoidPushes :
              i = Instr(s.params, s.result, Len(s.params), IF s.result = <<>> THEN v ELSE s.result)
        BY <2>2 DEF HostCalls
      <3>2. v = <<>> \/ v = <<"void">>
        BY VoidPushesAssumption
      <3>3. /\ i.in = s.params /\ i.out = s.result /\ i.pops = Len(s.params)
            /\ i.pushes = IF s.result = <<>> THEN v ELSE s.result
        BY <3>1 DEF Instr
      <3> QED
        BY <3>2, <3>3
    <2> QED
      BY <2>1, <2>2
  <1> QED
    BY <1>1 DEF Follows

LEMMA StraightExact ==
  ASSUME IInv, ExactUntilDrift, NEW i, ShapeOf(i), NEW t \in BOOLEAN, Straight(i, t),
         t => Follows(i)
  PROVE  ExactUntilDrift'
  <1>1. /\ Reading /\ live /\ live' = live /\ Has(i.in) /\ exact' = (exact /\ t)
        /\ ops' = Cut(ops, Len(i.in)) \o i.out /\ PopPush(i.pops, i.pushes)
    BY DEF Straight, Read
  <1>2. SUFFICES ASSUME exact, t
                 PROVE  top' = ops'
    BY <1>1 DEF ExactUntilDrift
  <1>3. top = ops /\ ops \in Seq(Types) /\ EndsWith(ops, i.in)
    BY <1>1, <1>2 DEF ExactUntilDrift, IInv, TypeOK, Has
  <1>4. i.pops <= Len(top)
    <2>1. Len(i.in) \in 0 .. Len(ops) /\ i.pops <= Len(i.in) /\ i.pops \in Nat
      BY <1>1, HasFacts DEF ShapeOf
    <2> QED
      BY <1>3, <2>1
  <1>5. top' = Cut(top, i.pops) \o i.pushes
    BY <1>1, <1>4 DEF PopPush
  <1>6. Cut(ops, Len(i.in)) \o i.out = Cut(ops, i.pops) \o i.pushes
    BY <1>2, <1>3 DEF Follows
  <1> QED
    BY <1>1, <1>3, <1>5, <1>6

\* SELECT pops two entries and takes two operands off, so that the stacks agree
\* afterwards although the entry it reads is not that of an operand.
LEMMA SelectExact ==
  ASSUME IInv, ExactUntilDrift, Select
  PROVE  ExactUntilDrift'
  <1>1. PICK t \in Types : Has(<<t, t, "i32">>)
    BY DEF Select
  <1>2. Reading /\ live /\ exact' = exact /\ ops' = Cut(ops, 2) /\ PopPush(2, <<>>)
    BY DEF Select, Read
  <1>3. SUFFICES ASSUME exact
                 PROVE  top' = ops'
    BY <1>2 DEF ExactUntilDrift
  <1>4. top = ops /\ ops \in Seq(Types)
    BY <1>2, <1>3 DEF ExactUntilDrift, IInv, TypeOK
  <1>5. 2 \in 0 .. Len(ops)
    BY <1>1, <1>4 DEF Has, EndsWith
  <1>6. top' = Cut(ops, 2) \o <<>>
    BY <1>2, <1>4, <1>5 DEF PopPush
  <1>7. Cut(ops, 2) \in Seq(Types)
    BY <1>4, <1>5, CutFacts
  <1> QED
    BY <1>2, <1>6, <1>7, CutNothing

\* The END of reachable code finds exactly the result above the construct's
\* height, and leaves it there.
LEMMA EndExact ==
  ASSUME IInv, ExactUntilDrift, EndConstruct
  PROVE  ExactUntilDrift'
  <1> DEFINE f == Topmost(ctrl)  h == f.height  r == f.result
  <1>1. /\ Reading /\ CanEnd /\ top' = top /\ exact' = (exact /\ live) /\ live' = (live \/ Reached(f))
        /\ ops' = Take(ops, h) \o (IF live' THEN r ELSE <<>>)
    BY DEF EndConstruct, Read
  <1>2. SUFFICES ASSUME exact, live, live'
                 PROVE  top' = ops'
    BY <1>1 DEF ExactUntilDrift
  <1>3. top = ops /\ ops \in Seq(Types) /\ h \in Nat /\ r \in Results
    BY <1>1, <1>2, TopmostFrame DEF ExactUntilDrift, IInv, TypeOK
  <1>4. Len(ops) = h + Len(r) /\ EndsWith(ops, r)
    BY <1>1, <1>2 DEF CanEnd, Has
  <1>5. ops' = Take(ops, h) \o r
    BY <1>1, <1>2
  <1> HIDE DEF f, h, r
  <1>6. Take(ops, h) \o r = ops
    <2>1. CASE r = <<>>
      BY <1>3, <1>4, <2>1 DEF Take
    <2>2. ASSUME NEW t \in Types, r = <<t>>
          PROVE  Take(ops, h) \o r = ops
      <3>1. Len(ops) = h + 1 /\ 1 \in 1 .. Len(ops) /\ ops[Len(ops)] = t
        <4> PICK n \in Nat \ {0} : n = 1
          OBVIOUS
        <4>1. r \in Seq(Types) /\ n = Len(r) /\ t = r[1]
          BY <2>2
        <4>2. n \in 1 .. Len(ops) /\ ops[Len(ops) - n + 1] = r[1]
          BY <1>3, <1>4, <4>1, EndFacts
        <4> PICK l \in Nat : l = Len(ops)
          BY <1>3
        <4>3. l = h + 1 /\ 1 \in 1 .. l
          <5>1. h \in Nat
            BY <1>3
          <5>2. l = h + n
            BY <1>4, <4>1
          <5> QED
            BY <5>1, <5>2
        <4>4. l - n + 1 = l
          OBVIOUS
        <4> QED
          BY <4>1, <4>2, <4>3, <4>4
      <3>2. Cut(ops, 1) \o <<ops[Len(ops) - 1 + 1]>> = Cut(ops, 1 - 1)
        BY <1>3, <3>1, PutBack
      <3>3. Cut(ops, 1) = Take(ops, h)
        BY <1>3, <3>1 DEF Cut, Take
      <3> QED
        BY <1>3, <2>2, <3>1, <3>2, <3>3, CutNothing
    <2> QED
      BY <1>3, <2>1, <2>2 DEF Results
  <1> QED
    BY <1>1, <1>3, <1>5, <1>6

\* `top` is exactly the operand stack until the first instruction whose case
\* loses track, in every body.
THEOREM TopExact == Spec => []ExactUntilDrift
  <1>1. Init => ExactUntilDrift
    BY DEF Init, ExactUntilDrift
  <1>2. ASSUME IInv, ExactUntilDrift, [Next]_vars
        PROVE  ExactUntilDrift'
    <2>1. ASSUME NEW i \in Producers \cup Consumers \cup Keepers \cup Conversions \cup ZeroTests
                            \cup Growths \cup Arithmetic \cup Comparisons, Straight(i, TRUE)
          PROVE  ExactUntilDrift'
      BY <1>2, <2>1, PlainShape, PlainFollows, StraightExact
    <2>2. CASE Produce \/ Consume \/ Keep \/ Convert \/ Arith \/ Compare
      BY <2>1, <2>2 DEF Produce, Consume, Keep, Convert, Arith, Compare
    <2>3. CASE Call \/ CallHost
      <3>1. PICK i \in Calls \cup HostCalls, t \in BOOLEAN :
              Straight(i, t) /\ (t => i.pushes # <<"void">>)
        <4>1. ASSUME NEW i \in Calls
              PROVE  i.pushes # <<"void">>
          BY SigsAssumption, TypesAssumption DEF Calls, Instr, Results, NumTypes
        <4> QED
          BY <2>3, <4>1 DEF Call, CallHost
      <3>2. ShapeOf(i) /\ (t => Follows(i))
        BY <3>1, CallShape, CallFollows
      <3> QED
        BY <1>2, <3>1, <3>2, StraightExact
    <2>4. CASE CopySign \/ Load \/ Store \/ CallIndirect
      <3>1. PICK i : Straight(i, FALSE)
        BY <2>4 DEF CopySign, Load, Store, CallIndirect
      <3> QED
        BY <3>1 DEF Straight, ExactUntilDrift
    <2>5. CASE Select
      BY <1>2, <2>5, SelectExact
    <2>6. CASE EndConstruct
      BY <1>2, <2>6, EndExact
    <2>7. CASE \E r \in Results : Block(r) \/ Loop(r)
      BY <1>2, <2>7 DEF Block, Loop, Read, Reading, ExactUntilDrift
    <2>8. CASE Unsupported \/ EndFunction
      BY <2>8 DEF Unsupported, EndFunction, Fail, Reading, ExactUntilDrift
    <2>9. CASE \E k \in Depths : Br(k) \/ BrIf(k)
      <3>1. PICK k \in Depths : Br(k) \/ BrIf(k)
        BY <2>9
      <3>2. CASE Target(k) = NoLabel
        BY <3>1, <3>2 DEF Br, BrIf, Fail, Reading, ExactUntilDrift
      <3>3. CASE Target(k) # NoLabel
        BY <3>1, <3>3 DEF Br, BrIf, CutOff, ExactUntilDrift
      <3> QED
        BY <3>2, <3>3
    <2>10. CASE \E items \in SUBSET Depths, default \in Depths : BrTable(items, default)
      <3>1. PICK items \in SUBSET Depths, default \in Depths : BrTable(items, default)
        BY <2>10
      <3>2. CASE Target(default) = NoLabel
        BY <3>1, <3>2 DEF BrTable, Fail, Reading, ExactUntilDrift
      <3>3. CASE Target(default) # NoLabel
        BY <3>1, <3>3 DEF BrTable, CutOff, ExactUntilDrift
      <3> QED
        BY <3>2, <3>3
    <2>11. CASE Return \/ Unreachable
      BY <2>11 DEF Return, Unreachable, CutOff, ExactUntilDrift
    <2>12. CASE Finished \/ UNCHANGED vars
      BY <1>2, <2>12 DEF Finished, vars, Reading, ExactUntilDrift
    <2> QED
      BY <1>2, <2>2, <2>3, <2>4, <2>5, <2>6, <2>7, <2>8, <2>9, <2>10, <2>11, <2>12 DEF Next
  <1> QED
    BY <1>1, <1>2, Invariance, PTL DEF Spec

===============================================================================

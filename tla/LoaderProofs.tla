----------------------------- MODULE LoaderProofs ------------------------------
(* Proofs, for modules with any number of imports, functions, exports and       *)
(* segments, that the class the loader builds does what the module means: its   *)
(* constructor runs, every call and every slot of the function table reaches    *)
(* the function it names, no code is lost, and which modules are refused.       *)
EXTENDS Loader, FiniteSetTheorems, SequenceTheorems, TLAPS

-------------------------------------------------------------------------------
(* The inductive invariant. *)

FunctionIndices == 1 .. Len(wasm.imports) + wasm.funcs

\* What matters of the module.
WellFormed ==
  /\ wasm.imports \in Seq(Names) /\ wasm.funcs \in Nat /\ wasm.data \in Nat
  /\ wasm.segments \in Seq(Seq(FunctionIndices))
  /\ wasm.exports \in Seq(Names \X FunctionIndices)
  /\ wasm.debug \in [1 .. wasm.funcs -> Names \cup {NoName}]
  /\ (Flawed(wasm, "initializer") \/ Flawed(wasm, "dataOffset") => wasm.data > 0)
  /\ \A f \in wasm.flaws :
       /\ (f[1] = "elementOffset" => \E x \in 1 .. Len(wasm.segments) : f = <<"elementOffset", x>>)
       /\ (f[1] = "instruction" => \E i \in 1 .. wasm.funcs : f = <<"instruction", i>>)

\* What is left to read the module has; names come after functions, data after
\* the memory.  A section that would be refused is still to come.
FlawsAhead ==
  /\ (Flawed(wasm, "memory") => "import" \in left)
  /\ (Flawed(wasm, "initializer") => "global" \in left)
  /\ (Flawed(wasm, "dataOffset") => "data" \in left)
SectionsInOrder ==
  /\ stage \notin Refusals /\ FlawsAhead
  /\ \A kind \in left : Has(wasm, kind)
  /\ ("function" \in left => "name" \in left)
  /\ ("memory" \in left => "data" \in left)
  /\ (stage # "sections" => left = {})
  /\ (elementSeen <=> ("element" \notin left /\ wasm.segments # <<>>))
  /\ (codeSeen <=> ("code" \notin left /\ wasm.funcs > 0))

ImportsRead ==
  /\ Len(ImportFuncs) = IF "import" \in left THEN 0 ELSE Len(wasm.imports)
  /\ \A k \in DOMAIN ImportFuncs :
       /\ ImportFuncs[k].name = wasm.imports[k]
       /\ ImportFuncs[k].method = IF stage = "sections" \/ wasm.imports[k] \in WasiNames
                                  THEN Null ELSE <<"stub", k>>

FunctionsRead ==
  /\ Len(FuncDecl) = IF "function" \in left THEN 0 ELSE wasm.funcs
  /\ \A i \in DOMAIN FuncDecl :
       /\ FuncDecl[i].importName = IF "name" \in left THEN NoName ELSE wasm.debug[i]
       /\ (stage \in {"code", "written"} => FuncDecl[i].name = NameOf(i))

\* Where the function k is exported.
Exported(k) == {x \in DOMAIN wasm.exports : wasm.exports[x][2] = k}
ExportsRead ==
  /\ DOMAIN ExportFunc = IF "export" \in left THEN {} ELSE {wasm.exports[x][2] : x \in DOMAIN wasm.exports}
  /\ \A k \in DOMAIN ExportFunc : ExportFunc[k] = wasm.exports[Min(Exported(k))][1]

Instructions == {<<"nop">>, <<"ret">>, <<"memory">>, <<"global">>, <<"store">>}
                \cup ({"table"} \X Nat) \cup ({"slot"} \X Nat \X (MethodIds \cup {Null}))
ConstructorWritten ==
  /\ cctor \in Seq(Instructions)
  /\ Len(cctor) > 0 /\ cctor[Len(cctor)] = <<"ret">>
  /\ ("memory" \notin left /\ wasm.data > 0 /\ ~Flawed(wasm, "memory") =>
        \E q \in 1 .. Len(cctor) - 1 : cctor[q][1] = "memory")
  /\ ConstructorRuns

\* The last segment filled is at the end of the constructor.
FilledAt(b, s) ==
  /\ cctor[b] = <<"table", Len(s) + 1>> /\ Len(cctor) = b + Len(s) + 1
  /\ \A j \in DOMAIN s : cctor[b + j] = <<"slot", j, TableMethod(s[j])>>
TableFilled ==
  /\ (stage = "sections" => filled = 0)
  /\ (stage \in {"naming", "code", "written"} => filled = Len(wasm.segments))
  /\ \A x \in 1 .. filled : \A j \in DOMAIN wasm.segments[x] : Problem(wasm.segments[x][j]) = "none"
  /\ \A x \in 1 .. filled : <<"elementOffset", x>> \notin wasm.flaws
  /\ (filled > 0 => \E b \in DOMAIN cctor : FilledAt(b, wasm.segments[filled]))

\* The methods there are: one stub for each import Wasi does not have, and what
\* the functions translated so far are made of.
Missing == {k \in DOMAIN ImportFuncs : wasm.imports[k] \notin WasiNames}
CodeMethods == {m \in Range(methods) : m.does[1] = "code"}
MethodsMade ==
  /\ IsFiniteSet(CodeMethods) /\ Translated <= wasm.funcs
  /\ (stage = "sections" => methods = <<>>)
  /\ (stage \in {"sections", "element", "naming"} => Translated = 0)
  /\ (stage = "written" => Translated = wasm.funcs)
  /\ (stage # "sections" =>
        Range(methods) = {Stub(k) : k \in Missing} \cup UNION {Range(Bodies(i)) : i \in 1 .. Translated})
  /\ \A i \in 1 .. Translated : <<"instruction", i>> \notin wasm.flaws
  /\ \A p, q \in DOMAIN methods : methods[p].id = methods[q].id => p = q

CallsMade ==
  /\ (stage \in {"sections", "element", "naming"} => calls = {})
  /\ \A c \in calls : c[1] \in FunctionIndices /\ c[2] = resolveMethod(c[1])

\* As long as Go has not thrown, what it has made is right; once it has, what is
\* left over has the types and the constructor of before.
Built ==
  /\ WellFormed /\ TypeOK /\ SectionsInOrder /\ ImportsRead /\ FunctionsRead /\ ExportsRead
  /\ ConstructorWritten /\ TableFilled /\ MethodsMade /\ CallsMade /\ RefusedOnlyNamed
Refused == stage \in Refusals /\ WellFormed /\ TypeOK /\ ConstructorRuns /\ RefusedOnlyNamed
IInv == Built \/ Refused

-------------------------------------------------------------------------------
(* The modules, and helpers on sequences. *)

LEMMA SeqOfFacts ==
  ASSUME NEW S, NEW n \in Nat, NEW s \in SeqOf(S, n)
  PROVE  s \in Seq(S)
  <1>1. PICK m \in 0 .. n : s \in [1 .. m -> S]
    BY DEF SeqOf
  <1> QED
    BY <1>1, SeqDef

LEMMA ModuleFacts ==
  ASSUME NEW is \in SeqOf(Names, MaxImports), NEW n \in 0 .. MaxFuncs, NEW data \in 0 .. 1,
         NEW ss \in Segments(1 .. Len(is) + n), wasm \in ModulesWith(is, n, ss, data)
  PROVE  WellFormed
  <1>1. /\ wasm.imports = is /\ wasm.funcs = n /\ wasm.data = data /\ wasm.segments = ss
        /\ wasm.exports \in Exports(1 .. Len(is) + n)
        /\ wasm.debug \in [1 .. n -> Names \cup {NoName}]
        /\ wasm.flaws \in Flaws(1 .. Len(is) + n, n, ss, data)
    BY DEF ModulesWith
  <1>2. wasm.imports \in Seq(Names)
    BY <1>1, BoundsAssumption, SeqOfFacts
  <1>3. Len(wasm.imports) \in Nat /\ n \in Nat /\ data \in Nat
    BY <1>2, BoundsAssumption
  <1>4. wasm.segments \in SeqOf(SeqOf(FunctionIndices, MaxElements), 2)
    BY <1>1 DEF Segments, FunctionIndices
  <1>5. wasm.segments \in Seq(SeqOf(FunctionIndices, MaxElements))
    BY <1>4, SeqOfFacts
  <1>6. SeqOf(FunctionIndices, MaxElements) \subseteq Seq(FunctionIndices)
    BY SeqOfFacts, BoundsAssumption
  <1>7. wasm.segments \in Seq(Seq(FunctionIndices))
    BY <1>5, <1>6, SeqMonotonic
  <1>8. wasm.exports \in SeqOf(Names \X FunctionIndices, 2)
    BY <1>1 DEF Exports, FunctionIndices
  <1>9. wasm.exports \in Seq(Names \X FunctionIndices)
    BY <1>8, SeqOfFacts
  <1>10. ASSUME NEW f \in wasm.flaws
         PROVE  /\ (f[1] \in {"initializer", "dataOffset"} => wasm.data > 0)
                /\ (f[1] = "elementOffset" => \E x \in 1 .. Len(wasm.segments) : f = <<"elementOffset", x>>)
                /\ (f[1] = "instruction" => \E i \in 1 .. wasm.funcs : f = <<"instruction", i>>)
    <2>1. f \in ({"memory"} \X {1}) \cup ({"initializer", "dataOffset"} \X (1 .. data))
                \cup ({"elementOffset"} \X DOMAIN ss) \cup ({"instruction"} \X (1 .. n))
                \cup ({"parameter", "result"} \X (1 .. Len(is) + n))
      BY <1>1 DEF Flaws
    <2>2. DOMAIN ss = 1 .. Len(wasm.segments)
      BY <1>1, <1>7
    <2>3. CASE f \in {"initializer", "dataOffset"} \X (1 .. data)
      BY <1>1, <1>3, <2>3
    <2>4. CASE f \in {"elementOffset"} \X DOMAIN ss
      BY <2>2, <2>4
    <2>5. CASE f \in {"instruction"} \X (1 .. n)
      BY <1>1, <2>5
    <2>6. CASE f \in ({"memory"} \X {1}) \cup ({"parameter", "result"} \X (1 .. Len(is) + n))
      BY <2>6
    <2> QED
      BY <2>1, <2>3, <2>4, <2>5, <2>6
  <1>11. Flawed(wasm, "initializer") \/ Flawed(wasm, "dataOffset") => wasm.data > 0
    BY <1>10 DEF Flawed
  <1> QED
    BY <1>1, <1>2, <1>3, <1>7, <1>9, <1>10, <1>11 DEF WellFormed

\* Min of a set of natural numbers is its least element.
LEMMA MinFacts ==
  ASSUME NEW S \in SUBSET Nat, S # {}
  PROVE  Min(S) \in S /\ \A y \in S : Min(S) <= y
  <1>1. PICK x \in S : \A y \in S : ~(<<y, x>> \in OpToRel(<, Nat))
    BY NatLessThanWellFounded, WFMin
  <1>2. ASSUME NEW y \in S, y < x
        PROVE  FALSE
    <2>1. <<y, x>> \in Nat \X Nat /\ <<y, x>>[1] = y /\ <<y, x>>[2] = x
      OBVIOUS
    <2>2. <<y, x>>[1] < <<y, x>>[2]
      BY <1>2
    <2>3. <<y, x>> \in OpToRel(<, Nat)
      BY <2>1, <2>2, Zenon DEF OpToRel
    <2> QED
      BY <1>1, <2>3
  <1>3. \A y \in S : x <= y
    BY <1>2
  <1> QED
    BY <1>3 DEF Min

\* A finite set made into a sequence: each element is in one place.
LEMMA SetToSeqFacts ==
  ASSUME NEW S, IsFiniteSet(S)
  PROVE  /\ SetToSeq(S) \in Seq(S)
         /\ \A p, q \in DOMAIN SetToSeq(S) : SetToSeq(S)[p] = SetToSeq(S)[q] => p = q
         /\ Range(SetToSeq(S)) = S
  <1> DEFINE n == Cardinality(S)
  <1>1. n \in Nat /\ ExistsBijection(1 .. n, S)
    BY FS_CardinalityType
  <1>2. PICK g \in Bijection(1 .. n, S) : TRUE
    BY <1>1 DEF ExistsBijection
  <1>3. g \in [1 .. n -> S] /\ IsInjective(g)
    BY <1>2 DEF Bijection, Injection, IsInjective
  <1>4. SetToSeq(S) \in [1 .. n -> S] /\ IsInjective(SetToSeq(S))
    BY <1>3 DEF SetToSeq
  <1> PICK f : f = SetToSeq(S)
    OBVIOUS
  <1>5. f \in Injection(1 .. n, S)
    BY <1>4 DEF Injection, IsInjective
  <1>6. Cardinality(1 .. n) = n
    BY <1>1, FS_Interval
  <1>7. f \in Surjection(1 .. n, S)
    BY <1>5, <1>6, FS_Injection
  <1>8. Range(f) = S
    BY <1>4, <1>7 DEF Surjection, Range
  <1>9. f \in Seq(S)
    BY <1>1, <1>4, SeqDef
  <1> QED
    BY <1>4, <1>8, <1>9 DEF IsInjective

-------------------------------------------------------------------------------
(* The static constructor. *)

\* ConstructorRuns, of one instruction.
RunsAt(p) ==
  CASE cctor[p][1] = "ret" -> p = Len(cctor)
    [] cctor[p][1] = "store" -> \E q \in 1 .. p - 1 : cctor[q][1] = "memory"
    [] cctor[p][1] = "slot" -> TablesAt(p) # {} /\ cctor[p][2] \in 0 .. cctor[LastTable(p)][2] - 1
    [] OTHER -> p < Len(cctor)

LEMMA Joined ==
  ASSUME NEW S, NEW s \in Seq(S), NEW t \in Seq(S)
  PROVE  /\ s \o t \in Seq(S) /\ Len(s \o t) = Len(s) + Len(t)
         /\ \A i \in 1 .. Len(s) + Len(t) : (s \o t)[i] = IF i <= Len(s) THEN s[i] ELSE t[i - Len(s)]
  OBVIOUS

LEMMA EmitFacts ==
  ASSUME cctor \in Seq(Instructions), Len(cctor) > 0, NEW code \in Seq(Instructions)
  PROVE  /\ Emit(code) \in Seq(Instructions)
         /\ Len(Emit(code)) = Len(cctor) + Len(code)
         /\ Emit(code)[Len(Emit(code))] = <<"ret">>
         /\ \A p \in 1 .. Len(cctor) - 1 : Emit(code)[p] = cctor[p]
         /\ \A j \in 1 .. Len(code) : Emit(code)[Len(cctor) - 1 + j] = code[j]
  <1> PICK n \in Nat : n = Len(cctor)
    OBVIOUS
  <1>1. \A i \in 1 .. n - 1 : cctor[i] \in Instructions
    OBVIOUS
  <1>2. /\ Front(cctor) \in Seq(Instructions) /\ Len(Front(cctor)) = n - 1
        /\ \A i \in 1 .. n - 1 : Front(cctor)[i] = cctor[i]
    BY <1>1, SubSeqProperties DEF Front
  <1> PICK f : f = Front(cctor)
    OBVIOUS
  <1> PICK g : g = f \o code
    OBVIOUS
  <1>3. /\ g \in Seq(Instructions) /\ Len(g) = n - 1 + Len(code)
        /\ \A i \in 1 .. n - 1 + Len(code) : g[i] = IF i <= n - 1 THEN f[i] ELSE code[i - (n - 1)]
    <2>1. f \in Seq(Instructions) /\ Len(f) = n - 1
      BY <1>2
    <2> QED
      BY <2>1, Joined
  <1>4. <<<<"ret">>>> \in Seq(Instructions)
    BY DEF Instructions
  <1> HIDE DEF Instructions
  <1> PICK h : h = g \o <<<<"ret">>>>
    OBVIOUS
  <1>5. /\ h \in Seq(Instructions) /\ Len(h) = n + Len(code) /\ h[Len(h)] = <<"ret">>
        /\ \A i \in 1 .. n - 1 + Len(code) : h[i] = g[i]
    BY <1>3, <1>4, ConcatProperties
  <1>6. Emit(code) = h
    BY DEF Emit
  <1>7. \A p \in 1 .. n - 1 : h[p] = cctor[p]
    BY <1>2, <1>3, <1>5
  <1>8. \A j \in 1 .. Len(code) : h[n - 1 + j] = code[j]
    BY <1>3, <1>5
  <1> QED
    BY <1>5, <1>6, <1>7, <1>8

\* LastTable(p) is the last place of a table up to p, if there is one.
LEMMA LastTableFacts ==
  ASSUME NEW p \in Nat, TablesAt(p) # {}
  PROVE  LastTable(p) \in TablesAt(p) /\ \A q \in TablesAt(p) : q <= LastTable(p)
  <1> DEFINE below == {p - q : q \in TablesAt(p)}
  <1>1. TablesAt(p) \subseteq 1 .. p
    BY DEF TablesAt
  <1>2. below \in SUBSET Nat /\ below # {}
    BY <1>1
  <1>3. PICK m \in below : \A y \in below : m <= y
    BY <1>2, MinFacts
  <1>4. PICK q \in TablesAt(p) : m = p - q
    BY <1>3
  <1>5. ASSUME NEW r \in TablesAt(p)
        PROVE  r <= q
    <2>1. p - r \in below
      OBVIOUS
    <2>2. m <= p - r
      BY <1>3, <2>1
    <2>3. r \in Nat /\ q \in Nat
      BY <1>1
    <2> QED
      BY <1>4, <2>2, <2>3
  <1> QED
    BY <1>4, <1>5 DEF LastTable

\* What was emitted before stays as it was.
LEMMA RunsAsBefore ==
  ASSUME ConstructorWritten, NEW code \in Seq(Instructions), cctor' = Emit(code),
         NEW p \in 1 .. Len(cctor) - 1
  PROVE  RunsAt(p)'
  <1>1. /\ Len(cctor') = Len(cctor) + Len(code) /\ cctor \in Seq(Instructions)
        /\ \A q \in 1 .. p : cctor'[q] = cctor[q]
    <2>1. cctor \in Seq(Instructions) /\ Len(cctor) > 0 /\ Len(cctor) \in Nat
      BY DEF ConstructorWritten
    <2>2. /\ Len(cctor') = Len(cctor) + Len(code)
          /\ \A q \in 1 .. Len(cctor) - 1 : cctor'[q] = cctor[q]
      BY <2>1, EmitFacts
    <2> QED
      BY <2>1, <2>2
  <1>2. RunsAt(p) /\ p < Len(cctor) /\ p < Len(cctor')
    BY <1>1 DEF ConstructorWritten, ConstructorRuns, RunsAt
  <1>3. TablesAt(p)' = TablesAt(p)
    BY <1>1 DEF TablesAt
  <1>4. LastTable(p)' = LastTable(p)
    BY <1>3 DEF LastTable
  <1>5. CASE cctor[p][1] = "slot"
    <2>1. TablesAt(p) # {} /\ cctor[p][2] \in 0 .. cctor[LastTable(p)][2] - 1
      BY <1>2, <1>5 DEF RunsAt
    <2>2. LastTable(p) \in 1 .. p
      <3>1. p \in Nat
        BY <1>1
      <3>2. LastTable(p) \in TablesAt(p)
        BY <2>1, <3>1, LastTableFacts
      <3> QED
        BY <3>2 DEF TablesAt
    <2> QED
      BY <1>1, <1>2, <1>3, <1>4, <1>5, <2>1, <2>2 DEF RunsAt
  <1> QED
    BY <1>1, <1>2, <1>5 DEF RunsAt

\* An instruction that is not about the table.
LEMMA OneEmitted ==
  ASSUME ConstructorWritten, NEW one \in {<<"memory">>, <<"global">>, <<"store">>}, cctor' = Emit(<<one>>),
         one = <<"store">> => \E q \in 1 .. Len(cctor) - 1 : cctor[q][1] = "memory"
  PROVE  /\ cctor' \in Seq(Instructions) /\ Len(cctor') > 0 /\ cctor'[Len(cctor')] = <<"ret">>
         /\ (one = <<"memory">> \/ (\E q \in 1 .. Len(cctor) - 1 : cctor[q][1] = "memory") =>
               \E q \in 1 .. Len(cctor') - 1 : cctor'[q][1] = "memory")
         /\ ConstructorRuns'
  <1>1. <<one>> \in Seq(Instructions)
    BY DEF Instructions
  <1> PICK n \in Nat : n = Len(cctor)
    BY DEF ConstructorWritten
  <1>2. /\ cctor' \in Seq(Instructions) /\ Len(cctor') = n + 1 /\ cctor'[n + 1] = <<"ret">>
        /\ (\A p \in 1 .. n - 1 : cctor'[p] = cctor[p]) /\ cctor'[n] = one /\ n > 0
    <2>1. Len(<<one>>) = 1 /\ <<one>>[1] = one /\ Len(cctor) > 0 /\ cctor \in Seq(Instructions)
      BY DEF ConstructorWritten
    <2>2. /\ cctor' \in Seq(Instructions) /\ Len(cctor') = n + 1 /\ cctor'[Len(cctor')] = <<"ret">>
          /\ \A p \in 1 .. n - 1 : cctor'[p] = cctor[p]
          /\ \A j \in 1 .. 1 : cctor'[n - 1 + j] = <<one>>[j]
      BY <1>1, <2>1, EmitFacts
    <2> QED
      BY <2>1, <2>2
  <1>3. ASSUME NEW p \in 1 .. n - 1
        PROVE  RunsAt(p)'
    BY <1>1, RunsAsBefore
  <1>4. RunsAt(n)'
    <2>1. CASE one = <<"store">>
      <3>1. PICK q \in 1 .. n - 1 : cctor[q][1] = "memory"
        BY <2>1
      <3>2. cctor'[q][1] = "memory" /\ cctor'[n][1] = "store"
        BY <1>2, <2>1, <3>1
      <3> QED
        BY <3>2 DEF RunsAt
    <2>2. CASE one # <<"store">>
      <3>1. cctor'[n][1] \notin {"ret", "store", "slot"} /\ n < Len(cctor')
        BY <1>2, <2>2
      <3> QED
        BY <3>1 DEF RunsAt
    <2> QED
      BY <2>1, <2>2
  <1>5. RunsAt(n + 1)'
    <2>1. cctor'[n + 1][1] = "ret" /\ n + 1 = Len(cctor')
      BY <1>2
    <2> QED
      BY <2>1 DEF RunsAt
  <1>6. \A p \in DOMAIN cctor' : p \in 1 .. n - 1 \/ p = n \/ p = n + 1
    BY <1>2
  <1>7. ConstructorRuns'
    BY <1>3, <1>4, <1>5, <1>6 DEF ConstructorRuns, RunsAt
  <1>8. (\E q \in 1 .. Len(cctor) - 1 : cctor[q][1] = "memory") => \E q \in 1 .. Len(cctor') - 1 : cctor'[q][1] = "memory"
    BY <1>2
  <1>9. one = <<"memory">> => \E q \in 1 .. Len(cctor') - 1 : cctor'[q][1] = "memory"
    BY <1>2
  <1> QED
    BY <1>2, <1>7, <1>8, <1>9

\* A new table and what fills it.
LEMMA FillFacts ==
  ASSUME NEW s, NEW S, s \in Seq(S), \A k \in S : TableMethod(k) \in MethodIds \cup {Null}
  PROVE  /\ Fill(s) \in Seq(Instructions) /\ Len(Fill(s)) = Len(s) + 1
         /\ Fill(s)[1] = <<"table", Len(s) + 1>>
         /\ \A j \in 1 .. Len(s) : Fill(s)[j + 1] = <<"slot", j, TableMethod(s[j])>>
  <1> PICK n \in Nat : n = Len(s)
    OBVIOUS
  <1> PICK slots : slots = [j \in DOMAIN s |-> <<"slot", j, TableMethod(s[j])>>]
    OBVIOUS
  <1> PICK table : table = <<"table", n + 1>>
    OBVIOUS
  <1>1. table \in Instructions
    BY DEF Instructions
  <1>2. ASSUME NEW j \in 1 .. n
        PROVE  /\ <<"slot", j, TableMethod(s[j])>> \in Instructions
    <2>1. TableMethod(s[j]) \in MethodIds \cup {Null} /\ j \in Nat
      OBVIOUS
    <2> HIDE DEF MethodIds, Null
    <2> QED
      BY <2>1 DEF Instructions
  <1>3. slots \in Seq(Instructions) /\ Len(slots) = n /\ \A j \in 1 .. n : slots[j] = <<"slot", j, TableMethod(s[j])>>
    <2> HIDE DEF Instructions, TableMethod
    <2> QED
      BY <1>2
  <1>4. <<table>> \in Seq(Instructions) /\ Len(<<table>>) = 1 /\ <<table>>[1] = table
    <2> HIDE DEF Instructions
    <2> QED
      BY <1>1
  <1> PICK one : one = <<table>>
    OBVIOUS
  <1> PICK f : f = one \o slots
    OBVIOUS
  <1> HIDE DEF Instructions, TableMethod
  <1>5. /\ f \in Seq(Instructions) /\ Len(f) = n + 1
        /\ \A i \in 1 .. n + 1 : f[i] = IF i <= 1 THEN one[i] ELSE slots[i - 1]
    BY <1>3, <1>4, Joined
  <1>6. Fill(s) = f
    BY DEF Fill
  <1>7. f[1] = table
    BY <1>4, <1>5
  <1>8. \A j \in 1 .. n : f[j + 1] = slots[j]
    BY <1>5
  <1> QED
    BY <1>3, <1>5, <1>6, <1>7, <1>8

LEMMA FillEmitted ==
  ASSUME ConstructorWritten, NEW s, NEW S, s \in Seq(S), \A k \in S : TableMethod(k) \in MethodIds \cup {Null},
         cctor' = Emit(Fill(s)), UNCHANGED ImportFuncs
  PROVE  /\ cctor' \in Seq(Instructions) /\ Len(cctor') > 0 /\ cctor'[Len(cctor')] = <<"ret">>
         /\ (\E q \in 1 .. Len(cctor) - 1 : cctor[q][1] = "memory") =>
               \E q \in 1 .. Len(cctor') - 1 : cctor'[q][1] = "memory"
         /\ ConstructorRuns'
         /\ \E b \in DOMAIN cctor' : FilledAt(b, s)'
  <1> PICK code : code = Fill(s)
    OBVIOUS
  <1> PICK n \in Nat : n = Len(cctor)
    BY DEF ConstructorWritten
  <1> PICK m \in Nat : m = Len(s)
    OBVIOUS
  <1>1. /\ code \in Seq(Instructions) /\ Len(code) = m + 1 /\ code[1] = <<"table", m + 1>>
        /\ \A j \in 1 .. m : code[j + 1] = <<"slot", j, TableMethod(s[j])>>
    BY FillFacts
  <1> HIDE DEF Instructions, TableMethod
  <1>2. /\ cctor' \in Seq(Instructions) /\ Len(cctor') = n + m + 1 /\ cctor'[n + m + 1] = <<"ret">> /\ n > 0
        /\ (\A p \in 1 .. n - 1 : cctor'[p] = cctor[p])
        /\ (\A j \in 1 .. m + 1 : cctor'[n - 1 + j] = code[j])
    <2>1. Len(cctor) > 0 /\ cctor \in Seq(Instructions)
      BY DEF ConstructorWritten
    <2>2. /\ cctor' \in Seq(Instructions) /\ Len(cctor') = n + Len(code) /\ cctor'[Len(cctor')] = <<"ret">>
          /\ \A p \in 1 .. n - 1 : cctor'[p] = cctor[p]
          /\ \A j \in 1 .. Len(code) : cctor'[n - 1 + j] = code[j]
      BY <1>1, <2>1, EmitFacts
    <2> QED
      BY <1>1, <2>1, <2>2
  <1>3. cctor'[n] = <<"table", m + 1>>
    <2>1. 1 \in 1 .. m + 1 /\ n - 1 + 1 = n
      OBVIOUS
    <2> QED
      BY <1>1, <1>2, <2>1
  <1>4. ASSUME NEW j \in 1 .. m
        PROVE  cctor'[n + j] = <<"slot", j, TableMethod(s[j])>>
    <2>1. j + 1 \in 1 .. m + 1 /\ n - 1 + (j + 1) = n + j
      OBVIOUS
    <2> QED
      BY <1>1, <1>2, <2>1
  <1>5. ASSUME NEW p \in 1 .. n - 1
        PROVE  RunsAt(p)'
    BY <1>1, RunsAsBefore
  <1>6. RunsAt(n)'
    <2>1. cctor'[n][1] = "table" /\ n < Len(cctor')
      BY <1>2, <1>3
    <2> QED
      BY <2>1 DEF RunsAt
  <1>7. ASSUME NEW j \in 1 .. m
        PROVE  RunsAt(n + j)'
    <2>1. cctor'[n + j][1] = "slot" /\ cctor'[n + j][2] = j
      BY <1>4
    <2>2. n \in TablesAt(n + j)'
      BY <1>2, <1>3 DEF TablesAt
    <2>3. \A q \in TablesAt(n + j)' : q <= n
      <3>1. SUFFICES ASSUME NEW i \in 1 .. j
                     PROVE  cctor'[n + i][1] # "table"
        BY DEF TablesAt
      <3>2. i \in 1 .. m
        OBVIOUS
      <3> QED
        BY <1>4, <3>2
    <2>4. LastTable(n + j)' = n
      <3>1. \A q \in TablesAt(n + j)' : q \in Nat
        BY DEF TablesAt
      <3>2. \E q \in TablesAt(n + j)' : \A r \in TablesAt(n + j)' : r <= q
        BY <2>2, <2>3
      <3>3. LastTable(n + j)' \in TablesAt(n + j)' /\ \A r \in TablesAt(n + j)' : r <= LastTable(n + j)'
        BY <3>2 DEF LastTable
      <3> QED
        BY <2>2, <2>3, <3>1, <3>3
    <2>5. j \in 0 .. cctor'[n][2] - 1
      BY <1>3
    <2> QED
      BY <2>1, <2>2, <2>4, <2>5 DEF RunsAt
  <1>8. RunsAt(n + m + 1)'
    <2>1. cctor'[n + m + 1][1] = "ret" /\ n + m + 1 = Len(cctor')
      BY <1>2
    <2> QED
      BY <2>1 DEF RunsAt
  <1>9. ConstructorRuns'
    <2>1. ASSUME NEW p \in DOMAIN cctor'
          PROVE  p \in 1 .. n - 1 \/ p = n \/ (\E j \in 1 .. m : p = n + j) \/ p = n + m + 1
      <3>1. p \in 1 .. n + m + 1
        BY <1>2
      <3>2. n + 1 <= p /\ p <= n + m => p - n \in 1 .. m /\ p = n + (p - n)
        BY <3>1
      <3>3. p < n \/ p = n \/ (n + 1 <= p /\ p <= n + m) \/ p = n + m + 1
        BY <3>1
      <3>4. p < n => p \in 1 .. n - 1
        BY <3>1
      <3> QED
        BY <3>2, <3>3, <3>4, Zenon
    <2>2. \A p \in DOMAIN cctor' : RunsAt(p)'
      BY <1>5, <1>6, <1>7, <1>8, <2>1
    <2> QED
      BY <2>2 DEF ConstructorRuns, RunsAt
  <1>10. (\E q \in 1 .. n - 1 : cctor[q][1] = "memory") => \E q \in 1 .. Len(cctor') - 1 : cctor'[q][1] = "memory"
    BY <1>2
  <1>11. FilledAt(n, s)'
    <2>1. \A k : TableMethod(k)' = TableMethod(k)
      BY DEF TableMethod
    <2>2. ASSUME NEW j \in DOMAIN s
          PROVE  cctor'[n + j] = <<"slot", j, TableMethod(s[j])'>>
      <3>1. j \in 1 .. m
        OBVIOUS
      <3> QED
        BY <1>4, <2>1, <3>1
    <2>3. Len(cctor') = n + Len(s) + 1 /\ cctor'[n] = <<"table", Len(s) + 1>>
      BY <1>2, <1>3
    <2> QED
      BY <2>2, <2>3, Zenon DEF FilledAt
  <1>12. n \in DOMAIN cctor' /\ Len(cctor') > 0 /\ cctor'[Len(cctor')] = <<"ret">>
    BY <1>2
  <1> QED
    BY <1>2, <1>9, <1>10, <1>11, <1>12, Zenon

-------------------------------------------------------------------------------
(* The sections. *)

LEMMA InitBuilt == Init => Built
  <1> SUFFICES ASSUME Init
               PROVE  Built
    OBVIOUS
  <1>1. WellFormed
    <2>1. PICK is \in SeqOf(Names, MaxImports), n \in 0 .. MaxFuncs, data \in 0 .. 1 :
            \E ss \in Segments(1 .. Len(is) + n) : wasm \in ModulesWith(is, n, ss, data)
      BY DEF Init
    <2> QED
      BY <2>1, ModuleFacts
  <1>2. Len(wasm.imports) \in Nat /\ Len(wasm.segments) \in Nat /\ wasm.funcs \in Nat
    BY <1>1 DEF WellFormed
  <1>3. /\ ImportFuncs = <<>> /\ FuncDecl = <<>> /\ DOMAIN ExportFunc = {} /\ methods = <<>> /\ calls = {}
        /\ stage = "sections" /\ filled = 0
    BY DEF Init
  <1>4. TypeOK
    <2>1. left \subseteq Range(Order) /\ elementSeen \in BOOLEAN /\ codeSeen \in BOOLEAN
      BY DEF Init
    <2>2. Range(ExportFunc) = {}
      BY <1>3 DEF Range
    <2> QED
      BY <1>2, <1>3, <2>1, <2>2 DEF TypeOK, Stages
  <1>5. SectionsInOrder
    <2>1. /\ \A kind \in left : Has(wasm, kind)
          /\ \A x \in DOMAIN Order : Has(wasm, Order[x]) => Order[x] \in left
      BY DEF Init, Range
    <2>2. /\ Order[2] = "function" /\ Order[9] = "name" /\ Order[3] = "memory" /\ Order[8] = "data"
          /\ Order[6] = "element" /\ Order[7] = "code" /\ Order[1] = "import" /\ Order[4] = "global"
          /\ {1, 2, 3, 4, 6, 7, 8, 9} \subseteq DOMAIN Order
      BY DEF Order
    <2>3. /\ ("function" \in left => wasm.funcs > 0) /\ (wasm.funcs > 0 => "name" \in left)
          /\ ("memory" \in left => wasm.data > 0) /\ (wasm.data > 0 => "data" \in left)
          /\ (wasm.funcs > 0 => "code" \in left) /\ (wasm.segments # <<>> => "element" \in left)
      BY <2>1, <2>2 DEF Has
    <2>4. ~elementSeen /\ ~codeSeen
      BY DEF Init
    <2>5. FlawsAhead
      <3>1. /\ (Flawed(wasm, "memory") => Has(wasm, "import"))
            /\ (Flawed(wasm, "initializer") => Has(wasm, "global"))
            /\ (Flawed(wasm, "dataOffset") => Has(wasm, "data"))
        BY <1>1 DEF Has, WellFormed
      <3> QED
        BY <2>1, <2>2, <3>1 DEF FlawsAhead
    <2>6. stage \notin Refusals
      BY <1>3 DEF Refusals
    <2> QED
      BY <1>3, <2>1, <2>3, <2>4, <2>5, <2>6, Zenon DEF SectionsInOrder
  <1>6. ImportsRead /\ FunctionsRead /\ ExportsRead
    <2>1. /\ \A x \in DOMAIN Order : Has(wasm, Order[x]) => Order[x] \in left
          /\ Order[1] = "import" /\ Order[2] = "function" /\ Order[5] = "export"
          /\ {1, 2, 5} \subseteq DOMAIN Order
      BY DEF Init, Range, Order
    <2>2. /\ ("import" \in left \/ wasm.imports = <<>>) /\ ("function" \in left \/ ~(wasm.funcs > 0))
          /\ ("export" \in left \/ wasm.exports = <<>>)
      BY <2>1 DEF Has
    <2>3. ImportsRead
      BY <1>3, <2>2 DEF ImportsRead
    <2>4. FunctionsRead
      BY <1>2, <1>3, <2>2 DEF FunctionsRead
    <2>5. wasm.exports = <<>> => {wasm.exports[x][2] : x \in DOMAIN wasm.exports} = {}
      OBVIOUS
    <2>6. ExportsRead
      BY <1>3, <2>2, <2>5 DEF ExportsRead
    <2> QED
      BY <2>3, <2>4, <2>6
  <1>7. ConstructorWritten
    <2>1. cctor = <<<<"nop">>, <<"ret">>>>
      BY DEF Init
    <2>2. cctor \in Seq(Instructions) /\ Len(cctor) = 2 /\ cctor[1] = <<"nop">> /\ cctor[2] = <<"ret">>
      BY <2>1 DEF Instructions
    <2>3. /\ \A x \in DOMAIN Order : Has(wasm, Order[x]) => Order[x] \in left
          /\ Order[3] = "memory" /\ 3 \in DOMAIN Order
      BY DEF Init, Range, Order
    <2>4. "memory" \notin left => ~(wasm.data > 0) \/ Flawed(wasm, "memory")
      BY <2>3 DEF Has
    <2>5. ConstructorRuns
      BY <2>2 DEF ConstructorRuns
    <2> QED
      BY <2>2, <2>4, <2>5 DEF ConstructorWritten
  <1>8. TableFilled
    BY <1>3 DEF TableFilled
  <1>9. MethodsMade
    <2>1. Range(methods) = {}
      BY <1>3 DEF Range
    <2>2. CodeMethods = {}
      BY <2>1 DEF CodeMethods
    <2>3. Translated = 0 /\ IsFiniteSet(CodeMethods)
      BY <2>2, FS_EmptySet DEF Translated, CodeMethods
    <2> QED
      BY <1>2, <1>3, <2>3 DEF MethodsMade
  <1>10. CallsMade /\ RefusedOnlyNamed
    BY <1>3 DEF CallsMade, RefusedOnlyNamed, AlwaysThrow
  <1> QED
    BY <1>1, <1>4, <1>5, <1>6, <1>7, <1>8, <1>9, <1>10 DEF Built

LEMMA SectionFacts ==
  ASSUME Built, NEW kind, Section(kind)
  PROVE  /\ stage = "sections" /\ kind \in left /\ left' = left \ {kind} /\ Has(wasm, kind)
         /\ left \subseteq Range(Order)
         /\ (kind = "name" => "function" \notin left)
         /\ (kind = "data" => "memory" \notin left /\ "import" \notin left)
  <1>1. /\ stage = "sections" /\ kind \in left /\ left' = left \ {kind} /\ Has(wasm, kind)
        /\ left \subseteq Range(Order)
    BY DEF Section, NextSection, Built, SectionsInOrder, TypeOK
  <1>2. PICK x \in DOMAIN Order : Order[x] = kind /\ \A y \in 1 .. x - 1 : Order[y] \notin left
    BY DEF Section, NextSection
  <1>3. kind = "name" => x = 9
    BY <1>2 DEF Order
  <1>4. kind = "data" => x = 8
    BY <1>2 DEF Order
  <1>5. Order[1] = "import" /\ Order[2] = "function" /\ Order[3] = "memory"
    BY DEF Order
  <1> QED
    BY <1>1, <1>2, <1>3, <1>4, <1>5

\* What no section is about.
LEMMA SectionRest ==
  ASSUME Built, stage = "sections", UNCHANGED <<stage, wasm, filled, methods, calls>>
  PROVE  WellFormed' /\ TableFilled' /\ MethodsMade' /\ CallsMade' /\ RefusedOnlyNamed'
  <1>1. WellFormed'
    BY DEF Built, WellFormed, FunctionIndices
  <1>2. filled' = 0 /\ stage' = "sections" /\ methods' = methods /\ calls' = {}
    BY DEF Built, TableFilled, CallsMade
  <1>3. TableFilled'
    BY <1>2 DEF TableFilled
  <1>4. MethodsMade'
    <2>1. CodeMethods' = CodeMethods /\ Translated' = Translated
      BY DEF CodeMethods, Translated
    <2> QED
      BY <1>2, <2>1 DEF Built, MethodsMade
  <1>5. CallsMade' /\ RefusedOnlyNamed'
    BY <1>2 DEF CallsMade, RefusedOnlyNamed, AlwaysThrow
  <1> QED
    BY <1>1, <1>3, <1>4, <1>5

\* The order of the sections, of which one is read.
LEMMA SectionOrder ==
  ASSUME Built, NEW kind, Section(kind), UNCHANGED <<stage, wasm>>,
         elementSeen' <=> (kind = "element" \/ elementSeen), codeSeen' <=> (kind = "code" \/ codeSeen),
         /\ (kind = "import" => ~Flawed(wasm, "memory")) /\ (kind = "global" => ~Flawed(wasm, "initializer"))
         /\ (kind = "data" => ~Flawed(wasm, "dataOffset"))
  PROVE  SectionsInOrder'
  <1>1. /\ left' = left \ {kind} /\ Has(wasm, kind) /\ stage' = "sections"
        /\ (kind = "name" => "function" \notin left) /\ (kind = "data" => "memory" \notin left)
    BY SectionFacts
  <1>2. /\ \A other \in left : Has(wasm, other)
        /\ ("function" \in left => "name" \in left) /\ ("memory" \in left => "data" \in left)
        /\ (elementSeen <=> ("element" \notin left /\ wasm.segments # <<>>))
        /\ (codeSeen <=> ("code" \notin left /\ wasm.funcs > 0))
    BY DEF Built, SectionsInOrder
  <1>3. (kind = "element" => wasm.segments # <<>>) /\ (kind = "code" => wasm.funcs > 0)
    BY <1>1 DEF Has
  <1>4. elementSeen' <=> ("element" \notin left' /\ wasm.segments # <<>>)
    <2>1. "element" \in left' <=> "element" \in left /\ kind # "element"
      BY <1>1
    <2>2. CASE kind = "element"
      BY <1>3, <2>1, <2>2, Zenon
    <2>3. CASE kind # "element"
      BY <1>2, <2>1, <2>3, Zenon
    <2> QED
      BY <2>2, <2>3, Zenon
  <1>5. codeSeen' <=> ("code" \notin left' /\ wasm.funcs > 0)
    <2>1. "code" \in left' <=> "code" \in left /\ kind # "code"
      BY <1>1
    <2>2. CASE kind = "code"
      BY <1>3, <2>1, <2>2, Zenon
    <2>3. CASE kind # "code"
      BY <1>2, <2>1, <2>3, Zenon
    <2> QED
      BY <2>2, <2>3, Zenon
  <1>6. \A other \in left' : Has(wasm', other)
    BY <1>1, <1>2
  <1>7. ("function" \in left' => "name" \in left') /\ ("memory" \in left' => "data" \in left')
    BY <1>1, <1>2
  <1>8. wasm'.segments = wasm.segments /\ wasm'.funcs = wasm.funcs
    OBVIOUS
  <1>9. FlawsAhead' /\ stage' \notin Refusals
    BY <1>1 DEF Built, SectionsInOrder, FlawsAhead, Flawed
  <1> QED
    BY <1>1, <1>4, <1>5, <1>6, <1>7, <1>8, <1>9, Zenon DEF SectionsInOrder

LEMMA SequenceOf ==
  ASSUME NEW n \in Nat, NEW S, NEW s, s \in [1 .. n -> S]
  PROVE  s \in Seq(S) /\ Len(s) = n
  OBVIOUS

LEMMA ImportsKept ==
  ASSUME Built, stage = "sections", UNCHANGED <<stage, wasm, ImportFuncs>>, "import" \in left' <=> "import" \in left
  PROVE  ImportsRead'
  <1>1. ImportsRead /\ wasm'.imports = wasm.imports
    BY DEF Built
  <1> QED
    BY <1>1 DEF ImportsRead

LEMMA FunctionsKept ==
  ASSUME Built, stage = "sections", UNCHANGED <<stage, wasm, FuncDecl>>,
         "function" \in left' <=> "function" \in left, "name" \in left' <=> "name" \in left
  PROVE  FunctionsRead'
  <1>1. FunctionsRead /\ wasm'.funcs = wasm.funcs /\ wasm'.debug = wasm.debug
    BY DEF Built
  <1> QED
    BY <1>1 DEF FunctionsRead

LEMMA ExportsKept ==
  ASSUME Built, UNCHANGED <<wasm, ExportFunc>>, "export" \in left' <=> "export" \in left
  PROVE  ExportsRead'
  <1>1. ExportsRead /\ wasm'.exports = wasm.exports
    BY DEF Built
  <1>2. \A k : Exported(k)' = Exported(k)
    BY DEF Exported
  <1> QED
    BY <1>1, <1>2 DEF ExportsRead

LEMMA ConstructorKept ==
  ASSUME Built, UNCHANGED <<wasm, cctor>>, "memory" \notin left' => "memory" \notin left
  PROVE  ConstructorWritten'
  <1>1. ConstructorWritten /\ wasm'.data = wasm.data /\ Flawed(wasm', "memory") = Flawed(wasm, "memory")
    BY DEF Built
  <1>2. \A p : TablesAt(p)' = TablesAt(p) /\ LastTable(p)' = LastTable(p)
    BY DEF TablesAt, LastTable
  <1>3. ConstructorRuns'
    BY <1>1, <1>2 DEF ConstructorWritten, ConstructorRuns
  <1> QED
    BY <1>1, <1>3 DEF ConstructorWritten

ImportFuncTypes == ImportFuncs \in Seq([name : Names, method : MethodIds \cup {Null}]) /\ Len(ImportFuncs) <= Len(wasm.imports)
FuncDeclTypes == FuncDecl \in Seq([importName : Names \cup {NoName}, name : MethodNames]) /\ Len(FuncDecl) <= wasm.funcs
ExportFuncTypes == DOMAIN ExportFunc \subseteq Nat /\ Range(ExportFunc) \subseteq Names

LEMMA TypesKept ==
  ASSUME Built, NEW kind, Section(kind), UNCHANGED <<stage, wasm, filled, methods, calls>>,
         elementSeen' \in BOOLEAN, codeSeen' \in BOOLEAN,
         ImportFuncTypes' \/ UNCHANGED ImportFuncs, FuncDeclTypes' \/ UNCHANGED FuncDecl,
         ExportFuncTypes' \/ UNCHANGED ExportFunc
  PROVE  TypeOK'
  <1>1. left' \subseteq Range(Order)
    BY SectionFacts
  <1>2. TypeOK /\ wasm'.segments = wasm.segments /\ wasm'.imports = wasm.imports /\ wasm'.funcs = wasm.funcs
    BY DEF Built
  <1>3. ImportFuncTypes' /\ FuncDeclTypes'
    BY <1>2 DEF TypeOK, ImportFuncTypes, FuncDeclTypes
  <1>4. ExportFuncTypes'
    BY <1>2 DEF TypeOK, ExportFuncTypes, Range
  <1>5. /\ filled' \in 0 .. Len(wasm'.segments) /\ stage' \in Stages
        /\ methods' \in Seq([id : MethodIds, name : MethodNames, does : Behaviours])
        /\ calls' \subseteq Nat \X MethodIds
    BY <1>2 DEF TypeOK
  <1> QED
    BY <1>1, <1>3, <1>4, <1>5, Zenon DEF TypeOK, ImportFuncTypes, FuncDeclTypes, ExportFuncTypes

LEMMA ImportSectionIInv == Built /\ ReadImportSection /\ stage' \notin Refusals => Built'
  <1> SUFFICES ASSUME Built, ReadImportSection, stage' \notin Refusals
               PROVE  Built'
    OBVIOUS
  <1>0. Accept("import", "memory")
    BY DEF ReadImportSection, RefuseSection, Refuse, Refusals
  <1>1. /\ Section("import") /\ ~Flawed(wasm, "memory") /\ stage = "sections" /\ left' = left \ {"import"} /\ "import" \in left
        /\ UNCHANGED <<wasm, stage, elementSeen, codeSeen, filled, FuncDecl, ExportFunc, cctor, methods, calls>>
        /\ ImportFuncs' = [k \in DOMAIN wasm.imports |-> [name |-> wasm.imports[k], method |-> Null]]
        /\ left \subseteq Range(Order)
    BY <1>0, SectionFacts DEF ReadImportSection, RefuseSection, Refuse, Refusals, Accept
  <1>2. /\ WellFormed' /\ TableFilled' /\ MethodsMade' /\ CallsMade' /\ RefusedOnlyNamed'
    BY <1>1, SectionRest
  <1>3. SectionsInOrder'
    BY <1>1, SectionOrder
  <1>4. FunctionsRead' /\ ExportsRead' /\ ConstructorWritten'
    BY <1>1, FunctionsKept, ExportsKept, ConstructorKept
  <1>5. wasm.imports \in Seq(Names) /\ wasm'.imports = wasm.imports
    BY <1>1 DEF Built, WellFormed
  <1>6. ImportFuncs' \in Seq([name : Names, method : MethodIds \cup {Null}]) /\ Len(ImportFuncs') = Len(wasm.imports)
    <2>1. Len(wasm.imports) \in Nat /\ DOMAIN wasm.imports = 1 .. Len(wasm.imports)
      BY <1>5
    <2>2. \A k \in 1 .. Len(wasm.imports) : wasm.imports[k] \in Names
      BY <1>5
    <2>3. ImportFuncs' \in [1 .. Len(wasm.imports) -> [name : Names, method : MethodIds \cup {Null}]]
      BY <1>1, <2>1, <2>2
    <2> QED
      BY <2>1, <2>3, SequenceOf
  <1>7. ImportsRead'
    BY <1>1, <1>5, <1>6 DEF ImportsRead
  <1>8. TypeOK'
    <2>1. ImportFuncTypes'
      BY <1>5, <1>6 DEF ImportFuncTypes
    <2>2. elementSeen' \in BOOLEAN /\ codeSeen' \in BOOLEAN
      BY <1>1 DEF Built, TypeOK
    <2> QED
      BY <1>1, <2>1, <2>2, TypesKept
  <1> QED
    BY <1>2, <1>3, <1>4, <1>7, <1>8 DEF Built

LEMMA FunctionSectionIInv == Built /\ ReadFunctionSection => Built'
  <1> SUFFICES ASSUME Built, ReadFunctionSection
               PROVE  Built'
    OBVIOUS
  <1>1. /\ Section("function") /\ stage = "sections" /\ left' = left \ {"function"} /\ "function" \in left
        /\ UNCHANGED <<wasm, stage, elementSeen, codeSeen, filled, ImportFuncs, ExportFunc, cctor, methods, calls>>
        /\ FuncDecl' = [i \in 1 .. wasm.funcs |-> [importName |-> NoName, name |-> <<"func", i>>]]
        /\ left \subseteq Range(Order)
    BY SectionFacts DEF ReadFunctionSection
  <1>2. /\ WellFormed' /\ TableFilled' /\ MethodsMade' /\ CallsMade' /\ RefusedOnlyNamed'
    BY <1>1, SectionRest
  <1>3. SectionsInOrder'
    BY <1>1, SectionOrder
  <1>4. ImportsRead' /\ ExportsRead' /\ ConstructorWritten'
    BY <1>1, ImportsKept, ExportsKept, ConstructorKept
  <1>5. wasm.funcs \in Nat /\ wasm'.funcs = wasm.funcs /\ wasm'.imports = wasm.imports
    BY <1>1 DEF Built, WellFormed
  <1>6. FuncDecl' \in Seq([importName : Names \cup {NoName}, name : MethodNames]) /\ Len(FuncDecl') = wasm.funcs
    <2>1. \A i \in 1 .. wasm.funcs : <<"func", i>> \in MethodNames
      BY <1>5 DEF MethodNames
    <2>2. FuncDecl' \in [1 .. wasm.funcs -> [importName : Names \cup {NoName}, name : MethodNames]]
      BY <1>1, <2>1
    <2> QED
      BY <1>5, <2>2, SequenceOf
  <1>7. "name" \in left'
    BY <1>1 DEF Built, SectionsInOrder
  <1>8. FunctionsRead'
    BY <1>1, <1>5, <1>6, <1>7 DEF FunctionsRead
  <1>9. TypeOK'
    <2>1. FuncDeclTypes'
      BY <1>5, <1>6 DEF FuncDeclTypes
    <2>2. elementSeen' \in BOOLEAN /\ codeSeen' \in BOOLEAN
      BY <1>1 DEF Built, TypeOK
    <2> QED
      BY <1>1, <2>1, <2>2, TypesKept
  <1> QED
    BY <1>2, <1>3, <1>4, <1>8, <1>9 DEF Built

LEMMA MemorySectionIInv == Built /\ ReadMemorySection => Built'
  <1> SUFFICES ASSUME Built, ReadMemorySection
               PROVE  Built'
    OBVIOUS
  <1>1. /\ Section("memory") /\ stage = "sections" /\ left' = left \ {"memory"} /\ "memory" \in left
        /\ UNCHANGED <<wasm, stage, elementSeen, codeSeen, filled, ImportFuncs, FuncDecl, ExportFunc, methods, calls>>
        /\ cctor' = Emit(<<<<"memory">>>>) /\ left \subseteq Range(Order)
    BY SectionFacts DEF ReadMemorySection
  <1>2. WellFormed' /\ TableFilled' /\ MethodsMade' /\ CallsMade' /\ RefusedOnlyNamed'
    BY <1>1, SectionRest
  <1>3. SectionsInOrder'
    BY <1>1, SectionOrder
  <1>4. ImportsRead' /\ FunctionsRead' /\ ExportsRead'
    BY <1>1, ImportsKept, FunctionsKept, ExportsKept
  <1>5. TypeOK'
    <2>1. elementSeen' \in BOOLEAN /\ codeSeen' \in BOOLEAN
      BY <1>1 DEF Built, TypeOK
    <2> QED
      BY <1>1, <2>1, TypesKept
  <1>6. ConstructorWritten'
    <2>1. /\ ConstructorWritten
          /\ ("memory" \notin left /\ wasm.data > 0 /\ ~Flawed(wasm, "memory") =>
                \E q \in 1 .. Len(cctor) - 1 : cctor[q][1] = "memory")
      BY DEF Built, ConstructorWritten
    <2>2. /\ cctor' \in Seq(Instructions) /\ Len(cctor') > 0 /\ cctor'[Len(cctor')] = <<"ret">>
          /\ \E q \in 1 .. Len(cctor') - 1 : cctor'[q][1] = "memory"
          /\ ConstructorRuns'
      BY <1>1, <2>1, OneEmitted
    <2> QED
      BY <2>2, Zenon DEF ConstructorWritten
  <1> QED
    BY <1>2, <1>3, <1>4, <1>5, <1>6 DEF Built

LEMMA GlobalSectionIInv == Built /\ ReadGlobalSection /\ stage' \notin Refusals => Built'
  <1> SUFFICES ASSUME Built, ReadGlobalSection, stage' \notin Refusals
               PROVE  Built'
    OBVIOUS
  <1>0. Accept("global", "initializer")
    BY DEF ReadGlobalSection, RefuseSection, Refuse, Refusals
  <1>1. /\ Section("global") /\ ~Flawed(wasm, "initializer") /\ stage = "sections" /\ left' = left \ {"global"} /\ "global" \in left
        /\ UNCHANGED <<wasm, stage, elementSeen, codeSeen, filled, ImportFuncs, FuncDecl, ExportFunc, methods, calls>>
        /\ cctor' = Emit(<<<<"global">>>>) /\ left \subseteq Range(Order)
    BY <1>0, SectionFacts DEF ReadGlobalSection, RefuseSection, Refuse, Refusals, Accept
  <1>2. WellFormed' /\ TableFilled' /\ MethodsMade' /\ CallsMade' /\ RefusedOnlyNamed'
    BY <1>1, SectionRest
  <1>3. SectionsInOrder'
    BY <1>1, SectionOrder
  <1>4. ImportsRead' /\ FunctionsRead' /\ ExportsRead'
    BY <1>1, ImportsKept, FunctionsKept, ExportsKept
  <1>5. TypeOK'
    <2>1. elementSeen' \in BOOLEAN /\ codeSeen' \in BOOLEAN
      BY <1>1 DEF Built, TypeOK
    <2> QED
      BY <1>1, <2>1, TypesKept
  <1>6. ConstructorWritten'
    <2>1. /\ ConstructorWritten
          /\ ("memory" \notin left /\ wasm.data > 0 /\ ~Flawed(wasm, "memory") =>
                \E q \in 1 .. Len(cctor) - 1 : cctor[q][1] = "memory")
      BY DEF Built, ConstructorWritten
    <2>2. /\ cctor' \in Seq(Instructions) /\ Len(cctor') > 0 /\ cctor'[Len(cctor')] = <<"ret">>
          /\ ((\E q \in 1 .. Len(cctor) - 1 : cctor[q][1] = "memory") =>
                \E q \in 1 .. Len(cctor') - 1 : cctor'[q][1] = "memory")
          /\ ConstructorRuns'
      BY <1>1, <2>1, OneEmitted
    <2>3. ("memory" \notin left' => "memory" \notin left) /\ wasm' = wasm
      BY <1>1
    <2> QED
      BY <2>1, <2>2, <2>3, Zenon DEF ConstructorWritten
  <1> QED
    BY <1>2, <1>3, <1>4, <1>5, <1>6 DEF Built

LEMMA DataSectionIInv == Built /\ ReadDataSection /\ stage' \notin Refusals => Built'
  <1> SUFFICES ASSUME Built, ReadDataSection, stage' \notin Refusals
               PROVE  Built'
    OBVIOUS
  <1>0. Accept("data", "dataOffset")
    BY DEF ReadDataSection, RefuseSection, Refuse, Refusals
  <1>1. /\ Section("data") /\ ~Flawed(wasm, "dataOffset") /\ stage = "sections" /\ left' = left \ {"data"} /\ "data" \in left
        /\ UNCHANGED <<wasm, stage, elementSeen, codeSeen, filled, ImportFuncs, FuncDecl, ExportFunc, methods, calls>>
        /\ cctor' = Emit(<<<<"store">>>>) /\ left \subseteq Range(Order)
        /\ "memory" \notin left /\ "import" \notin left /\ Has(wasm, "data")
    BY <1>0, SectionFacts DEF ReadDataSection, RefuseSection, Refuse, Refusals, Accept
  <1>2. WellFormed' /\ TableFilled' /\ MethodsMade' /\ CallsMade' /\ RefusedOnlyNamed'
    BY <1>1, SectionRest
  <1>3. SectionsInOrder'
    BY <1>1, SectionOrder
  <1>4. ImportsRead' /\ FunctionsRead' /\ ExportsRead'
    BY <1>1, ImportsKept, FunctionsKept, ExportsKept
  <1>5. TypeOK'
    <2>1. elementSeen' \in BOOLEAN /\ codeSeen' \in BOOLEAN
      BY <1>1 DEF Built, TypeOK
    <2> QED
      BY <1>1, <2>1, TypesKept
  <1>6. ConstructorWritten'
    <2>1. /\ ConstructorWritten
          /\ ("memory" \notin left /\ wasm.data > 0 /\ ~Flawed(wasm, "memory") =>
                \E q \in 1 .. Len(cctor) - 1 : cctor[q][1] = "memory")
      BY DEF Built, ConstructorWritten
    <2>2. wasm.data > 0 /\ ~Flawed(wasm, "memory")
      BY <1>1 DEF Has, Built, SectionsInOrder, FlawsAhead
    <2>3. \E q \in 1 .. Len(cctor) - 1 : cctor[q][1] = "memory"
      BY <1>1, <2>1, <2>2
    <2>4. /\ cctor' \in Seq(Instructions) /\ Len(cctor') > 0 /\ cctor'[Len(cctor')] = <<"ret">>
          /\ ((\E q \in 1 .. Len(cctor) - 1 : cctor[q][1] = "memory") =>
                \E q \in 1 .. Len(cctor') - 1 : cctor'[q][1] = "memory")
          /\ ConstructorRuns'
      BY <1>1, <2>1, <2>3, OneEmitted
    <2>5. ("memory" \notin left' => "memory" \notin left) /\ wasm' = wasm
      BY <1>1
    <2> QED
      BY <2>1, <2>4, <2>5, Zenon DEF ConstructorWritten
  <1> QED
    BY <1>2, <1>3, <1>4, <1>5, <1>6 DEF Built

LEMMA ElementLaterIInv == Built /\ ReadElementLater => Built'
  <1> SUFFICES ASSUME Built, ReadElementLater
               PROVE  Built'
    OBVIOUS
  <1>1. /\ Section("element") /\ stage = "sections" /\ left' = left \ {"element"} /\ "element" \in left
        /\ UNCHANGED <<wasm, stage, codeSeen, filled, ImportFuncs, FuncDecl, ExportFunc, cctor, methods, calls>>
        /\ elementSeen' = TRUE
    BY SectionFacts DEF ReadElementLater
  <1>2. WellFormed' /\ TableFilled' /\ MethodsMade' /\ CallsMade' /\ RefusedOnlyNamed'
    BY <1>1, SectionRest
  <1>3. SectionsInOrder'
    BY <1>1, SectionOrder
  <1>4. ImportsRead' /\ FunctionsRead' /\ ExportsRead' /\ ConstructorWritten'
    BY <1>1, ImportsKept, FunctionsKept, ExportsKept, ConstructorKept
  <1>5. TypeOK'
    <2>1. elementSeen' \in BOOLEAN /\ codeSeen' \in BOOLEAN
      BY <1>1 DEF Built, TypeOK
    <2> QED
      BY <1>1, <2>1, TypesKept
  <1> QED
    BY <1>2, <1>3, <1>4, <1>5 DEF Built

LEMMA CodeLaterIInv == Built /\ ReadCodeLater => Built'
  <1> SUFFICES ASSUME Built, ReadCodeLater
               PROVE  Built'
    OBVIOUS
  <1>1. /\ Section("code") /\ stage = "sections" /\ left' = left \ {"code"} /\ "code" \in left
        /\ UNCHANGED <<wasm, stage, elementSeen, filled, ImportFuncs, FuncDecl, ExportFunc, cctor, methods, calls>>
        /\ codeSeen' = TRUE
    BY SectionFacts DEF ReadCodeLater
  <1>2. WellFormed' /\ TableFilled' /\ MethodsMade' /\ CallsMade' /\ RefusedOnlyNamed'
    BY <1>1, SectionRest
  <1>3. SectionsInOrder'
    BY <1>1, SectionOrder
  <1>4. ImportsRead' /\ FunctionsRead' /\ ExportsRead' /\ ConstructorWritten'
    BY <1>1, ImportsKept, FunctionsKept, ExportsKept, ConstructorKept
  <1>5. TypeOK'
    <2>1. elementSeen' \in BOOLEAN /\ codeSeen' \in BOOLEAN
      BY <1>1 DEF Built, TypeOK
    <2> QED
      BY <1>1, <2>1, TypesKept
  <1> QED
    BY <1>2, <1>3, <1>4, <1>5 DEF Built

\* The name of a function exported more than once is the first one.
LEMMA FirstExport ==
  ASSUME WellFormed, NEW k, k \in {wasm.exports[x][2] : x \in DOMAIN wasm.exports}
  PROVE  /\ SelectInSeq(wasm.exports, LAMBDA e : e[2] = k) = Min(Exported(k))
         /\ Min(Exported(k)) \in DOMAIN wasm.exports /\ wasm.exports[Min(Exported(k))][1] \in Names
         /\ k \in FunctionIndices
  <1>1. wasm.exports \in Seq(Names \X FunctionIndices) /\ DOMAIN wasm.exports = 1 .. Len(wasm.exports)
    BY DEF WellFormed
  <1>2. Exported(k) \in SUBSET Nat /\ Exported(k) # {} /\ Exported(k) = {x \in 1 .. Len(wasm.exports) : wasm.exports[x][2] = k}
    BY <1>1 DEF Exported
  <1>3. Min(Exported(k)) \in Exported(k)
    BY <1>2, MinFacts
  <1>4. SelectInSeq(wasm.exports, LAMBDA e : e[2] = k) = Min(Exported(k))
    BY <1>2 DEF SelectInSeq
  <1>5. Min(Exported(k)) \in 1 .. Len(wasm.exports) /\ wasm.exports[Min(Exported(k))][2] = k
    BY <1>2, <1>3
  <1>6. wasm.exports[Min(Exported(k))] \in Names \X FunctionIndices
    BY <1>1, <1>5, ElementOfSeq
  <1> QED
    BY <1>1, <1>4, <1>5, <1>6

LEMMA ExportSectionIInv == Built /\ ReadExportSection => Built'
  <1> SUFFICES ASSUME Built, ReadExportSection
               PROVE  Built'
    OBVIOUS
  <1> DEFINE indices == {wasm.exports[x][2] : x \in DOMAIN wasm.exports}
  <1>1. /\ Section("export") /\ stage = "sections" /\ left' = left \ {"export"} /\ "export" \in left
        /\ UNCHANGED <<wasm, stage, elementSeen, codeSeen, filled, ImportFuncs, FuncDecl, cctor, methods, calls>>
    BY SectionFacts DEF ReadExportSection
  <1>2. WellFormed' /\ TableFilled' /\ MethodsMade' /\ CallsMade' /\ RefusedOnlyNamed'
    BY <1>1, SectionRest
  <1>3. SectionsInOrder'
    BY <1>1, SectionOrder
  <1>4. ImportsRead' /\ FunctionsRead' /\ ConstructorWritten'
    BY <1>1, ImportsKept, FunctionsKept, ConstructorKept
  <1>5. WellFormed
    BY DEF Built
  <1>6. DOMAIN ExportFunc' = indices
    <2>1. {e[2] : e \in Range(wasm.exports)} = indices
      BY DEF Range
    <2> QED
      BY <2>1 DEF ReadExportSection
  <1>7. ASSUME NEW k \in indices
        PROVE  /\ ExportFunc'[k] = wasm.exports[Min(Exported(k))][1] /\ ExportFunc'[k] \in Names /\ k \in Nat
    <2>1. k \in {e[2] : e \in Range(wasm.exports)}
      BY DEF Range
    <2>2. ExportFunc'[k] = wasm.exports[SelectInSeq(wasm.exports, LAMBDA e : e[2] = k)][1]
      BY <2>1 DEF ReadExportSection
    <2>3. /\ SelectInSeq(wasm.exports, LAMBDA e : e[2] = k) = Min(Exported(k))
          /\ wasm.exports[Min(Exported(k))][1] \in Names /\ k \in FunctionIndices
      BY <1>5, FirstExport
    <2> QED
      BY <2>2, <2>3 DEF FunctionIndices
  <1>8. ExportsRead'
    <2>1. \A k : Exported(k)' = Exported(k)
      BY <1>1 DEF Exported
    <2>2. wasm'.exports = wasm.exports /\ "export" \notin left'
      BY <1>1
    <2> QED
      BY <1>6, <1>7, <2>1, <2>2 DEF ExportsRead
  <1>9. TypeOK'
    <2>1. elementSeen' \in BOOLEAN /\ codeSeen' \in BOOLEAN
      BY <1>1 DEF Built, TypeOK
    <2>2. ExportFuncTypes'
      BY <1>6, <1>7 DEF ExportFuncTypes, Range
    <2> QED
      BY <1>1, <2>1, <2>2, TypesKept
  <1> QED
    BY <1>2, <1>3, <1>4, <1>8, <1>9 DEF Built

LEMMA NameSectionIInv == Built /\ ReadCustomSection => Built'
  <1> SUFFICES ASSUME Built, ReadCustomSection
               PROVE  Built'
    OBVIOUS
  <1>1. /\ Section("name") /\ stage = "sections" /\ left' = left \ {"name"} /\ "function" \notin left
        /\ UNCHANGED <<wasm, stage, elementSeen, codeSeen, filled, ImportFuncs, ExportFunc, cctor, methods, calls>>
        /\ FuncDecl' = [i \in DOMAIN FuncDecl |-> [FuncDecl[i] EXCEPT !.importName = wasm.debug[i]]]
    BY SectionFacts DEF ReadCustomSection
  <1>2. WellFormed' /\ TableFilled' /\ MethodsMade' /\ CallsMade' /\ RefusedOnlyNamed'
    BY <1>1, SectionRest
  <1>3. SectionsInOrder'
    BY <1>1, SectionOrder
  <1>4. ImportsRead' /\ ExportsRead' /\ ConstructorWritten'
    BY <1>1, ImportsKept, ExportsKept, ConstructorKept
  <1>5. /\ wasm.funcs \in Nat /\ wasm' = wasm
        /\ FuncDecl \in Seq([importName : Names \cup {NoName}, name : MethodNames]) /\ Len(FuncDecl) = wasm.funcs
    BY <1>1 DEF Built, WellFormed, FunctionsRead, TypeOK
  <1>6. \A i \in 1 .. wasm.funcs : wasm.debug[i] \in Names \cup {NoName}
    BY DEF Built, WellFormed
  <1>7. FuncDecl' \in Seq([importName : Names \cup {NoName}, name : MethodNames]) /\ Len(FuncDecl') = wasm.funcs
    <2>1. DOMAIN FuncDecl = 1 .. wasm.funcs
      BY <1>5
    <2>2. ASSUME NEW i \in 1 .. wasm.funcs
          PROVE  [FuncDecl[i] EXCEPT !.importName = wasm.debug[i]] \in [importName : Names \cup {NoName}, name : MethodNames]
      <3>1. FuncDecl[i] \in [importName : Names \cup {NoName}, name : MethodNames]
        BY <1>5, ElementOfSeq
      <3> QED
        BY <1>6, <3>1
    <2>3. FuncDecl' \in [1 .. wasm.funcs -> [importName : Names \cup {NoName}, name : MethodNames]]
      BY <1>1, <2>1, <2>2
    <2> QED
      BY <1>5, <2>3, SequenceOf
  <1>8. FunctionsRead'
    <2>1. \A i \in DOMAIN FuncDecl' : FuncDecl'[i].importName = wasm.debug[i]
      <3>1. ASSUME NEW i \in DOMAIN FuncDecl
            PROVE  "importName" \in DOMAIN FuncDecl[i]
        <4>1. i \in 1 .. Len(FuncDecl)
          BY <1>5
        <4>2. FuncDecl[i] \in [importName : Names \cup {NoName}, name : MethodNames]
          BY <1>5, <4>1, ElementOfSeq
        <4> QED
          BY <4>2
      <3> QED
        BY <1>1, <3>1
    <2> QED
      BY <1>1, <1>5, <1>7, <2>1 DEF FunctionsRead
  <1>9. TypeOK'
    <2>1. FuncDeclTypes'
      BY <1>5, <1>7 DEF FuncDeclTypes
    <2>2. elementSeen' \in BOOLEAN /\ codeSeen' \in BOOLEAN
      BY <1>1 DEF Built, TypeOK
    <2> QED
      BY <1>1, <2>1, <2>2, TypesKept
  <1> QED
    BY <1>2, <1>3, <1>4, <1>8, <1>9 DEF Built

-------------------------------------------------------------------------------
(* The stubs. *)

MethodTypes == [id : MethodIds, name : MethodNames, does : Behaviours]

\* After the sections the only types that change are those of these variables.
LEMMA TypesLater ==
  ASSUME Built, UNCHANGED <<wasm, left, elementSeen, codeSeen, ExportFunc>>, stage' \in Stages,
         filled' \in 0 .. Len(wasm.segments), ImportFuncTypes' \/ UNCHANGED ImportFuncs,
         FuncDeclTypes' \/ UNCHANGED FuncDecl, methods' \in Seq(MethodTypes), calls' \subseteq Nat \X MethodIds
  PROVE  TypeOK'
  <1>1. TypeOK /\ wasm'.segments = wasm.segments /\ wasm'.imports = wasm.imports /\ wasm'.funcs = wasm.funcs
    BY DEF Built
  <1>2. ImportFuncTypes' /\ FuncDeclTypes'
    BY <1>1 DEF TypeOK, ImportFuncTypes, FuncDeclTypes
  <1>3. ExportFuncTypes'
    BY <1>1 DEF TypeOK, ExportFuncTypes, Range
  <1>4. left' \subseteq Range(Order) /\ elementSeen' \in BOOLEAN /\ codeSeen' \in BOOLEAN
    BY <1>1 DEF TypeOK
  <1>5. filled' \in 0 .. Len(wasm'.segments)
    BY <1>1
  <1> QED
    BY <1>2, <1>3, <1>4, <1>5, Zenon DEF TypeOK, ImportFuncTypes, FuncDeclTypes, ExportFuncTypes, MethodTypes

LEMMA OrderKept ==
  ASSUME Built, stage # "sections" \/ left = {}, UNCHANGED <<wasm, left, elementSeen, codeSeen>>,
         stage' \notin Refusals
  PROVE  SectionsInOrder' /\ WellFormed' /\ left = {}
  <1>1. /\ left = {} /\ (elementSeen <=> ("element" \notin left /\ wasm.segments # <<>>))
        /\ (codeSeen <=> ("code" \notin left /\ wasm.funcs > 0))
    BY DEF Built, SectionsInOrder
  <1>2. wasm'.segments = wasm.segments /\ wasm'.funcs = wasm.funcs /\ left' = {}
    BY <1>1
  <1>3. /\ (elementSeen' <=> ("element" \notin left' /\ wasm'.segments # <<>>))
        /\ (codeSeen' <=> ("code" \notin left' /\ wasm'.funcs > 0))
    BY <1>1, <1>2
  <1>4. SectionsInOrder'
    <2>1. FlawsAhead'
      BY <1>2 DEF Built, SectionsInOrder, FlawsAhead, Flawed
    <2> QED
      BY <1>2, <1>3, <2>1 DEF SectionsInOrder
  <1>5. WellFormed'
    BY DEF Built, WellFormed, FunctionIndices
  <1> QED
    BY <1>1, <1>4, <1>5

\* Once the sections are read.
LEMMA ReadFacts ==
  ASSUME Built, left = {}
  PROVE  /\ wasm.funcs \in Nat /\ Len(wasm.imports) \in Nat /\ wasm.imports \in Seq(Names)
         /\ Len(ImportFuncs) = Len(wasm.imports) /\ DOMAIN ImportFuncs = 1 .. Len(wasm.imports)
         /\ Len(FuncDecl) = wasm.funcs /\ DOMAIN FuncDecl = 1 .. wasm.funcs
         /\ \A k \in 1 .. Len(wasm.imports) :
              /\ ImportFuncs[k] \in [name : Names, method : MethodIds \cup {Null}]
              /\ ImportFuncs[k].name = wasm.imports[k] /\ wasm.imports[k] \in Names
         /\ \A i \in 1 .. wasm.funcs :
              /\ FuncDecl[i] \in [importName : Names \cup {NoName}, name : MethodNames]
              /\ FuncDecl[i].importName = wasm.debug[i] /\ wasm.debug[i] \in Names \cup {NoName}
  <1>1. /\ wasm.funcs \in Nat /\ wasm.imports \in Seq(Names) /\ wasm.debug \in [1 .. wasm.funcs -> Names \cup {NoName}]
    BY DEF Built, WellFormed
  <1>2. /\ ImportFuncs \in Seq([name : Names, method : MethodIds \cup {Null}])
        /\ FuncDecl \in Seq([importName : Names \cup {NoName}, name : MethodNames])
    BY DEF Built, TypeOK
  <1>3. /\ Len(ImportFuncs) = Len(wasm.imports) /\ Len(FuncDecl) = wasm.funcs
        /\ (\A k \in DOMAIN ImportFuncs : ImportFuncs[k].name = wasm.imports[k])
        /\ \A i \in DOMAIN FuncDecl : FuncDecl[i].importName = wasm.debug[i]
    BY DEF Built, ImportsRead, FunctionsRead
  <1>4. /\ Len(wasm.imports) \in Nat /\ DOMAIN ImportFuncs = 1 .. Len(wasm.imports)
        /\ DOMAIN FuncDecl = 1 .. wasm.funcs
    BY <1>1, <1>2, <1>3
  <1>5. \A k \in 1 .. Len(wasm.imports) : ImportFuncs[k] \in [name : Names, method : MethodIds \cup {Null}]
    BY <1>2, <1>3, ElementOfSeq
  <1>6. \A i \in 1 .. wasm.funcs : FuncDecl[i] \in [importName : Names \cup {NoName}, name : MethodNames]
    BY <1>2, <1>3, ElementOfSeq
  <1>7. \A k \in 1 .. Len(wasm.imports) : wasm.imports[k] \in Names
    BY <1>1, ElementOfSeq
  <1> QED
    BY <1>1, <1>3, <1>4, <1>5, <1>6, <1>7

LEMMA StubFacts ==
  ASSUME Built, left = {}, NEW k \in Missing
  PROVE  /\ k \in 1 .. Len(wasm.imports) /\ Stub(k) \in MethodTypes
         /\ Stub(k).id = <<"stub", k>> /\ Stub(k).does = <<"throws", k>>
         /\ Stub(k).name = <<"named", wasm.imports[k]>> /\ <<"stub", k>> \in MethodIds
  <1>1. k \in 1 .. Len(wasm.imports) /\ k \in Nat /\ ImportFuncs[k].name = wasm.imports[k] /\ wasm.imports[k] \in Names
    BY ReadFacts DEF Missing
  <1>2. <<"stub", k>> \in MethodIds
    BY <1>1 DEF MethodIds
  <1>3. <<"throws", k>> \in Behaviours
    BY <1>1 DEF Behaviours
  <1>4. <<"named", wasm.imports[k]>> \in MethodNames
    BY <1>1 DEF MethodNames
  <1> QED
    BY <1>1, <1>2, <1>3, <1>4 DEF MethodTypes, Stub, Method

LEMMA StubsFinite ==
  ASSUME Built, left = {}
  PROVE  IsFiniteSet({Stub(k) : k \in Missing})
  <1>1. Missing \in SUBSET (1 .. Len(wasm.imports)) /\ Len(wasm.imports) \in Nat
    BY ReadFacts DEF Missing
  <1>2. IsFiniteSet(Missing)
    <2>1. IsFiniteSet(1 .. Len(wasm.imports))
      BY <1>1, FS_Interval
    <2> QED
      BY <1>1, <2>1, FS_Subset
  <1> PICK f : f = [k \in Missing |-> Stub(k)]
    OBVIOUS
  <1>3. f \in Surjection(Missing, {Stub(k) : k \in Missing})
    BY DEF Surjection
  <1> QED
    BY <1>2, <1>3, FS_Surjection

LEMMA AddStubsIInv == Built /\ AddStubs => Built'
  <1> SUFFICES ASSUME Built, AddStubs
               PROVE  Built'
    OBVIOUS
  <1>1. /\ stage = "sections" /\ left = {} /\ stage' = "element"
        /\ UNCHANGED <<wasm, left, elementSeen, codeSeen, filled, FuncDecl, ExportFunc, cctor, calls>>
    BY DEF AddStubs
  <1>2. WellFormed' /\ SectionsInOrder'
    BY <1>1, OrderKept DEF Refusals
  <1>3. {k \in DOMAIN ImportFuncs : ImportFuncs[k].name \notin WasiNames} = Missing
    BY <1>1, ReadFacts DEF Missing
  <1>4. /\ methods' = methods \o SetToSeq({Stub(k) : k \in Missing})
        /\ ImportFuncs' = [k \in DOMAIN ImportFuncs |->
                             IF k \in Missing THEN [ImportFuncs[k] EXCEPT !.method = <<"stub", k>>] ELSE ImportFuncs[k]]
    BY <1>3 DEF AddStubs
  <1> PICK n \in Nat : n = Len(wasm.imports)
    BY <1>1, ReadFacts
  <1>5. ASSUME NEW k \in 1 .. n
        PROVE  /\ ImportFuncs'[k] \in [name : Names, method : MethodIds \cup {Null}]
               /\ ImportFuncs'[k].name = wasm.imports[k]
               /\ ImportFuncs'[k].method = IF wasm.imports[k] \in WasiNames THEN Null ELSE <<"stub", k>>
    <2>1. /\ ImportFuncs[k] \in [name : Names, method : MethodIds \cup {Null}]
          /\ ImportFuncs[k].name = wasm.imports[k] /\ k \in DOMAIN ImportFuncs /\ ImportFuncs[k].method = Null
      BY <1>1, ReadFacts DEF Built, ImportsRead
    <2>2. CASE k \in Missing
      <3>1. <<"stub", k>> \in MethodIds /\ wasm.imports[k] \notin WasiNames
        BY <1>1, <2>2, StubFacts DEF Missing
      <3>2. ImportFuncs'[k] = [ImportFuncs[k] EXCEPT !.method = <<"stub", k>>]
        BY <1>4, <2>1, <2>2
      <3> QED
        BY <2>1, <3>1, <3>2
    <2>3. CASE k \notin Missing
      <3>1. wasm.imports[k] \in WasiNames /\ ImportFuncs'[k] = ImportFuncs[k]
        BY <1>4, <2>1, <2>3 DEF Missing
      <3> QED
        BY <2>1, <3>1
    <2> QED
      BY <2>2, <2>3
  <1>6. DOMAIN ImportFuncs' = 1 .. n /\ ImportFuncs' \in Seq([name : Names, method : MethodIds \cup {Null}]) /\ Len(ImportFuncs') = n
    <2>1. DOMAIN ImportFuncs' = 1 .. n /\ ImportFuncs' = [k \in 1 .. n |-> ImportFuncs'[k]]
      BY <1>1, <1>4, ReadFacts
    <2>2. ImportFuncs' \in [1 .. n -> [name : Names, method : MethodIds \cup {Null}]]
      BY <1>5, <2>1
    <2>3. ImportFuncs' \in Seq([name : Names, method : MethodIds \cup {Null}]) /\ Len(ImportFuncs') = n
      BY <2>2, SequenceOf
    <2> QED
      BY <2>1, <2>3
  <1>7. ImportsRead'
    BY <1>1, <1>5, <1>6 DEF ImportsRead
  <1>8. FunctionsRead' /\ ExportsRead' /\ ConstructorWritten'
    <2>1. FunctionsRead /\ wasm'.funcs = wasm.funcs /\ wasm'.debug = wasm.debug
      BY <1>1 DEF Built
    <2>2. FunctionsRead'
      BY <1>1, <2>1 DEF FunctionsRead
    <2> QED
      BY <1>1, <2>2, ExportsKept, ConstructorKept
  <1>9. TableFilled'
    BY <1>1 DEF Built, TableFilled
  <1> PICK stubs : stubs = SetToSeq({Stub(k) : k \in Missing})
    OBVIOUS
  <1>10. /\ stubs \in Seq({Stub(k) : k \in Missing}) /\ Range(stubs) = {Stub(k) : k \in Missing}
         /\ \A p, q \in DOMAIN stubs : stubs[p] = stubs[q] => p = q
    BY <1>1, StubsFinite, SetToSeqFacts
  <1>11. stubs \in Seq(MethodTypes) /\ methods' = stubs
    <2>1. {Stub(k) : k \in Missing} \subseteq MethodTypes
      BY <1>1, StubFacts
    <2>2. stubs \in Seq(MethodTypes)
      BY <1>10, <2>1, SeqMonotonic
    <2>3. methods = <<>>
      BY <1>1 DEF Built, MethodsMade
    <2> QED
      BY <1>4, <2>2, <2>3, ConcatEmptySeq
  <1>12. TypeOK'
    <2>1. ImportFuncTypes'
      BY <1>1, <1>6 DEF ImportFuncTypes
    <2>2. filled' \in 0 .. Len(wasm.segments) /\ calls' \subseteq Nat \X MethodIds /\ stage' \in Stages
      BY <1>1 DEF Built, TypeOK, Stages
    <2> QED
      BY <1>1, <1>11, <2>1, <2>2, TypesLater
  <1>13. Missing' = Missing /\ \A k \in Missing : Stub(k)' = Stub(k)
    <2>1. Missing' = Missing
      BY <1>1, <1>6, ReadFacts DEF Missing
    <2>2. ASSUME NEW k \in Missing
          PROVE  ImportFuncs'[k].name = ImportFuncs[k].name
      BY <1>1, <1>5, ReadFacts DEF Missing
    <2> QED
      BY <2>1, <2>2 DEF Stub
  <1>14. MethodsMade'
    <2>0. \A k \in Missing : Stub(k).id = <<"stub", k>> /\ Stub(k).does = <<"throws", k>>
      BY <1>1, StubFacts
    <2>1. ASSUME NEW m \in Range(methods')
          PROVE  m.does[1] = "throws"
      <3>1. PICK k \in Missing : m = Stub(k)
        BY <1>10, <1>11
      <3> QED
        BY <2>0, <3>1
    <2>2. CodeMethods' = {}
      BY <2>1 DEF CodeMethods
    <2>3. IsFiniteSet(CodeMethods') /\ Translated' = 0
      BY <2>2, FS_EmptySet DEF Translated, CodeMethods
    <2>4. wasm'.funcs \in Nat
      BY <1>2 DEF WellFormed
    <2>5. Range(methods') = {Stub(k)' : k \in Missing'}
      BY <1>10, <1>11, <1>13
    <2>6. ASSUME NEW p \in DOMAIN methods', NEW q \in DOMAIN methods', methods'[p].id = methods'[q].id
          PROVE  p = q
      <3>0. stubs[p] \in {Stub(k) : k \in Missing} /\ stubs[q] \in {Stub(k) : k \in Missing}
        <4>1. p \in DOMAIN stubs /\ q \in DOMAIN stubs
          BY <1>11
        <4> QED
          BY <1>10, <4>1 DEF Range
      <3>1. PICK k \in Missing : stubs[p] = Stub(k)
        BY <3>0
      <3>2. PICK l \in Missing : stubs[q] = Stub(l)
        BY <3>0
      <3>3. <<"stub", k>> = <<"stub", l>>
        BY <1>11, <2>0, <2>6, <3>1, <3>2
      <3>4. stubs[p] = stubs[q]
        BY <3>1, <3>2, <3>3
      <3>5. p \in DOMAIN stubs /\ q \in DOMAIN stubs
        BY <1>11
      <3> QED
        BY <1>10, <3>4, <3>5
    <2>7. {Bodies(i)' : i \in 1 .. Translated'} = {}
      BY <2>3
    <2>8. UNION {Range(Bodies(i)') : i \in 1 .. Translated'} = {}
      BY <2>3
    <2> QED
      BY <1>1, <2>3, <2>4, <2>5, <2>6, <2>8 DEF MethodsMade
  <1>15. CallsMade' /\ RefusedOnlyNamed'
    BY <1>1 DEF Built, CallsMade, RefusedOnlyNamed, AlwaysThrow
  <1> QED
    BY <1>2, <1>7, <1>8, <1>9, <1>12, <1>14, <1>15 DEF Built

-------------------------------------------------------------------------------
(* The function table. *)

\* What later steps leave as it is.
LEMMA ReadKept ==
  ASSUME Built, stage # "sections", stage' # "sections", UNCHANGED <<wasm, left, ImportFuncs, FuncDecl, ExportFunc>>,
         stage' \in {"code", "written"} => stage \in {"code", "written"}
  PROVE  ImportsRead' /\ FunctionsRead' /\ ExportsRead'
  <1>1. /\ ImportsRead /\ FunctionsRead
        /\ wasm'.imports = wasm.imports /\ wasm'.funcs = wasm.funcs /\ wasm'.debug = wasm.debug
    BY DEF Built
  <1>2. ImportsRead'
    BY <1>1 DEF ImportsRead
  <1>3. \A i : NameOf(i)' = NameOf(i)
    BY DEF NameOf, NameAs
  <1>4. FunctionsRead'
    BY <1>1, <1>3 DEF FunctionsRead
  <1> QED
    BY <1>2, <1>4, ExportsKept

LEMMA MethodsKept ==
  ASSUME Built, stage # "sections", stage' # "sections", UNCHANGED <<wasm, ImportFuncs, FuncDecl, methods>>,
         stage' \in {"element", "naming"} => stage \in {"element", "naming"},
         stage' = "written" => Translated = wasm.funcs
  PROVE  MethodsMade'
  <1>1. CodeMethods' = CodeMethods /\ Translated' = Translated /\ Missing' = Missing /\ Range(methods') = Range(methods)
    BY DEF CodeMethods, Translated, Missing, Range
  <1>2. \A k : Stub(k)' = Stub(k)
    BY DEF Stub
  <1>3. \A i : Range(Bodies(i)') = Range(Bodies(i))
    <2>1. \A i : Bodies(i)' = Bodies(i)
      BY DEF Bodies, Overridden
    <2> QED
      BY <2>1
  <1>4. {Stub(k)' : k \in Missing'} = {Stub(k) : k \in Missing}
    BY <1>1, <1>2
  <1>5. {Range(Bodies(i))' : i \in 1 .. Translated'} = {Range(Bodies(i)) : i \in 1 .. Translated}
    BY <1>1, <1>3
  <1>6. /\ Range(methods) = {Stub(k) : k \in Missing} \cup UNION {Range(Bodies(i)) : i \in 1 .. Translated}
        /\ IsFiniteSet(CodeMethods) /\ Translated <= wasm.funcs
        /\ \A p, q \in DOMAIN methods : methods[p].id = methods[q].id => p = q
        /\ (stage \in {"sections", "element", "naming"} => Translated = 0)
        /\ \A i \in 1 .. Translated : <<"instruction", i>> \notin wasm.flaws
    BY DEF Built, MethodsMade
  <1>7. Range(methods') = {Stub(k)' : k \in Missing'} \cup UNION {Range(Bodies(i))' : i \in 1 .. Translated'}
    BY <1>1, <1>4, <1>5, <1>6
  <1>8. wasm'.funcs = wasm.funcs /\ methods' = methods /\ wasm'.flaws = wasm.flaws
    OBVIOUS
  <1> QED
    BY <1>1, <1>6, <1>7, <1>8 DEF MethodsMade

LEMMA CallsKept ==
  ASSUME Built, UNCHANGED <<wasm, ImportFuncs, calls>>,
         stage' \in {"sections", "element", "naming"} => stage \in {"sections", "element", "naming"}
  PROVE  CallsMade'
  <1>1. \A k : resolveMethod(k)' = resolveMethod(k)
    BY DEF resolveMethod
  <1>2. FunctionIndices' = FunctionIndices
    BY DEF FunctionIndices
  <1> QED
    BY <1>1, <1>2 DEF Built, CallsMade

LEMMA TableKept ==
  ASSUME Built, stage # "sections", stage' # "sections", UNCHANGED <<wasm, ImportFuncs, cctor, filled>>,
         stage' \in {"naming", "code", "written"} => filled = Len(wasm.segments)
  PROVE  TableFilled'
  <1>1. \A k : TableMethod(k)' = TableMethod(k)
    BY DEF TableMethod
  <1>2. \A k : Problem(k)' = Problem(k)
    BY <1>1 DEF Problem, TypeOf, Widened
  <1>3. \A b, s : FilledAt(b, s)' = FilledAt(b, s)
    BY <1>1 DEF FilledAt
  <1>4. wasm'.segments = wasm.segments /\ wasm'.flaws = wasm.flaws
    OBVIOUS
  <1> QED
    BY <1>2, <1>3, <1>4 DEF Built, TableFilled

LEMMA SegmentFacts ==
  ASSUME Built, NEW x \in 1 .. Len(wasm.segments)
  PROVE  /\ wasm.segments[x] \in Seq(FunctionIndices) /\ wasm.segments[x] \in Range(wasm.segments)
         /\ \A j \in DOMAIN wasm.segments[x] : wasm.segments[x][j] \in FunctionIndices
  <1>1. wasm.segments \in Seq(Seq(FunctionIndices))
    BY DEF Built, WellFormed
  <1>2. wasm.segments[x] \in Seq(FunctionIndices)
    BY <1>1, ElementOfSeq
  <1>3. wasm.segments[x] \in Range(wasm.segments)
    BY <1>1 DEF Range
  <1>4. \A j \in DOMAIN wasm.segments[x] : wasm.segments[x][j] \in FunctionIndices
    BY <1>2
  <1> QED
    BY <1>2, <1>3, <1>4

LEMMA DelegateFacts ==
  ASSUME NEW k
  PROVE  typeToFunc(TypeOf(k)) <=> ~Wide(k)
  <1>1. TypeOf(k).params = 7 + Widened(k, "parameter") /\ TypeOf(k).results = Widened(k, "result")
    BY DEF TypeOf, Type
  <1>2. /\ Widened(k, "parameter") = IF <<"parameter", k>> \in wasm.flaws THEN 1 ELSE 0
        /\ Widened(k, "result") = IF <<"result", k>> \in wasm.flaws THEN 1 ELSE 0
    BY DEF Widened
  <1> QED
    BY <1>1, <1>2 DEF typeToFunc, Wide

LEMMA ProblemFacts ==
  ASSUME Built, left = {}, stage # "sections", NEW k \in FunctionIndices
  PROVE  /\ Problem(k) \in {"none", "importInTable", "noDelegate"}
         /\ TableMethod(k) \in MethodIds \cup {Null}
         /\ (Problem(k) = "importInTable" => k <= Len(wasm.imports) /\ wasm.imports[k] \in WasiNames)
         /\ (Problem(k) = "noDelegate" => Wide(k))
         /\ (Problem(k) = "none" => ~Wide(k) /\ TableMethod(k) # Null)
  <1> PICK n \in Nat : n = Len(wasm.imports)
    BY ReadFacts
  <1>1. wasm.funcs \in Nat /\ Len(ImportFuncs) = n /\ k \in 1 .. n + wasm.funcs /\ DOMAIN ImportFuncs = 1 .. n
    BY ReadFacts DEF FunctionIndices
  <1>2. typeToFunc(TypeOf(k)) <=> ~Wide(k)
    BY DelegateFacts
  <1>3. CASE k <= n
    <2>1. /\ TableMethod(k) = ImportFuncs[k].method /\ ImportFuncs[k] \in [name : Names, method : MethodIds \cup {Null}]
          /\ k \in DOMAIN ImportFuncs
      BY <1>1, <1>3, ReadFacts DEF TableMethod
    <2>2. ImportFuncs[k].method = IF wasm.imports[k] \in WasiNames THEN Null ELSE <<"stub", k>>
      BY <2>1 DEF Built, ImportsRead
    <2>3. TableMethod(k) = Null => wasm.imports[k] \in WasiNames
      BY <2>1, <2>2 DEF Null
    <2>4. TableMethod(k) \in MethodIds \cup {Null}
      BY <2>1
    <2> HIDE DEF TableMethod, MethodIds, Null
    <2> QED
      BY <1>2, <1>3, <2>3, <2>4 DEF Problem
  <1>4. CASE k > n
    <2>1. TableMethod(k) = <<"func", k - n>>
      BY <1>1, <1>4 DEF TableMethod
    <2>2. TableMethod(k) # Null
      BY <2>1 DEF Null
    <2>3. TableMethod(k) \in MethodIds
      BY <1>1, <1>4, <2>1 DEF MethodIds
    <2> HIDE DEF TableMethod, MethodIds, Null
    <2> QED
      BY <1>2, <2>2, <2>3 DEF Problem
  <1>5. k <= n \/ k > n
    BY <1>1
  <1> QED
    BY <1>3, <1>4, <1>5

LEMMA AllSegments ==
  ASSUME Built, left = {}
  PROVE  ElementSegments = wasm.segments
  <1>1. elementSeen <=> wasm.segments # <<>>
    BY DEF Built, SectionsInOrder
  <1> QED
    BY <1>1 DEF ElementSegments

\* The first function of a segment that cannot be put in the table.
LEMMA FirstProblem ==
  ASSUME Built, left = {}, stage = "element", NEW s \in Seq(FunctionIndices),
         NEW p, p = SelectInSeq(s, LAMBDA k : Problem(k) # "none"), p # 0
  PROVE  /\ p \in DOMAIN s /\ s[p] \in FunctionIndices /\ Problem(s[p]) \in {"importInTable", "noDelegate"}
         /\ (Problem(s[p]) = "importInTable" => s[p] <= Len(wasm.imports) /\ wasm.imports[s[p]] \in WasiNames)
         /\ (Problem(s[p]) = "noDelegate" => Wide(s[p]))
  <1> DEFINE I == {i \in 1 .. Len(s) : Problem(s[i]) # "none"}
  <1>1. I \in SUBSET Nat /\ I # {} /\ p = Min(I)
    BY DEF SelectInSeq
  <1>2. p \in I
    BY <1>1, MinFacts
  <1>3. p \in DOMAIN s /\ s[p] \in FunctionIndices /\ Problem(s[p]) # "none"
    BY <1>2
  <1> QED
    BY <1>3, ProblemFacts

LEMMA ElementSectionIInv == Built /\ ReadElementSection /\ stage' \notin Refusals => Built'
  <1> SUFFICES ASSUME Built, ReadElementSection, stage' \notin Refusals
               PROVE  Built'
    OBVIOUS
  <1> DEFINE s == wasm.segments[filled + 1]
             problem == SelectInSeq(s, LAMBDA k : Problem(k) # "none")
  <1>1. /\ stage = "element" /\ left = {}
        /\ UNCHANGED <<wasm, left, elementSeen, codeSeen, ImportFuncs, FuncDecl, ExportFunc, methods, calls>>
    BY DEF ReadElementSection, Refuse, Built, SectionsInOrder
  <1>2. ElementSegments = wasm.segments
    BY <1>1, AllSegments
  <1>3. filled \in 0 .. Len(wasm.segments) /\ Len(wasm.segments) \in Nat
    <2>1. Len(wasm.segments) \in Nat
      BY DEF Built, WellFormed
    <2> QED
      BY <2>1 DEF Built, TypeOK
  <1>4. WellFormed' /\ SectionsInOrder' /\ CallsMade'
    BY <1>1, OrderKept, CallsKept DEF Refusals
  <1>5. filled < Len(wasm.segments) =>
          /\ filled + 1 \in 1 .. Len(wasm.segments) /\ s \in Seq(FunctionIndices) /\ s \in Range(wasm.segments)
          /\ \A j \in DOMAIN s : s[j] \in FunctionIndices
    BY <1>3, SegmentFacts
  <1>6. ASSUME filled < Len(wasm.segments), problem # 0, stage' = Problem(s[problem])
        PROVE  FALSE
    BY <1>1, <1>5, <1>6, FirstProblem DEF Refusals
  <1>7. CASE /\ filled < Len(wasm.segments) /\ <<"elementOffset", filled + 1>> \notin wasm.flaws /\ problem = 0
             /\ cctor' = Emit(Fill(s)) /\ filled' = filled + 1 /\ UNCHANGED stage
    <2>1. \A j \in DOMAIN s : Problem(s[j]) = "none"
      <3> DEFINE I == {i \in 1 .. Len(s) : Problem(s[i]) # "none"}
      <3>1. I \in SUBSET Nat /\ 0 \notin I
        OBVIOUS
      <3>2. I # {} => problem = Min(I)
        BY DEF SelectInSeq
      <3>3. I = {}
        BY <1>7, <3>1, <3>2, MinFacts
      <3> QED
        BY <1>5, <1>7, <3>3
    <2> PICK t : t = s
      OBVIOUS
    <2>2. /\ cctor' \in Seq(Instructions) /\ Len(cctor') > 0 /\ cctor'[Len(cctor')] = <<"ret">>
          /\ ((\E q \in 1 .. Len(cctor) - 1 : cctor[q][1] = "memory") =>
               \E q \in 1 .. Len(cctor') - 1 : cctor'[q][1] = "memory")
          /\ ConstructorRuns'
          /\ \E b \in DOMAIN cctor' : FilledAt(b, t)'
      <3>1. \A k \in FunctionIndices : TableMethod(k) \in MethodIds \cup {Null}
        BY <1>1, ProblemFacts
      <3>2. t \in Seq(FunctionIndices) /\ ConstructorWritten /\ cctor' = Emit(Fill(t)) /\ UNCHANGED ImportFuncs
        BY <1>1, <1>5, <1>7 DEF Built
      <3> QED
        BY <3>1, <3>2, FillEmitted
    <2>3. ConstructorWritten'
      <3>1. /\ ("memory" \notin left /\ wasm.data > 0 /\ ~Flawed(wasm, "memory") =>
                  \E q \in 1 .. Len(cctor) - 1 : cctor[q][1] = "memory")
            /\ left' = left /\ wasm' = wasm
        BY <1>1 DEF Built, ConstructorWritten
      <3> QED
        BY <2>2, <3>1 DEF ConstructorWritten
    <2>4. TableFilled'
      <3>1. \A k : Problem(k)' = Problem(k)
        BY <1>1 DEF Problem, TypeOf, Widened, TableMethod
      <3>2. /\ stage' = "element" /\ wasm'.segments = wasm.segments /\ filled' \in Nat /\ wasm.segments[filled'] = t
            /\ \A x \in 1 .. filled' : x \in 1 .. filled \/ x = filled'
        BY <1>1, <1>3, <1>7
      <3>3. \A x \in 1 .. filled : \A j \in DOMAIN wasm.segments[x] : Problem(wasm.segments[x][j]) = "none"
        BY DEF Built, TableFilled
      <3>4. ASSUME NEW x \in 1 .. filled', NEW j \in DOMAIN wasm'.segments[x]
            PROVE  Problem(wasm.segments[x][j]) = "none"
        <4>1. j \in DOMAIN wasm.segments[x]
          BY <3>2
        <4>2. CASE x \in 1 .. filled
          BY <3>3, <4>1, <4>2
        <4>3. CASE x = filled'
          BY <1>7, <2>1, <4>1, <4>3
        <4> QED
          BY <3>2, <4>2, <4>3
      <3>5. \A x \in 1 .. filled' : \A j \in DOMAIN wasm'.segments[x] : Problem(wasm.segments[x][j])' = "none"
        <4>1. wasm' = wasm
          BY <1>1
        <4> QED
          BY <3>1, <3>4, <4>1
      <3>6. \E b \in DOMAIN cctor' : FilledAt(b, wasm.segments[filled])'
        BY <2>2, <3>2 DEF FilledAt
      <3>7. \A x \in 1 .. filled' : <<"elementOffset", x>> \notin wasm'.flaws
        BY <1>1, <1>7, <3>2 DEF Built, TableFilled
      <3> QED
        BY <3>2, <3>5, <3>6, <3>7, Zenon DEF TableFilled
    <2>5. ImportsRead' /\ FunctionsRead' /\ ExportsRead' /\ MethodsMade'
      BY <1>1, <1>7, ReadKept, MethodsKept
    <2>6. RefusedOnlyNamed'
      BY <1>1, <1>7 DEF RefusedOnlyNamed, AlwaysThrow
    <2>7. TypeOK'
      <3>1. /\ stage' \in Stages /\ filled' \in 0 .. Len(wasm.segments)
            /\ methods' \in Seq(MethodTypes) /\ calls' \subseteq Nat \X MethodIds
        BY <1>1, <1>3, <1>7 DEF Built, TypeOK, Stages, MethodTypes
      <3> QED
        BY <1>1, <3>1, TypesLater
    <2> QED
      BY <1>4, <2>3, <2>4, <2>5, <2>6, <2>7 DEF Built
  <1>8. CASE filled = Len(wasm.segments) /\ stage' = "naming" /\ UNCHANGED <<cctor, filled>>
    <2>1. ImportsRead' /\ FunctionsRead' /\ ExportsRead' /\ MethodsMade'
      BY <1>1, <1>8, ReadKept, MethodsKept
    <2>2. ConstructorWritten' /\ TableFilled'
      BY <1>1, <1>8, ConstructorKept, TableKept
    <2>3. RefusedOnlyNamed'
      BY <1>8 DEF RefusedOnlyNamed, AlwaysThrow
    <2>4. TypeOK'
      <3>1. /\ stage' \in Stages /\ filled' \in 0 .. Len(wasm.segments)
            /\ methods' \in Seq(MethodTypes) /\ calls' \subseteq Nat \X MethodIds
        BY <1>1, <1>3, <1>8 DEF Built, TypeOK, Stages, MethodTypes
      <3> QED
        BY <1>1, <3>1, TypesLater
    <2> QED
      BY <1>4, <2>1, <2>2, <2>3, <2>4 DEF Built
  <1> QED
    <2>1. ~Refuse("elementOffset")
      BY DEF Refuse, Refusals
    <2> QED
      BY <1>2, <1>6, <1>7, <1>8, <2>1 DEF ReadElementSection, Refuse

-------------------------------------------------------------------------------
(* The names of the functions, and the methods made of them. *)

LEMMA ExportedFacts ==
  ASSUME Built, left = {}, NEW k
  PROVE  /\ (k \in DOMAIN ExportFunc <=> Exported(k) # {})
         /\ (Exported(k) # {} => /\ ExportFunc[k] = wasm.exports[Min(Exported(k))][1] /\ ExportFunc[k] \in Names)
  <1>1. /\ DOMAIN ExportFunc = {wasm.exports[x][2] : x \in DOMAIN wasm.exports}
        /\ \A l \in DOMAIN ExportFunc : ExportFunc[l] = wasm.exports[Min(Exported(l))][1]
    BY DEF Built, ExportsRead
  <1>2. k \in DOMAIN ExportFunc <=> Exported(k) # {}
    BY <1>1 DEF Exported
  <1>3. k \in DOMAIN ExportFunc => wasm.exports[Min(Exported(k))][1] \in Names
    BY <1>1, FirstExport DEF Built
  <1> QED
    BY <1>1, <1>2, <1>3

\* A function goes by its public name, if it has one.
LEMMA NameFacts ==
  ASSUME Built, left = {}, NEW i \in 1 .. wasm.funcs, NEW n, n = PublicName(i + Len(wasm.imports))
  PROVE  /\ n \in Names \cup {NoName}
         /\ NameOf(i) = IF n = NoName THEN <<"Func", i>> ELSE <<"named", n>>
         /\ NameOf(i) \in MethodNames
  <1> PICK k, z : z = Len(wasm.imports) /\ k = i + Len(wasm.imports)
    OBVIOUS
  <1>1. /\ z \in Nat /\ Len(ImportFuncs) = z /\ i \in Nat /\ k > z /\ k - z = i
        /\ FuncDecl[i].importName = wasm.debug[i] /\ wasm.debug[i] \in Names \cup {NoName}
    BY ReadFacts
  <1>2. Exported(k) = {x \in DOMAIN wasm.exports : wasm.exports[x][2] = k}
    BY DEF Exported
  <1>4. n = IF Exported(k) # {} THEN wasm.exports[Min(Exported(k))][1] ELSE wasm.debug[i]
    <2>1. ~(k <= z)
      BY <1>1
    <2>2. CASE Exported(k) # {}
      BY <1>1, <2>1, <2>2 DEF PublicName, Exported, Min
    <2>3. CASE Exported(k) = {}
      BY <1>1, <1>2, <2>1, <2>3 DEF PublicName
    <2> QED
      BY <2>2, <2>3
  <1>5. NameOf(i) = NameAs(i, k)
    BY <1>1 DEF NameOf
  <1>6. CASE Exported(k) # {}
    <2>1. n \in Names /\ NameAs(i, k) = <<"named", n>>
      BY <1>4, <1>6, ExportedFacts DEF NameAs
    <2> QED
      BY <1>5, <2>1, NamesAssumption DEF MethodNames
  <1>7. CASE Exported(k) = {}
    <2>1. n = wasm.debug[i] /\ k \notin DOMAIN ExportFunc
      BY <1>4, <1>7, ExportedFacts
    <2>2. NameAs(i, k) = IF n = NoName THEN <<"Func", i>> ELSE <<"named", n>>
      BY <1>1, <2>1 DEF NameAs
    <2> QED
      BY <1>1, <1>5, <2>1, <2>2 DEF MethodNames
  <1> QED
    BY <1>6, <1>7

LEMMA OverriddenFacts ==
  ASSUME Built, left = {}, stage \in {"code", "written"}, NEW i \in 1 .. wasm.funcs,
         NEW n, n = PublicName(i + Len(wasm.imports))
  PROVE  /\ (Overridden(i) <=> n \in WasiNames)
         /\ (n \in WasiNames => FuncDecl[i].name = <<"named", n>>)
         /\ FuncDecl[i].name = NameOf(i)
         /\ FuncDecl[i].name \in MethodNames
         /\ (FuncDecl[i].name = <<"Func", i>> \/ FuncDecl[i].name = <<"named", n>>)
  <1>1. FuncDecl[i].name = NameOf(i)
    BY ReadFacts DEF Built, FunctionsRead
  <1>2. NoName \notin WasiNames
    BY NamesAssumption DEF Names
  <1>3. NameOf(i) \in MethodNames /\ NameOf(i) = IF n = NoName THEN <<"Func", i>> ELSE <<"named", n>>
    BY NameFacts
  <1>4. CASE n = NoName
    <2>1. FuncDecl[i].name[1] = "Func"
      BY <1>1, <1>3, <1>4
    <2> QED
      BY <1>1, <1>2, <1>3, <1>4, <2>1 DEF Overridden
  <1>5. CASE n # NoName
    <2>1. FuncDecl[i].name[1] = "named" /\ FuncDecl[i].name[2] = n
      BY <1>1, <1>3, <1>5
    <2> QED
      BY <1>1, <1>3, <1>5, <2>1 DEF Overridden
  <1> QED
    BY <1>4, <1>5

\* The methods that a function comes to, by whether Wasi overrides it.
FuncMethod(i) == Bodies(i)[1]
CodeMethod(i) == IF Overridden(i) THEN Bodies(i)[2] ELSE Bodies(i)[1]
LEMMA BodiesFacts ==
  ASSUME Built, left = {}, stage \in {"code", "written"}, NEW i \in 1 .. wasm.funcs,
         NEW n, n = PublicName(i + Len(wasm.imports))
  PROVE  /\ Bodies(i) \in Seq(MethodTypes)
         /\ Range(Bodies(i)) = {FuncMethod(i), CodeMethod(i)}
         /\ \A p, q \in DOMAIN Bodies(i) : Bodies(i)[p].id = Bodies(i)[q].id => p = q
         /\ FuncMethod(i).id = <<"func", i>>
         /\ FuncMethod(i).does = (IF n \in WasiNames THEN <<"wasi", n>> ELSE <<"code", i>>)
         /\ FuncMethod(i).name = FuncDecl[i].name
         /\ CodeMethod(i).id = (IF n \in WasiNames THEN <<"pre", i>> ELSE <<"func", i>>)
         /\ CodeMethod(i).does = <<"code", i>>
         /\ CodeMethod(i).name = (IF n \in WasiNames THEN <<"pre", n>> ELSE FuncDecl[i].name)
  <1> PICK name : name = FuncDecl[i].name
    OBVIOUS
  <1>1. i \in Nat /\ wasm.funcs \in Nat
    BY ReadFacts
  <1>2. name \in MethodNames
    BY OverriddenFacts
  <1> PICK code : code = <<"code", i>>
    OBVIOUS
  <1>3. code \in Behaviours /\ <<"func", i>> \in MethodIds /\ <<"pre", i>> \in MethodIds
    BY <1>1 DEF Behaviours, MethodIds
  <1>4. CASE n \in WasiNames
    <2>1. Overridden(i) /\ name[2] = n
      BY <1>4, OverriddenFacts
    <2> PICK one : one = Method(<<"func", i>>, name, <<"wasi", n>>)
      OBVIOUS
    <2> PICK two : two = Method(<<"pre", i>>, <<"pre", n>>, code)
      OBVIOUS
    <2>2. Bodies(i) = <<one, two>>
      BY <2>1 DEF Bodies
    <2>3. <<"wasi", n>> \in Behaviours /\ <<"pre", n>> \in MethodNames
      BY <1>4 DEF Behaviours, MethodNames, Names
    <2>4. /\ one.id = <<"func", i>> /\ one.name = name /\ one.does = <<"wasi", n>> /\ one \in MethodTypes
          /\ two.id = <<"pre", i>> /\ two.name = <<"pre", n>> /\ two.does = code /\ two \in MethodTypes
      BY <1>2, <1>3, <2>3 DEF Method, MethodTypes
    <2>5. FuncMethod(i) = one /\ CodeMethod(i) = two
      BY <2>1, <2>2 DEF FuncMethod, CodeMethod
    <2> HIDE DEF MethodTypes
    <2>6. Bodies(i) \in Seq(MethodTypes) /\ Len(Bodies(i)) = 2 /\ DOMAIN Bodies(i) = 1 .. 2
      BY <2>2, <2>4
    <2>7. Range(Bodies(i)) = {one, two}
      <3>1. Bodies(i)[1] = one /\ Bodies(i)[2] = two /\ 1 \in DOMAIN Bodies(i) /\ 2 \in DOMAIN Bodies(i)
        BY <2>2
      <3>2. \A p \in DOMAIN Bodies(i) : p = 1 \/ p = 2
        BY <2>6
      <3> QED
        BY <3>1, <3>2 DEF Range
    <2>8. ASSUME NEW p \in DOMAIN Bodies(i), NEW q \in DOMAIN Bodies(i), Bodies(i)[p].id = Bodies(i)[q].id
          PROVE  p = q
      <3>1. (p = 1 \/ p = 2) /\ (q = 1 \/ q = 2)
        BY <2>6
      <3>2. Bodies(i)[1].id # Bodies(i)[2].id
        BY <2>2, <2>4
      <3> QED
        BY <2>8, <3>1, <3>2
    <2> QED
      BY <1>4, <2>4, <2>5, <2>6, <2>7, <2>8
  <1>5. CASE n \notin WasiNames
    <2>1. ~Overridden(i)
      BY <1>5, OverriddenFacts
    <2> PICK one : one = Method(<<"func", i>>, name, code)
      OBVIOUS
    <2>2. Bodies(i) = <<one>>
      BY <2>1 DEF Bodies
    <2>3. one.id = <<"func", i>> /\ one.name = name /\ one.does = code /\ one \in MethodTypes
      BY <1>2, <1>3 DEF Method, MethodTypes
    <2>4. FuncMethod(i) = one /\ CodeMethod(i) = one
      BY <2>1, <2>2 DEF FuncMethod, CodeMethod
    <2> HIDE DEF MethodTypes
    <2>5. Bodies(i) \in Seq(MethodTypes) /\ Len(Bodies(i)) = 1 /\ DOMAIN Bodies(i) = 1 .. 1
      BY <2>2, <2>3
    <2>6. Range(Bodies(i)) = {one}
      BY <2>2, <2>5 DEF Range
    <2>7. \A p, q \in DOMAIN Bodies(i) : p = q
      BY <2>5
    <2> QED
      BY <1>5, <2>3, <2>4, <2>5, <2>6, <2>7
  <1> QED
    BY <1>4, <1>5

LEMMA NameMethodsIInv == Built /\ NameMethods => Built'
  <1> SUFFICES ASSUME Built, NameMethods
               PROVE  Built'
    OBVIOUS
  <1>1. /\ stage = "naming" /\ stage' = "code" /\ left = {}
        /\ UNCHANGED <<wasm, left, elementSeen, codeSeen, filled, ImportFuncs, ExportFunc, cctor, methods, calls>>
        /\ FuncDecl' = [i \in DOMAIN FuncDecl |-> [FuncDecl[i] EXCEPT !.name = NameOf(i)]]
    BY DEF NameMethods, Built, SectionsInOrder
  <1>2. WellFormed' /\ SectionsInOrder' /\ CallsMade'
    BY <1>1, OrderKept, CallsKept DEF Refusals
  <1>3. ConstructorWritten'
    BY <1>1, ConstructorKept
  <1>4. TableFilled'
    <2>1. filled = Len(wasm.segments)
      BY <1>1 DEF Built, TableFilled
    <2> QED
      BY <1>1, <2>1, TableKept
  <1>5. ASSUME NEW i \in 1 .. wasm.funcs
        PROVE  /\ FuncDecl'[i] \in [importName : Names \cup {NoName}, name : MethodNames]
               /\ FuncDecl'[i].importName = wasm.debug[i] /\ FuncDecl'[i].name = NameOf(i)
               /\ FuncDecl'[i].importName = FuncDecl[i].importName
    <2>1. /\ FuncDecl[i] \in [importName : Names \cup {NoName}, name : MethodNames] /\ i \in DOMAIN FuncDecl
          /\ FuncDecl[i].importName = wasm.debug[i]
      BY <1>1, ReadFacts
    <2>2. NameOf(i) \in MethodNames
      BY <1>1, NameFacts
    <2>3. FuncDecl'[i] = [FuncDecl[i] EXCEPT !.name = NameOf(i)]
      BY <1>1, <2>1
    <2> QED
      BY <2>1, <2>2, <2>3
  <1>6. wasm.funcs \in Nat /\ DOMAIN FuncDecl' = 1 .. wasm.funcs
    BY <1>1, ReadFacts
  <1>7. FuncDecl' \in Seq([importName : Names \cup {NoName}, name : MethodNames]) /\ Len(FuncDecl') = wasm.funcs
    <2>1. FuncDecl' = [i \in 1 .. wasm.funcs |-> FuncDecl'[i]]
      BY <1>1, <1>6
    <2>2. FuncDecl' \in [1 .. wasm.funcs -> [importName : Names \cup {NoName}, name : MethodNames]]
      BY <1>5, <2>1
    <2> QED
      BY <1>6, <2>2, SequenceOf
  <1>8. ImportsRead'
    BY <1>1 DEF Built, ImportsRead
  <1>9. FunctionsRead'
    <2>1. ASSUME NEW i \in 1 .. wasm.funcs
          PROVE  NameOf(i)' = NameOf(i)
      BY <1>1, <1>5 DEF NameOf, NameAs
    <2>2. wasm' = wasm /\ left' = {}
      BY <1>1
    <2> QED
      BY <1>5, <1>6, <1>7, <2>1, <2>2 DEF FunctionsRead
  <1>10. ExportsRead'
    BY <1>1, ExportsKept
  <1>11. MethodsMade'
    <2>1. CodeMethods' = CodeMethods /\ Translated' = Translated /\ Missing' = Missing /\ Range(methods') = Range(methods)
      BY <1>1 DEF CodeMethods, Translated, Missing, Range
    <2>2. \A k : Stub(k)' = Stub(k)
      BY <1>1 DEF Stub
    <2>3. Translated = 0 /\ IsFiniteSet(CodeMethods)
      BY <1>1 DEF Built, MethodsMade
    <2>4. UNION {Range(Bodies(i)) : i \in 1 .. Translated} = {} /\ UNION {Range(Bodies(i))' : i \in 1 .. Translated'} = {}
      BY <2>1, <2>3
    <2>5. Range(methods) = {Stub(k) : k \in Missing}
      BY <1>1, <2>4 DEF Built, MethodsMade
    <2>6. Range(methods') = {Stub(k)' : k \in Missing'} \cup UNION {Range(Bodies(i))' : i \in 1 .. Translated'}
      BY <2>1, <2>2, <2>4, <2>5
    <2>7. wasm'.funcs \in Nat /\ \A p, q \in DOMAIN methods : methods[p].id = methods[q].id => p = q
      BY <1>1, <1>6 DEF Built, MethodsMade
    <2> QED
      BY <1>1, <2>1, <2>3, <2>6, <2>7 DEF MethodsMade
  <1>12. RefusedOnlyNamed'
    BY <1>1 DEF RefusedOnlyNamed, AlwaysThrow
  <1>13. TypeOK'
    <2>1. FuncDeclTypes'
      BY <1>1, <1>6, <1>7 DEF FuncDeclTypes
    <2>2. /\ stage' \in Stages /\ filled' \in 0 .. Len(wasm.segments)
          /\ methods' \in Seq(MethodTypes) /\ calls' \subseteq Nat \X MethodIds
      BY <1>1 DEF Built, TypeOK, Stages, MethodTypes
    <2> QED
      BY <1>1, <2>1, <2>2, TypesLater
  <1> QED
    BY <1>2, <1>3, <1>4, <1>8, <1>9, <1>10, <1>11, <1>12, <1>13 DEF Built

\* What a method in the class is.
LEMMA MadeFacts ==
  ASSUME Built, left = {}, stage # "sections", NEW m \in Range(methods)
  PROVE  \/ \E k \in Missing : m = Stub(k)
         \/ \E i \in 1 .. Translated : m \in Range(Bodies(i))
  BY DEF Built, MethodsMade

\* Every stub there can be was made by AddStubs.
LEMMA NoMoreStubs ==
  ASSUME Built, left = {}, stage # "sections"
  PROVE  /\ StubsMade = {} /\ SetToSeq({Stub(k) : k \in StubsMade}) = <<>>
         /\ Indices = FunctionIndices
         /\ \A k \in FunctionIndices : resolveMethod(k) \in MethodIds
  <1> PICK n \in Nat : n = Len(wasm.imports)
    BY ReadFacts
  <1>1. /\ Len(ImportFuncs) = n /\ Len(FuncDecl) = wasm.funcs /\ DOMAIN ImportFuncs = 1 .. n /\ wasm.funcs \in Nat
        /\ \A k \in 1 .. n : ImportFuncs[k].name = wasm.imports[k]
    BY ReadFacts
  <1>2. \A k \in 1 .. n : ImportFuncs[k].method = IF wasm.imports[k] \in WasiNames THEN Null ELSE <<"stub", k>>
    BY <1>1 DEF Built, ImportsRead
  <1>3. \A k \in Nat : <<"stub", k>> # Null
    BY DEF Null
  <1>4. StubsMade = {}
    <2>1. ASSUME NEW k \in 1 .. n, ImportFuncs[k].method = Null
          PROVE  ImportFuncs[k].name \in WasiNames
      <3>1. <<"stub", k>> # Null /\ ImportFuncs[k].name = wasm.imports[k]
        BY <1>1, <1>3
      <3>2. ImportFuncs[k].method = IF wasm.imports[k] \in WasiNames THEN Null ELSE <<"stub", k>>
        BY <1>2
      <3>3. CASE wasm.imports[k] \notin WasiNames
        <4>1. ImportFuncs[k].method = <<"stub", k>>
          BY <3>2, <3>3
        <4> QED
          BY <2>1, <3>1, <4>1
      <3> QED
        BY <3>1, <3>3
    <2> QED
      BY <1>1, <2>1 DEF StubsMade
  <1>5. SetToSeq({Stub(k) : k \in StubsMade}) = <<>>
    <2>1. {Stub(k) : k \in StubsMade} = {}
      BY <1>4
    <2>2. SetToSeq({}) \in Seq({})
      BY FS_EmptySet, SetToSeqFacts
    <2>3. SetToSeq({}) = <<>>
      BY <2>2
    <2> QED
      BY <2>1, <2>3
  <1>6. Indices = FunctionIndices
    BY <1>1 DEF Indices, FunctionIndices
  <1>7. ASSUME NEW k \in FunctionIndices
        PROVE  resolveMethod(k) \in MethodIds
    <2>1. k \in 1 .. n + wasm.funcs /\ k \in Nat
      BY <1>1 DEF FunctionIndices
    <2>2. CASE k > n
      <3>1. resolveMethod(k) = <<"func", k - n>> /\ k - n \in Nat
        BY <1>1, <2>1, <2>2 DEF resolveMethod
      <3> QED
        BY <3>1 DEF MethodIds
    <2>3. CASE k <= n
      <3>1. k \in 1 .. n /\ <<"stub", k>> \in MethodIds
        BY <2>1, <2>3 DEF MethodIds
      <3>2. wasm.imports[k] \in WasiNames => <<"wasi", wasm.imports[k]>> \in MethodIds
        BY DEF MethodIds
      <3>3. resolveMethod(k) = IF wasm.imports[k] \in WasiNames THEN <<"wasi", wasm.imports[k]>> ELSE <<"stub", k>>
        BY <1>1, <1>2, <1>3, <2>1, <2>3, <3>1 DEF resolveMethod
      <3> QED
        BY <3>1, <3>2, <3>3
    <2> QED
      BY <1>1, <2>1, <2>2, <2>3
  <1> QED
    BY <1>4, <1>5, <1>6, <1>7

\* Two sequences joined contain what either contains.
LEMMA JoinedRange ==
  ASSUME NEW S, NEW s \in Seq(S), NEW t \in Seq(S)
  PROVE  Range(s \o t) = Range(s) \cup Range(t)
  <1> PICK u : u = s \o t
    OBVIOUS
  <1>1. /\ Len(s) \in Nat /\ Len(t) \in Nat /\ Len(u) = Len(s) + Len(t) /\ u \in Seq(S)
        /\ \A i \in 1 .. Len(s) + Len(t) : u[i] = IF i <= Len(s) THEN s[i] ELSE t[i - Len(s)]
    BY Joined
  <1>2. ASSUME NEW m \in Range(u)
        PROVE  m \in Range(s) \cup Range(t)
    <2>1. PICK i \in 1 .. Len(s) + Len(t) : m = u[i]
      BY <1>1 DEF Range
    <2>2. CASE i <= Len(s)
      BY <1>1, <2>1, <2>2 DEF Range
    <2>3. CASE ~(i <= Len(s))
      <3>1. i - Len(s) \in DOMAIN t /\ m = t[i - Len(s)]
        BY <1>1, <2>1, <2>3
      <3> QED
        BY <3>1 DEF Range
    <2> QED
      BY <2>2, <2>3
  <1>3. ASSUME NEW m \in Range(s)
        PROVE  m \in Range(u)
    <2>1. PICK i \in 1 .. Len(s) : m = s[i]
      BY DEF Range
    <2>2. i \in DOMAIN u /\ u[i] = m
      BY <1>1, <2>1
    <2> QED
      BY <2>2 DEF Range
  <1>4. ASSUME NEW m \in Range(t)
        PROVE  m \in Range(u)
    <2>1. PICK i \in 1 .. Len(t) : m = t[i]
      BY DEF Range
    <2>2. i + Len(s) \in DOMAIN u /\ u[i + Len(s)] = m
      BY <1>1, <2>1
    <2> QED
      BY <2>2 DEF Range
  <1> QED
    BY <1>2, <1>3, <1>4

\* The methods so far come to other ids than those of the function i.
LEMMA OtherIds ==
  ASSUME Built, left = {}, stage \in {"code", "written"}, NEW m \in Range(methods), NEW i \in 1 .. wasm.funcs,
         i > Translated, Translated \in Nat
  PROVE  m.id # <<"func", i>> /\ m.id # <<"pre", i>>
  <1>1. CASE \E k \in Missing : m = Stub(k)
    <2>1. PICK k \in Missing : m = Stub(k)
      BY <1>1
    <2>2. m.id = <<"stub", k>>
      BY <2>1, StubFacts
    <2> QED
      BY <2>2
  <1>2. CASE \E j \in 1 .. Translated : m \in Range(Bodies(j))
    <2>1. PICK j \in 1 .. Translated : m \in Range(Bodies(j))
      BY <1>2
    <2>2. j \in 1 .. wasm.funcs /\ j # i
      <3>1. wasm.funcs \in Nat
        BY ReadFacts
      <3> QED
        BY <3>1
    <2>3. m.id = <<"func", j>> \/ m.id = <<"pre", j>>
      BY <2>1, <2>2, BodiesFacts
    <2> QED
      BY <2>2, <2>3
  <1> QED
    BY <1>1, <1>2, MadeFacts

\* A function is translated.
LEMMA TranslatedMethods ==
  ASSUME Built, left = {}, stage = "code", stage' = "code", UNCHANGED <<wasm, ImportFuncs, FuncDecl>>,
         NEW i, i = Translated + 1, i \in 1 .. wasm.funcs, methods' = methods \o Bodies(i),
         <<"instruction", i>> \notin wasm.flaws
  PROVE  MethodsMade' /\ methods' \in Seq(MethodTypes)
  <1>0. /\ IsFiniteSet(CodeMethods) /\ methods \in Seq(MethodTypes) /\ Translated <= wasm.funcs
        /\ Range(methods) = {Stub(k) : k \in Missing} \cup UNION {Range(Bodies(j)) : j \in 1 .. Translated}
        /\ \A p, q \in DOMAIN methods : methods[p].id = methods[q].id => p = q
        /\ \A j \in 1 .. Translated : <<"instruction", j>> \notin wasm.flaws
    BY DEF Built, MethodsMade, TypeOK, MethodTypes
  <1>1. Translated \in Nat /\ i > Translated /\ Translated = Cardinality(CodeMethods) /\ wasm.funcs \in Nat
    BY <1>0, FS_CardinalityType, ReadFacts DEF Translated, CodeMethods
  <1> PICK n : n = PublicName(i + Len(wasm.imports))
    OBVIOUS
  <1> PICK bodies : bodies = Bodies(i)
    OBVIOUS
  <1>2. /\ bodies \in Seq(MethodTypes) /\ Range(bodies) = {FuncMethod(i), CodeMethod(i)}
        /\ \A p, q \in DOMAIN bodies : bodies[p].id = bodies[q].id => p = q
        /\ FuncMethod(i).id = <<"func", i>> /\ CodeMethod(i).does = <<"code", i>>
        /\ FuncMethod(i).does = (IF n \in WasiNames THEN <<"wasi", n>> ELSE <<"code", i>>)
        /\ CodeMethod(i).id = (IF n \in WasiNames THEN <<"pre", i>> ELSE <<"func", i>>)
    BY BodiesFacts
  <1>3. /\ methods' \in Seq(MethodTypes) /\ Range(methods') = Range(methods) \cup {FuncMethod(i), CodeMethod(i)}
        /\ Len(methods') = Len(methods) + Len(bodies)
        /\ \A p \in 1 .. Len(methods) + Len(bodies) :
             methods'[p] = IF p <= Len(methods) THEN methods[p] ELSE bodies[p - Len(methods)]
    <2>1. methods' = methods \o bodies
      OBVIOUS
    <2>2. Range(methods \o bodies) = Range(methods) \cup Range(bodies)
      BY <1>0, <1>2, JoinedRange
    <2>3. /\ methods \o bodies \in Seq(MethodTypes) /\ Len(methods \o bodies) = Len(methods) + Len(bodies)
          /\ \A p \in 1 .. Len(methods) + Len(bodies) :
               (methods \o bodies)[p] = IF p <= Len(methods) THEN methods[p] ELSE bodies[p - Len(methods)]
      BY <1>0, <1>2, Joined
    <2> QED
      BY <1>2, <2>1, <2>2, <2>3
  <1>4. CodeMethod(i) \notin Range(methods)
    BY <1>1, <1>2, OtherIds
  <1>5. FuncMethod(i).does[1] = "code" => FuncMethod(i) = CodeMethod(i)
    <2>1. CASE n \in WasiNames
      BY <1>2, <2>1
    <2>2. CASE n \notin WasiNames
      <3>1. FuncMethod(i).id = CodeMethod(i).id /\ FuncMethod(i) \in Range(bodies) /\ CodeMethod(i) \in Range(bodies)
        BY <1>2, <2>2
      <3>2. PICK p, q \in DOMAIN bodies : bodies[p] = FuncMethod(i) /\ bodies[q] = CodeMethod(i)
        BY <3>1 DEF Range
      <3>3. p = q
        BY <1>2, <3>1, <3>2
      <3> QED
        BY <3>2, <3>3
    <2> QED
      BY <2>1, <2>2
  <1>6. CodeMethods' = CodeMethods \cup {CodeMethod(i)}
    <2>1. CodeMethod(i).does[1] = "code"
      BY <1>2
    <2> QED
      BY <1>3, <1>5, <2>1 DEF CodeMethods
  <1>7. IsFiniteSet(CodeMethods') /\ Translated' = i
    <2>1. CodeMethod(i) \notin CodeMethods
      BY <1>4 DEF CodeMethods
    <2>2. IsFiniteSet(CodeMethods') /\ Cardinality(CodeMethods') = Cardinality(CodeMethods) + 1
      BY <1>0, <1>6, <2>1, FS_AddElement
    <2> QED
      BY <1>1, <2>2 DEF Translated, CodeMethods
  <1>8. Missing' = Missing /\ (\A k : Stub(k)' = Stub(k)) /\ (\A j : Range(Bodies(j))' = Range(Bodies(j)))
    <2>1. Missing' = Missing /\ (\A k : Stub(k)' = Stub(k)) /\ (\A j : Bodies(j)' = Bodies(j))
      BY DEF Missing, Stub, Bodies, Overridden
    <2> QED
      BY <2>1
  <1>9. Range(methods') = {Stub(k)' : k \in Missing'} \cup UNION {Range(Bodies(j))' : j \in 1 .. Translated'}
    <2>1. {Stub(k)' : k \in Missing'} = {Stub(k) : k \in Missing}
      BY <1>8
    <2>2. {Range(Bodies(j))' : j \in 1 .. Translated'} = {Range(Bodies(j)) : j \in 1 .. i}
      BY <1>7, <1>8
    <2>3. \A j \in 1 .. i : j \in 1 .. Translated \/ j = i
      BY <1>1
    <2>4. 1 .. Translated \subseteq 1 .. i /\ i \in 1 .. i
      BY <1>1
    <2>5. {Range(Bodies(j)) : j \in 1 .. i} = {Range(Bodies(j)) : j \in 1 .. Translated} \cup {Range(Bodies(i))}
      BY <2>3, <2>4
    <2>6. UNION {Range(Bodies(j)) : j \in 1 .. i} = (UNION {Range(Bodies(j)) : j \in 1 .. Translated}) \cup Range(Bodies(i))
      BY <2>5
    <2> QED
      BY <1>0, <1>2, <1>3, <2>1, <2>2, <2>6
  <1>10. ASSUME NEW p \in DOMAIN methods', NEW q \in DOMAIN methods', methods'[p].id = methods'[q].id
         PROVE  p = q
    <2> PICK a, b : a = Len(methods) /\ b = Len(bodies)
      OBVIOUS
    <2>0. a \in Nat /\ b \in Nat
      BY <1>0, <1>2
    <2>1. p \in 1 .. a + b /\ q \in 1 .. a + b
      BY <1>3, <2>0
    <2>2. ASSUME NEW r \in 1 .. a + b, r <= a
          PROVE  r \in DOMAIN methods /\ methods'[r] = methods[r] /\ methods[r] \in Range(methods)
      <3>1. r \in 1 .. a /\ DOMAIN methods = 1 .. a
        BY <1>0, <2>0, <2>2
      <3>2. methods'[r] = methods[r]
        BY <1>3, <2>2
      <3> QED
        BY <3>1, <3>2 DEF Range
    <2>3. ASSUME NEW r \in 1 .. a + b, ~(r <= a)
          PROVE  r - a \in DOMAIN bodies /\ methods'[r] = bodies[r - a] /\ bodies[r - a] \in Range(bodies)
      <3>1. r - a \in 1 .. b /\ DOMAIN bodies = 1 .. b
        BY <1>2, <2>0, <2>3
      <3>2. methods'[r] = bodies[r - a]
        BY <1>3, <2>3
      <3> QED
        BY <3>1, <3>2 DEF Range
    <2>4. \A m \in Range(bodies) : m.id = <<"func", i>> \/ m.id = <<"pre", i>>
      BY <1>2
    <2>5. \A m \in Range(methods) : m.id # <<"func", i>> /\ m.id # <<"pre", i>>
      BY <1>1, OtherIds
    <2>6. CASE p <= a /\ q <= a
      BY <1>0, <1>10, <2>1, <2>2, <2>6
    <2>7. CASE ~(p <= a) /\ ~(q <= a)
      <3>1. p - a = q - a
        BY <1>2, <1>10, <2>1, <2>3, <2>7
      <3> QED
        BY <2>0, <2>1, <3>1
    <2>8. CASE p <= a /\ ~(q <= a)
      <3>1. methods'[p].id # <<"func", i>> /\ methods'[p].id # <<"pre", i>>
        BY <2>1, <2>2, <2>5, <2>8
      <3>2. methods'[q].id = <<"func", i>> \/ methods'[q].id = <<"pre", i>>
        BY <2>1, <2>3, <2>4, <2>8
      <3> QED
        BY <1>10, <3>1, <3>2
    <2>9. CASE ~(p <= a) /\ q <= a
      <3>1. methods'[q].id # <<"func", i>> /\ methods'[q].id # <<"pre", i>>
        BY <2>1, <2>2, <2>5, <2>9
      <3>2. methods'[p].id = <<"func", i>> \/ methods'[p].id = <<"pre", i>>
        BY <2>1, <2>3, <2>4, <2>9
      <3> QED
        BY <1>10, <3>1, <3>2
    <2> QED
      BY <2>6, <2>7, <2>8, <2>9, Zenon
  <1>11. wasm'.funcs = wasm.funcs /\ i <= wasm.funcs
    OBVIOUS
  <1>12. \A j \in 1 .. Translated' : <<"instruction", j>> \notin wasm'.flaws
    <2>1. \A j \in 1 .. Translated' : j \in 1 .. Translated \/ j = i
      BY <1>1, <1>7
    <2>2. wasm' = wasm
      OBVIOUS
    <2> QED
      BY <1>0, <2>1, <2>2
  <1> QED
    BY <1>3, <1>7, <1>9, <1>10, <1>11, <1>12 DEF MethodsMade

LEMMA NextFunction ==
  ASSUME Built, left = {}, Translated + 1 <= FuncCount
  PROVE  Translated + 1 \in 1 .. wasm.funcs /\ wasm.funcs > 0
  <1>1. IsFiniteSet(CodeMethods) /\ wasm.funcs \in Nat /\ (codeSeen <=> wasm.funcs > 0)
    BY ReadFacts DEF Built, MethodsMade, SectionsInOrder
  <1>2. Translated \in Nat
    BY <1>1, FS_CardinalityType DEF Translated, CodeMethods
  <1>3. FuncCount = wasm.funcs
    BY <1>1 DEF FuncCount
  <1> QED
    BY <1>1, <1>2, <1>3

LEMMA TranslateIInv == Built /\ TranslateFunction /\ stage' \notin Refusals => Built'
  <1> SUFFICES ASSUME Built, TranslateFunction, stage' \notin Refusals
               PROVE  Built'
    OBVIOUS
  <1> DEFINE i == Translated + 1
  <1>1. /\ stage = "code" /\ left = {}
        /\ UNCHANGED <<wasm, left, elementSeen, codeSeen, filled, ImportFuncs, FuncDecl, ExportFunc, cctor>>
    BY DEF TranslateFunction, Refuse, Built, SectionsInOrder
  <1>2. i \in 1 .. wasm.funcs /\ wasm.funcs > 0
    BY <1>1, NextFunction DEF TranslateFunction
  <1> HIDE DEF i
  <1>3. WellFormed' /\ SectionsInOrder' /\ ConstructorWritten'
    BY <1>1, OrderKept, ConstructorKept
  <1>4. filled = Len(wasm.segments) /\ filled' \in 0 .. Len(wasm.segments)
    BY <1>1 DEF Built, TableFilled, TypeOK
  <1>7. CASE /\ <<"instruction", i>> \notin wasm.flaws
             /\ methods' = methods \o Bodies(i) \o SetToSeq({Stub(k) : k \in StubsMade})
             /\ calls' = calls \cup {<<k, resolveMethod(k)>> : k \in Indices}
             /\ UNCHANGED stage
    <2>1. ImportsRead' /\ FunctionsRead' /\ ExportsRead' /\ TableFilled'
      BY <1>1, <1>4, <1>7, ReadKept, TableKept
    <2>2. methods' = methods \o Bodies(i)
      <3>1. methods \in Seq(MethodTypes) /\ Bodies(i) \in Seq(MethodTypes)
        BY <1>1, <1>2, BodiesFacts DEF Built, TypeOK, MethodTypes
      <3>2. methods \o Bodies(i) \in Seq(MethodTypes)
        BY <3>1, Joined
      <3>3. SetToSeq({Stub(k) : k \in StubsMade}) = <<>>
        BY <1>1, NoMoreStubs
      <3> QED
        BY <1>7, <3>2, <3>3, ConcatEmptySeq
    <2>3. MethodsMade' /\ methods' \in Seq(MethodTypes)
      <3> PICK j : j = i
        OBVIOUS
      <3>1. /\ j = Translated + 1 /\ j \in 1 .. wasm.funcs /\ methods' = methods \o Bodies(j) /\ stage' = "code"
            /\ <<"instruction", j>> \notin wasm.flaws
        BY <1>1, <1>2, <1>7, <2>2 DEF i
      <3> QED
        BY <1>1, <3>1, TranslatedMethods
    <2>4. /\ \A c \in calls : c[1] \in FunctionIndices /\ c[2] = resolveMethod(c[1])
          /\ Indices = FunctionIndices /\ \A k \in FunctionIndices : resolveMethod(k) \in MethodIds
      BY <1>1, NoMoreStubs DEF Built, CallsMade
    <2>5. CallsMade'
      <3>1. (\A k : resolveMethod(k)' = resolveMethod(k)) /\ FunctionIndices' = FunctionIndices
        BY <1>1 DEF resolveMethod, FunctionIndices
      <3>2. \A c \in calls' : c[1] \in FunctionIndices /\ c[2] = resolveMethod(c[1])
        BY <1>7, <2>4
      <3> QED
        BY <1>1, <1>7, <3>1, <3>2 DEF CallsMade
    <2>6. RefusedOnlyNamed'
      BY <1>1, <1>7 DEF RefusedOnlyNamed, AlwaysThrow
    <2>7. TypeOK'
      <3>1. stage' \in Stages /\ calls \subseteq Nat \X MethodIds
        BY <1>7 DEF Built, TypeOK
      <3>2. FunctionIndices \subseteq Nat
        BY DEF FunctionIndices
      <3>3. {<<k, resolveMethod(k)>> : k \in Indices} \subseteq Nat \X MethodIds
        BY <2>4, <3>2
      <3>4. calls' \subseteq Nat \X MethodIds
        BY <1>7, <3>1, <3>3
      <3> QED
        BY <1>1, <1>4, <2>3, <3>1, <3>4, TypesLater
    <2> QED
      BY <1>3, <2>1, <2>3, <2>5, <2>6, <2>7 DEF Built
  <1>8. \A reason \in {"unmatched", "noDelegate", "instruction"} : ~Refuse(reason)
    BY DEF Refuse, Refusals
  <1> QED
    BY <1>7, <1>8 DEF TranslateFunction, i

LEMMA WriteIInv == Built /\ Write => Built'
  <1> SUFFICES ASSUME Built, Write
               PROVE  Built'
    OBVIOUS
  <1>1. /\ stage = "code" /\ stage' = "written" /\ left = {} /\ Translated = FuncCount
        /\ UNCHANGED <<wasm, left, elementSeen, codeSeen, filled, ImportFuncs, FuncDecl, ExportFunc, cctor, methods, calls>>
    BY DEF Write, Built, SectionsInOrder
  <1>2. Translated = wasm.funcs
    <2>1. wasm.funcs \in Nat /\ (codeSeen <=> wasm.funcs > 0)
      BY <1>1 DEF Built, WellFormed, SectionsInOrder
    <2> QED
      BY <1>1, <2>1 DEF FuncCount
  <1>3. WellFormed' /\ SectionsInOrder' /\ ConstructorWritten' /\ ImportsRead' /\ FunctionsRead' /\ ExportsRead'
    BY <1>1, OrderKept, ConstructorKept, ReadKept DEF Refusals
  <1>4. filled = Len(wasm.segments) /\ filled' \in 0 .. Len(wasm.segments)
    BY <1>1 DEF Built, TableFilled, TypeOK
  <1>5. TableFilled' /\ MethodsMade' /\ CallsMade'
    BY <1>1, <1>2, <1>4, TableKept, MethodsKept, CallsKept
  <1>6. RefusedOnlyNamed'
    <2>1. ASSUME NEW s \in Range(wasm.segments), NEW k \in Range(s)
          PROVE  ~Wide(k)
      <3>1. PICK x \in 1 .. Len(wasm.segments) : s = wasm.segments[x]
        BY DEF Built, WellFormed, Range
      <3>2. PICK j \in DOMAIN wasm.segments[x] : wasm.segments[x][j] = k
        BY <2>1, <3>1 DEF Range
      <3>3. Problem(wasm.segments[x][j]) = "none"
        BY <1>4 DEF Built, TableFilled
      <3>4. wasm.segments[x][j] \in FunctionIndices
        BY SegmentFacts
      <3> QED
        BY <1>1, <3>2, <3>3, <3>4, ProblemFacts
    <2>2. ASSUME NEW kind \in AlwaysThrow
          PROVE  ~Flawed(wasm, kind)
      <3>1. FlawsAhead /\ left = {}
        BY <1>1 DEF Built, SectionsInOrder
      <3>2. CASE kind \in {"memory", "initializer", "dataOffset"}
        BY <3>1, <3>2 DEF FlawsAhead
      <3>3. CASE kind = "elementOffset"
        BY <1>4, <3>3 DEF Built, WellFormed, TableFilled, Flawed
      <3>4. CASE kind = "instruction"
        BY <1>2, <3>4 DEF Built, WellFormed, MethodsMade, Flawed
      <3> QED
        BY <3>2, <3>3, <3>4 DEF AlwaysThrow
    <2>3. wasm' = wasm /\ stage' = "written"
      BY <1>1
    <2>4. /\ \A kind \in AlwaysThrow : ~Flawed(wasm', kind)
          /\ \A s \in Range(wasm'.segments) : \A k \in Range(s) : ~Wide(k)'
      BY <2>1, <2>2, <2>3 DEF Wide
    <2> QED
      BY <2>3, <2>4 DEF RefusedOnlyNamed, AlwaysThrow
  <1>7. TypeOK'
    <2>1. /\ stage' \in Stages /\ methods' \in Seq(MethodTypes) /\ calls' \subseteq Nat \X MethodIds
      BY <1>1 DEF Built, TypeOK, Stages, MethodTypes
    <2> QED
      BY <1>1, <1>4, <2>1, TypesLater
  <1> QED
    BY <1>3, <1>5, <1>6, <1>7 DEF Built

LEMMA StutterIInv == Built /\ UNCHANGED vars => Built'
  <1> SUFFICES ASSUME Built, UNCHANGED vars
               PROVE  Built'
    OBVIOUS
  <1>1. UNCHANGED <<wasm, left, stage, elementSeen, codeSeen, filled, ImportFuncs, FuncDecl, ExportFunc, cctor, methods, calls>>
    BY DEF vars
  <1>2. CASE stage = "sections"
    <2>1. WellFormed' /\ TableFilled' /\ MethodsMade' /\ CallsMade' /\ RefusedOnlyNamed'
      BY <1>1, <1>2, SectionRest
    <2>2. ImportsRead' /\ FunctionsRead' /\ ExportsRead' /\ ConstructorWritten'
      BY <1>1, <1>2, ImportsKept, FunctionsKept, ExportsKept, ConstructorKept
    <2>3. SectionsInOrder'
      BY <1>1, <1>2 DEF Built, SectionsInOrder, FlawsAhead
    <2>4. TypeOK'
      BY <1>1 DEF Built, TypeOK, Range
    <2> QED
      BY <2>1, <2>2, <2>3, <2>4 DEF Built
  <1>3. CASE stage # "sections"
    <2>1. WellFormed' /\ SectionsInOrder' /\ ConstructorWritten' /\ ImportsRead' /\ FunctionsRead' /\ ExportsRead'
      BY <1>1, <1>3, OrderKept, ConstructorKept, ReadKept DEF Built, SectionsInOrder
    <2>2. /\ (stage \in {"naming", "code", "written"} => filled = Len(wasm.segments))
          /\ (stage = "written" => Translated = wasm.funcs)
      BY DEF Built, TableFilled, MethodsMade
    <2>3. TableFilled' /\ MethodsMade' /\ CallsMade'
      BY <1>1, <1>3, <2>2, TableKept, MethodsKept, CallsKept
    <2>4. TypeOK'
      BY <1>1 DEF Built, TypeOK, Range
    <2>5. RefusedOnlyNamed'
      <3>1. \A k : PublicName(k)' = PublicName(k)
        BY <1>1 DEF PublicName
      <3> QED
        BY <1>1, <3>1 DEF Built, RefusedOnlyNamed, Wide
    <2> QED
      BY <2>1, <2>3, <2>4, <2>5 DEF Built
  <1> QED
    BY <1>2, <1>3

\* An exception leaves everything but the stage.
LEMMA RefuseRefuses ==
  ASSUME Built, NEW reason \in Refusals, Refuse(reason), RefusedOnlyNamed'
  PROVE  Refused'
  <1>1. stage' = reason /\ UNCHANGED <<wasm, left, elementSeen, codeSeen, filled, ImportFuncs, FuncDecl, ExportFunc,
                                      cctor, methods, calls>>
    BY DEF Refuse
  <1>2. WellFormed' /\ stage' \in Refusals /\ stage' \in Stages
    BY <1>1 DEF Built, WellFormed, FunctionIndices, Stages
  <1>3. TypeOK'
    BY <1>1, <1>2 DEF Built, TypeOK, Range
  <1>4. ConstructorRuns'
    <2>1. \A p : TablesAt(p)' = TablesAt(p) /\ LastTable(p)' = LastTable(p)
      BY <1>1 DEF TablesAt, LastTable
    <2> QED
      BY <1>1, <2>1 DEF Built, ConstructorWritten, ConstructorRuns
  <1> QED
    BY <1>2, <1>3, <1>4 DEF Refused

\* A flaw that always throws is the one the module is refused for.
LEMMA FlawRefuses ==
  ASSUME Built, NEW reason \in AlwaysThrow, Refuse(reason), Flawed(wasm, reason)
  PROVE  Refused'
  <1>1. stage' = reason /\ wasm' = wasm /\ reason \in Refusals
    BY DEF Refuse, AlwaysThrow, Refusals
  <1>2. RefusedOnlyNamed'
    BY <1>1 DEF RefusedOnlyNamed, AlwaysThrow
  <1> QED
    BY <1>1, <1>2, RefuseRefuses

LEMMA ElementSectionRefuses ==
  ASSUME Built, ReadElementSection, stage' \in Refusals
  PROVE  Refused'
  <1> DEFINE s == wasm.segments[filled + 1]
             problem == SelectInSeq(s, LAMBDA k : Problem(k) # "none")
  <1>1. stage = "element" /\ left = {}
    BY DEF ReadElementSection, Built, SectionsInOrder
  <1>2. ElementSegments = wasm.segments
    BY <1>1, AllSegments
  <1>3. "element" \notin Refusals /\ "naming" \notin Refusals
    BY DEF Refusals
  <1>4. \/ /\ filled < Len(wasm.segments) /\ <<"elementOffset", filled + 1>> \in wasm.flaws
           /\ Refuse("elementOffset")
        \/ filled < Len(wasm.segments) /\ problem # 0 /\ Refuse(Problem(s[problem]))
    BY <1>1, <1>2, <1>3 DEF ReadElementSection
  <1>5. CASE <<"elementOffset", filled + 1>> \in wasm.flaws /\ Refuse("elementOffset")
    <2>1. Flawed(wasm, "elementOffset") /\ "elementOffset" \in AlwaysThrow
      BY <1>5 DEF Flawed, AlwaysThrow
    <2> QED
      BY <1>5, <2>1, FlawRefuses
  <1>6. CASE filled < Len(wasm.segments) /\ problem # 0 /\ Refuse(Problem(s[problem]))
    <2>1. filled \in Nat /\ Len(wasm.segments) \in Nat
      <3>1. Len(wasm.segments) \in Nat
        BY DEF Built, WellFormed
      <3> QED
        BY <3>1 DEF Built, TypeOK
    <2>2. filled + 1 \in 1 .. Len(wasm.segments)
      BY <1>6, <2>1
    <2>3. s \in Seq(FunctionIndices) /\ s \in Range(wasm.segments)
      BY <2>2, SegmentFacts
    <2> PICK k, reason : k = s[problem] /\ reason = Problem(s[problem])
      OBVIOUS
    <2>4. /\ problem \in DOMAIN s /\ k \in FunctionIndices /\ reason \in {"importInTable", "noDelegate"}
          /\ (reason = "importInTable" => k <= Len(wasm.imports) /\ wasm.imports[k] \in WasiNames)
          /\ (reason = "noDelegate" => Wide(k))
      BY <1>1, <1>6, <2>3, FirstProblem
    <2>5. k \in Range(s)
      BY <2>4 DEF Range
    <2> HIDE DEF s, problem
    <2>6. Refuse(reason) /\ reason \in Refusals /\ stage' = reason /\ wasm' = wasm
      BY <1>6, <2>4 DEF Refuse, Refusals
    <2>7. /\ (reason = "importInTable" =>
                \E t \in Range(wasm'.segments) : \E l \in Range(t) :
                   l <= Len(wasm'.imports) /\ wasm'.imports[l] \in WasiNames)
          /\ (reason = "noDelegate" =>
                \E l \in 1 .. Len(wasm'.imports) + wasm'.funcs :
                  Wide(l)' /\ \E t \in Range(wasm'.segments) : l \in Range(t))
      BY <2>3, <2>4, <2>5, <2>6 DEF Wide, FunctionIndices
    <2>8. RefusedOnlyNamed'
      BY <2>4, <2>6, <2>7 DEF RefusedOnlyNamed, AlwaysThrow
    <2> QED
      BY <2>6, <2>8, RefuseRefuses
  <1> QED
    BY <1>4, <1>5, <1>6

LEMMA TranslateRefuses ==
  ASSUME Built, TranslateFunction, stage' \in Refusals
  PROVE  Refused'
  <1> PICK i : i = Translated + 1
    OBVIOUS
  <1>1. stage = "code" /\ left = {} /\ i <= FuncCount
    BY DEF TranslateFunction, Built, SectionsInOrder
  <1>2. i \in 1 .. wasm.funcs /\ wasm.funcs > 0
    BY <1>1, NextFunction
  <1>3. \/ Overridden(i) /\ Refuse("unmatched")
        \/ (\E k \in Indices : ~typeToFunc(TypeOf(k))) /\ Refuse("noDelegate")
        \/ <<"instruction", i>> \in wasm.flaws /\ Refuse("instruction")
    <2>1. "code" \notin Refusals
      BY DEF Refusals
    <2> QED
      BY <1>1, <2>1 DEF TranslateFunction
  <1>4. CASE Overridden(i) /\ Refuse("unmatched")
    <2>1. stage' = "unmatched" /\ wasm' = wasm /\ "unmatched" \in Refusals
      BY <1>4 DEF Refuse, Refusals
    <2>2. PublicName(i + Len(wasm.imports)) \in WasiNames
      BY <1>1, <1>2, <1>4, OverriddenFacts
    <2>3. \A k : PublicName(k)' = PublicName(k)
      BY <2>1 DEF PublicName
    <2>4. \E j \in 1 .. wasm'.funcs : PublicName(j + Len(wasm.imports))' \in WasiNames
      <3> PICK j, z : j = i /\ z = Len(wasm.imports)
        OBVIOUS
      <3>1. j \in 1 .. wasm'.funcs /\ PublicName(j + z)' \in WasiNames /\ z = Len(wasm'.imports)
        BY <1>2, <2>1, <2>2, <2>3
      <3> QED
        BY <3>1
    <2>5. RefusedOnlyNamed'
      BY <2>1, <2>4 DEF RefusedOnlyNamed, AlwaysThrow
    <2> QED
      BY <1>4, <2>1, <2>5, RefuseRefuses
  <1>5. CASE (\E k \in Indices : ~typeToFunc(TypeOf(k))) /\ Refuse("noDelegate")
    <2>1. stage' = "noDelegate" /\ wasm' = wasm /\ "noDelegate" \in Refusals
      BY <1>5 DEF Refuse, Refusals
    <2>2. PICK k \in FunctionIndices : ~typeToFunc(TypeOf(k))
      BY <1>1, <1>5, NoMoreStubs
    <2>3. Wide(k)
      BY <2>2, DelegateFacts
    <2>4. k \in 1 .. Len(wasm'.imports) + wasm'.funcs /\ Wide(k)' /\ wasm'.funcs > 0
      BY <1>2, <2>1, <2>3 DEF Wide, FunctionIndices
    <2>5. RefusedOnlyNamed'
      BY <2>1, <2>4 DEF RefusedOnlyNamed, AlwaysThrow
    <2> QED
      BY <1>5, <2>1, <2>5, RefuseRefuses
  <1>6. CASE <<"instruction", i>> \in wasm.flaws /\ Refuse("instruction")
    <2>1. Flawed(wasm, "instruction") /\ "instruction" \in AlwaysThrow
      BY <1>6 DEF Flawed, AlwaysThrow
    <2> QED
      BY <1>6, <2>1, FlawRefuses
  <1> QED
    BY <1>3, <1>4, <1>5, <1>6

LEMMA SectionRefuses ==
  ASSUME Built, ReadImportSection \/ ReadGlobalSection \/ ReadDataSection, stage' \in Refusals
  PROVE  Refused'
  <1>1. PICK reason \in {"memory", "initializer", "dataOffset"} : Flawed(wasm, reason) /\ Refuse(reason)
    <2>1. stage \notin Refusals
      BY DEF Built, SectionsInOrder
    <2> QED
      BY <2>1 DEF ReadImportSection, ReadGlobalSection, ReadDataSection, RefuseSection, Accept
  <1>2. reason \in AlwaysThrow
    BY DEF AlwaysThrow
  <1> QED
    BY <1>1, <1>2, FlawRefuses

LEMMA InitIInv == Init => IInv
  BY InitBuilt DEF IInv

LEMMA RefusedStays ==
  ASSUME Refused, [Next]_vars
  PROVE  Refused'
  <1>1. UNCHANGED vars
    <2>1. stage \notin {"sections", "element", "naming", "code"}
      BY DEF Refused, Refusals
    <2>2. ~(\E kind : NextSection(kind))
      BY <2>1 DEF NextSection
    <2>3. ~(\E kind : Section(kind)) /\ ~(\E kind, reason : RefuseSection(kind, reason) \/ Accept(kind, reason))
      BY <2>2 DEF Section, RefuseSection, Accept
    <2>4. /\ ~ReadImportSection /\ ~ReadFunctionSection /\ ~ReadMemorySection /\ ~ReadGlobalSection
          /\ ~ReadExportSection /\ ~ReadElementLater /\ ~ReadCodeLater /\ ~ReadDataSection /\ ~ReadCustomSection
      BY <2>3, Zenon DEF ReadImportSection, ReadFunctionSection, ReadMemorySection, ReadGlobalSection,
         ReadExportSection, ReadElementLater, ReadCodeLater, ReadDataSection, ReadCustomSection
    <2>5. ~AddStubs /\ ~ReadElementSection /\ ~NameMethods /\ ~TranslateFunction /\ ~Write
      BY <2>1 DEF AddStubs, ReadElementSection, NameMethods, TranslateFunction, Write
    <2> QED
      BY <2>4, <2>5 DEF Next, Ended
  <1>2. UNCHANGED <<wasm, left, stage, elementSeen, codeSeen, filled, ImportFuncs, FuncDecl, ExportFunc, cctor, methods,
                    calls>>
    BY <1>1 DEF vars
  <1>3. WellFormed' /\ stage' \in Refusals
    BY <1>2 DEF Refused, WellFormed, FunctionIndices
  <1>4. TypeOK'
    BY <1>2 DEF Refused, TypeOK, Range
  <1>5. ConstructorRuns'
    <2>1. \A p : TablesAt(p)' = TablesAt(p) /\ LastTable(p)' = LastTable(p)
      BY <1>2 DEF TablesAt, LastTable
    <2> QED
      BY <1>2, <2>1 DEF Refused, ConstructorRuns
  <1>6. RefusedOnlyNamed'
    <2>1. (\A k : PublicName(k)' = PublicName(k)) /\ \A k : Wide(k)' = Wide(k)
      BY <1>2 DEF PublicName, Wide
    <2> QED
      BY <1>2, <2>1 DEF Refused, RefusedOnlyNamed
  <1> QED
    BY <1>3, <1>4, <1>5, <1>6 DEF Refused

LEMMA BuiltStep ==
  ASSUME Built, Next
  PROVE  Built' \/ Refused'
  <1>1. CASE ReadImportSection \/ ReadGlobalSection \/ ReadDataSection
    BY <1>1, SectionRefuses, ImportSectionIInv, GlobalSectionIInv, DataSectionIInv
  <1>2. CASE ReadElementSection
    BY <1>2, ElementSectionRefuses, ElementSectionIInv
  <1>3. CASE TranslateFunction
    BY <1>3, TranslateRefuses, TranslateIInv
  <1>4. CASE \/ ReadFunctionSection \/ ReadMemorySection \/ ReadExportSection \/ ReadElementLater \/ ReadCodeLater
             \/ ReadCustomSection \/ AddStubs \/ NameMethods \/ Write \/ Ended
    BY <1>4, FunctionSectionIInv, MemorySectionIInv, ExportSectionIInv, ElementLaterIInv, CodeLaterIInv,
       NameSectionIInv, AddStubsIInv, NameMethodsIInv, WriteIInv, StutterIInv DEF Ended
  <1> QED
    BY <1>1, <1>2, <1>3, <1>4 DEF Next

LEMMA StepIInv == IInv /\ [Next]_vars => IInv'
  BY BuiltStep, RefusedStays, StutterIInv DEF IInv

LEMMA Invariance == Spec => []IInv
  BY InitIInv, StepIInv, PTL DEF Spec

\* The variables have their types, and nothing is longer than the module says.
THEOREM TypeCorrect == Spec => []TypeOK
  <1>1. IInv => TypeOK
    BY DEF IInv, Built, Refused
  <1> QED
    BY <1>1, Invariance, PTL

\* Whatever the module has in it, the static constructor that the sections are
\* written to one after the other can run.
THEOREM ConstructorAlwaysRuns == Spec => []ConstructorRuns
  <1>1. IInv => ConstructorRuns
    BY DEF IInv, Built, Refused, ConstructorWritten
  <1> QED
    BY <1>1, Invariance, PTL

\* A module is refused only for what is wrong with it, and none is accepted with
\* what always throws or with a table that could not be called.
THEOREM RefusedForAReason == Spec => []RefusedOnlyNamed
  <1>1. IInv => RefusedOnlyNamed
    BY DEF IInv, Built, Refused
  <1> QED
    BY <1>1, Invariance, PTL

-------------------------------------------------------------------------------
(* What the class does. *)

\* The place of a method, which no other has.
LEMMA PlaceOf ==
  ASSUME Built, NEW m \in Range(methods)
  PROVE  \E p \in DOMAIN methods : methods[p] = m /\ \A q \in DOMAIN methods : methods[q].id = m.id => q = p
  <1>1. PICK p \in DOMAIN methods : methods[p] = m
    BY DEF Range
  <1>2. \A q \in DOMAIN methods : methods[q].id = methods[p].id => q = p
    BY DEF Built, MethodsMade
  <1> QED
    BY <1>1, <1>2

LEMMA DoesFacts ==
  ASSUME Built, NEW m \in Range(methods), m.id[1] # "wasi"
  PROVE  Does(m.id) = m.does
  <1>1. ASSUME NEW c \in Range(methods), c.id = m.id
        PROVE  c = m
    <2>1. PICK p \in DOMAIN methods : methods[p] = m /\ \A q \in DOMAIN methods : methods[q].id = m.id => q = p
      BY PlaceOf
    <2>2. PICK q \in DOMAIN methods : methods[q] = c
      BY DEF Range
    <2> QED
      BY <1>1, <2>1, <2>2
  <1>2. (CHOOSE c \in Range(methods) : c.id = m.id) = m
    BY <1>1
  <1> QED
    BY <1>2 DEF Does

LEMMA MadeMethods ==
  ASSUME Built, left = {}, stage # "sections"
  PROVE  /\ \A k \in Missing : Stub(k) \in Range(methods)
         /\ \A i \in 1 .. Translated : Range(Bodies(i)) \subseteq Range(methods)
         /\ (stage \in {"element", "naming"} => Translated = 0)
         /\ (stage = "written" => Translated = wasm.funcs)
         /\ Translated \in Nat /\ 1 .. Translated \subseteq 1 .. wasm.funcs
  <1>1. Range(methods) = {Stub(k) : k \in Missing} \cup UNION {Range(Bodies(i)) : i \in 1 .. Translated}
    BY DEF Built, MethodsMade
  <1>2. /\ (stage \in {"element", "naming"} => Translated = 0) /\ (stage = "written" => Translated = wasm.funcs)
        /\ IsFiniteSet(CodeMethods) /\ Translated <= wasm.funcs /\ wasm.funcs \in Nat
    BY DEF Built, MethodsMade, WellFormed
  <1>3. Translated \in Nat
    BY <1>2, FS_CardinalityType DEF Translated, CodeMethods
  <1>4. \A i \in 1 .. Translated : Range(Bodies(i)) \subseteq Range(methods)
    BY <1>1
  <1>5. \A k \in Missing : Stub(k) \in Range(methods)
    BY <1>1
  <1>6. 1 .. Translated \subseteq 1 .. wasm.funcs
    BY <1>2, <1>3
  <1> QED
    BY <1>2, <1>3, <1>4, <1>5, <1>6

\* The method that a call of a function goes to does what the function means, and
\* so does the one in the table, if there is one.
LEMMA MeantFacts ==
  ASSUME Built, stage = "written", NEW k \in FunctionIndices
  PROVE  /\ Does(resolveMethod(k)) = Meant(k)
         /\ (TableMethod(k) # Null => TableMethod(k) = resolveMethod(k))
  <1>1. left = {}
    BY DEF Built, SectionsInOrder
  <1> PICK n \in Nat : n = Len(wasm.imports)
    BY <1>1, ReadFacts
  <1>2. /\ Len(ImportFuncs) = n /\ DOMAIN ImportFuncs = 1 .. n /\ wasm.funcs \in Nat /\ k \in 1 .. n + wasm.funcs
        /\ \A l \in 1 .. n : ImportFuncs[l].name = wasm.imports[l]
    BY <1>1, ReadFacts DEF FunctionIndices
  <1>3. CASE k <= n
    <2>1. k \in 1 .. n /\ PublicName(k) = wasm.imports[k] /\ ImportFuncs[k].name = wasm.imports[k]
      BY <1>2, <1>3 DEF PublicName
    <2>2. ImportFuncs[k].method = IF wasm.imports[k] \in WasiNames THEN Null ELSE <<"stub", k>>
      BY <1>2, <2>1 DEF Built, ImportsRead
    <2>3. CASE wasm.imports[k] \in WasiNames
      <3>1. ImportFuncs[k].method = Null
        BY <2>2, <2>3
      <3>2. resolveMethod(k) = <<"wasi", wasm.imports[k]>>
        BY <1>2, <1>3, <2>1, <2>3, <3>1 DEF resolveMethod
      <3>3. Meant(k) = <<"wasi", wasm.imports[k]>> /\ TableMethod(k) = Null
        BY <1>2, <1>3, <2>1, <2>3, <3>1 DEF Meant, TableMethod
      <3> QED
        BY <3>2, <3>3 DEF Does
    <2>4. CASE wasm.imports[k] \notin WasiNames
      <3>1. ImportFuncs[k].method = <<"stub", k>> /\ <<"stub", k>> # Null
        BY <2>2, <2>4 DEF Null
      <3>2. resolveMethod(k) = <<"stub", k>> /\ TableMethod(k) = <<"stub", k>>
        BY <1>2, <1>3, <3>1 DEF resolveMethod, TableMethod
      <3>3. Meant(k) = <<"throws", k>>
        BY <1>3, <2>1, <2>4 DEF Meant
      <3>4. k \in Missing
        BY <1>2, <2>1, <2>4 DEF Missing
      <3>5. Stub(k) \in Range(methods) /\ Stub(k).id = <<"stub", k>> /\ Stub(k).does = <<"throws", k>>
        BY <1>1, <3>4, MadeMethods, StubFacts
      <3>6. Does(Stub(k).id) = Stub(k).does
        BY <3>5, DoesFacts
      <3> QED
        BY <3>2, <3>3, <3>5, <3>6
    <2> QED
      BY <2>3, <2>4
  <1>4. CASE ~(k <= n)
    <2> PICK i, name : i = k - n /\ name = PublicName(k)
      OBVIOUS
    <2>1. i \in 1 .. wasm.funcs /\ k > n /\ k = i + Len(wasm.imports) /\ k - Len(wasm.imports) = i
      BY <1>2, <1>4
    <2>2. resolveMethod(k) = <<"func", i>> /\ TableMethod(k) = <<"func", i>>
      BY <1>2, <1>4 DEF resolveMethod, TableMethod
    <2>3. /\ Range(Bodies(i)) = {FuncMethod(i), CodeMethod(i)} /\ FuncMethod(i).id = <<"func", i>>
          /\ FuncMethod(i).does = IF name \in WasiNames THEN <<"wasi", name>> ELSE <<"code", i>>
      BY <1>1, <2>1, BodiesFacts
    <2>4. FuncMethod(i) \in Range(methods)
      <3>1. i \in 1 .. Translated
        BY <1>1, <2>1, MadeMethods
      <3>2. Range(Bodies(i)) \subseteq Range(methods)
        BY <1>1, <3>1, MadeMethods
      <3> QED
        BY <2>3, <3>2
    <2>5. Does(FuncMethod(i).id) = FuncMethod(i).does
      BY <2>3, <2>4, DoesFacts
    <2>6. Meant(k) = IF name \in WasiNames THEN <<"wasi", name>> ELSE <<"code", i>>
      BY <1>4, <2>1 DEF Meant
    <2> QED
      BY <2>2, <2>3, <2>5, <2>6
  <1> QED
    BY <1>3, <1>4

\* Every call in the translated code reaches the function it names.
THEOREM EveryCallReaches == Spec => []CallsReachFunction
  <1>1. ASSUME Built
        PROVE  CallsReachFunction
    <2>1. SUFFICES ASSUME stage = "written", NEW c \in calls
                   PROVE  Does(c[2]) = Meant(c[1])
      BY DEF CallsReachFunction
    <2>2. c[1] \in FunctionIndices /\ c[2] = resolveMethod(c[1])
      BY <1>1 DEF Built, CallsMade
    <2> QED
      BY <1>1, <2>1, <2>2, MeantFacts
  <1>2. IInv => CallsReachFunction
    BY <1>1 DEF IInv, Refused, Refusals, CallsReachFunction
  <1> QED
    BY <1>2, Invariance, PTL

\* The slots of the function table reach the functions of the last segment.
THEOREM TheTableReaches == Spec => []TableReachesFunction
  <1>1. ASSUME Built
        PROVE  TableReachesFunction
    <2>1. SUFFICES ASSUME stage = "written", wasm.segments # <<>>, NEW s, s = Last(wasm.segments)
                   PROVE  /\ cctor[LastTable(Len(cctor))] = <<"table", Len(s) + 1>>
                          /\ \A j \in DOMAIN s : \E p \in DOMAIN cctor : Fills(p, j) /\ Does(cctor[p][3]) = Meant(s[j])
      BY DEF TableReachesFunction
    <2>2. /\ wasm.segments \in Seq(Seq(FunctionIndices)) /\ filled = Len(wasm.segments) /\ cctor \in Seq(Instructions)
          /\ cctor[Len(cctor)] = <<"ret">>
      BY <1>1, <2>1 DEF Built, WellFormed, TableFilled, ConstructorWritten
    <2>3. filled \in 1 .. Len(wasm.segments) /\ s = wasm.segments[filled] /\ filled > 0
      BY <2>1, <2>2 DEF Last
    <2>4. PICK b \in DOMAIN cctor : FilledAt(b, s)
      BY <1>1, <2>3 DEF Built, TableFilled
    <2>5. s \in Seq(FunctionIndices)
      BY <1>1, <2>3, SegmentFacts
    <2> PICK l, m : l = Len(cctor) /\ m = Len(s)
      OBVIOUS
    <2>6. /\ l \in Nat /\ m \in Nat /\ b \in Nat /\ b >= 1 /\ l = b + m + 1 /\ DOMAIN s = 1 .. m /\ DOMAIN cctor = 1 .. l
          /\ cctor[b] = <<"table", m + 1>> /\ \A j \in 1 .. m : cctor[b + j] = <<"slot", j, TableMethod(s[j])>>
      <3>1. l \in Nat /\ m \in Nat /\ DOMAIN s = 1 .. m /\ DOMAIN cctor = 1 .. l
        BY <2>2, <2>5
      <3>2. b \in Nat /\ b >= 1
        BY <3>1
      <3>3. /\ l = b + m + 1 /\ cctor[b] = <<"table", m + 1>>
            /\ \A j \in 1 .. m : cctor[b + j] = <<"slot", j, TableMethod(s[j])>>
        BY <2>4, <3>1 DEF FilledAt
      <3> QED
        BY <3>1, <3>2, <3>3
    <2>7. LastTable(l) = b
      <3>1. b \in TablesAt(l)
        BY <2>6 DEF TablesAt
      <3>2. ASSUME NEW q \in TablesAt(l)
            PROVE  q <= b /\ q \in Nat
        <4>1. q \in 1 .. l /\ cctor[q][1] = "table"
          BY DEF TablesAt
        <4>2. SUFFICES ASSUME q > b
                       PROVE  FALSE
          BY <2>6, <4>1
        <4>3. CASE q = l
          BY <2>2, <4>1, <4>3
        <4>4. CASE q # l
          <5>1. q - b \in 1 .. m /\ b + (q - b) = q
            BY <2>6, <4>1, <4>2, <4>4
          <5>2. cctor[q] = <<"slot", q - b, TableMethod(s[q - b])>>
            BY <2>6, <5>1
          <5> QED
            BY <4>1, <5>2
        <4> QED
          BY <4>3, <4>4
      <3>3. LastTable(l) \in TablesAt(l) /\ \A q \in TablesAt(l) : q <= LastTable(l)
        BY <2>6, <3>1, LastTableFacts
      <3> QED
        BY <3>1, <3>2, <3>3
    <2>8. ASSUME NEW j \in DOMAIN s
          PROVE  \E p \in DOMAIN cctor : Fills(p, j) /\ Does(cctor[p][3]) = Meant(s[j])
      <3>1. j \in 1 .. m /\ b + j \in DOMAIN cctor /\ b + j > b
        BY <2>6
      <3>2. cctor[b + j] = <<"slot", j, TableMethod(s[j])>>
        BY <2>6, <3>1
      <3>3. Fills(b + j, j) /\ cctor[b + j][3] = TableMethod(s[j])
        BY <2>7, <3>1, <3>2 DEF Fills
      <3>4. s[j] \in FunctionIndices
        BY <2>5
      <3>5. Problem(s[j]) = "none"
        BY <1>1, <2>3, <2>6 DEF Built, TableFilled
      <3>6. left = {}
        BY <1>1, <2>1 DEF Built, SectionsInOrder
      <3>7. TableMethod(s[j]) # Null
        BY <1>1, <2>1, <3>4, <3>5, <3>6, ProblemFacts
      <3>8. Does(TableMethod(s[j])) = Meant(s[j])
        BY <1>1, <2>1, <3>4, <3>7, MeantFacts
      <3> QED
        BY <3>1, <3>3, <3>8
    <2>9. cctor[LastTable(Len(cctor))] = <<"table", Len(s) + 1>>
      BY <2>6, <2>7
    <2> QED
      BY <2>8, <2>9
  <1>2. IInv => TableReachesFunction
    BY <1>1 DEF IInv, Refused, Refusals, TableReachesFunction
  <1> QED
    BY <1>2, Invariance, PTL

\* An import Wasi has no method for has one stub, and other imports none.
THEOREM OneStubForEach == Spec => []OneStubEach
  <1>1. ASSUME Built
        PROVE  OneStubEach
    <2> SUFFICES ASSUME stage \in {"element", "naming", "code", "written"}, NEW k \in DOMAIN wasm.imports
                 PROVE  Cardinality({p \in DOMAIN methods : methods[p].does = <<"throws", k>>}) =
                          (IF wasm.imports[k] \in WasiNames THEN 0 ELSE 1)
      BY DEF OneStubEach
    <2> DEFINE places == {p \in DOMAIN methods : methods[p].does = <<"throws", k>>}
    <2>1. left = {} /\ stage # "sections"
      BY <1>1 DEF Built, SectionsInOrder
    <2>2. k \in DOMAIN ImportFuncs /\ (k \in Missing <=> wasm.imports[k] \notin WasiNames)
      BY <1>1, <2>1, ReadFacts DEF Missing
    <2>3. ASSUME NEW p \in places
          PROVE  k \in Missing /\ methods[p] = Stub(k)
      <3>1. methods[p] \in Range(methods) /\ methods[p].does = <<"throws", k>>
        BY DEF Range
      <3>2. CASE \E l \in Missing : methods[p] = Stub(l)
        <4>1. PICK l \in Missing : methods[p] = Stub(l)
          BY <3>2
        <4>2. Stub(l).does = <<"throws", l>>
          BY <1>1, <2>1, StubFacts
        <4>3. l = k
          BY <3>1, <4>1, <4>2
        <4> QED
          BY <4>1, <4>3
      <3>3. CASE \E i \in 1 .. Translated : methods[p] \in Range(Bodies(i))
        <4>1. PICK i \in 1 .. Translated : methods[p] \in Range(Bodies(i))
          BY <3>3
        <4>2. stage \in {"code", "written"} /\ i \in 1 .. wasm.funcs
          BY <1>1, <2>1, MadeMethods
        <4> PICK n : n = PublicName(i + Len(wasm.imports))
          OBVIOUS
        <4>3. /\ Range(Bodies(i)) = {FuncMethod(i), CodeMethod(i)} /\ CodeMethod(i).does = <<"code", i>>
              /\ FuncMethod(i).does = (IF n \in WasiNames THEN <<"wasi", n>> ELSE <<"code", i>>)
          BY <1>1, <2>1, <4>2, BodiesFacts
        <4>4. methods[p].does[1] \in {"code", "wasi"}
          BY <4>1, <4>3
        <4> QED
          BY <3>1, <4>4
      <3> QED
        BY <1>1, <2>1, <3>1, <3>2, <3>3, MadeFacts
    <2>4. CASE k \in Missing
      <3>1. Stub(k) \in Range(methods) /\ Stub(k).does = <<"throws", k>>
        BY <1>1, <2>1, <2>4, MadeMethods, StubFacts
      <3>2. PICK p \in DOMAIN methods : methods[p] = Stub(k) /\ \A q \in DOMAIN methods : methods[q].id = Stub(k).id => q = p
        BY <1>1, <3>1, PlaceOf
      <3>3. places = {p}
        BY <2>3, <3>1, <3>2
      <3>4. Cardinality(places) = 1
        BY <3>3, FS_Singleton
      <3> QED
        BY <2>2, <2>4, <3>4
    <2>5. CASE k \notin Missing
      <3>1. places = {}
        BY <2>3, <2>5
      <3>2. Cardinality(places) = 0
        BY <3>1, FS_EmptySet
      <3> QED
        BY <2>2, <2>5, <3>2
    <2> QED
      BY <2>4, <2>5
  <1>2. IInv => OneStubEach
    BY <1>1 DEF IInv, Refused, Refusals, OneStubEach
  <1> QED
    BY <1>2, Invariance, PTL

\* The code of every function is in the class once, and an override finds it.
THEOREM NoCodeIsLost == Spec => []OriginalKept
  <1>1. ASSUME Built
        PROVE  OriginalKept
    <2> SUFFICES ASSUME stage = "written", NEW i \in 1 .. wasm.funcs
                 PROVE  LET homes == {p \in DOMAIN methods : methods[p].does = <<"code", i>>}
                            n == PublicName(i + Len(wasm.imports)) IN
                        /\ Cardinality(homes) = 1
                        /\ n \in WasiNames /\ PublicNames(n) = {i} =>
                             {p \in DOMAIN methods : methods[p].name = <<"pre", n>>} = homes
      BY DEF OriginalKept
    <2> DEFINE homes == {p \in DOMAIN methods : methods[p].does = <<"code", i>>}
               n == PublicName(i + Len(wasm.imports))
               overridden == {p \in DOMAIN methods : methods[p].name = <<"pre", n>>}
    <2>1. left = {} /\ stage \in {"code", "written"} /\ stage # "sections"
      BY <1>1 DEF Built, SectionsInOrder
    <2>2. \A j \in 1 .. wasm.funcs : Range(Bodies(j)) \subseteq Range(methods)
      BY <1>1, <2>1, MadeMethods
    <2>3. /\ Range(Bodies(i)) = {FuncMethod(i), CodeMethod(i)}
          /\ FuncMethod(i).id = <<"func", i>> /\ CodeMethod(i).does = <<"code", i>>
          /\ FuncMethod(i).does = (IF n \in WasiNames THEN <<"wasi", n>> ELSE <<"code", i>>)
          /\ CodeMethod(i).id = (IF n \in WasiNames THEN <<"pre", i>> ELSE <<"func", i>>)
          /\ CodeMethod(i).name = (IF n \in WasiNames THEN <<"pre", n>> ELSE FuncDecl[i].name)
      BY <1>1, <2>1, BodiesFacts
    <2>4. CodeMethod(i) \in Range(methods)
      BY <2>2, <2>3
    <2>5. PICK p \in DOMAIN methods :
            methods[p] = CodeMethod(i) /\ \A q \in DOMAIN methods : methods[q].id = CodeMethod(i).id => q = p
      BY <1>1, <2>4, PlaceOf
    <2>6. ASSUME NEW q \in DOMAIN methods
          PROVE  \/ \E k \in Missing : methods[q] = Stub(k)
                 \/ \E j \in 1 .. wasm.funcs : methods[q] = FuncMethod(j) \/ methods[q] = CodeMethod(j)
      <3>1. methods[q] \in Range(methods)
        BY DEF Range
      <3>2. CASE \E j \in 1 .. Translated : methods[q] \in Range(Bodies(j))
        <4>1. PICK j \in 1 .. Translated : methods[q] \in Range(Bodies(j))
          BY <3>2
        <4>2. j \in 1 .. wasm.funcs
          BY <1>1, <2>1, MadeMethods
        <4>3. Range(Bodies(j)) = {FuncMethod(j), CodeMethod(j)}
          BY <1>1, <2>1, <4>2, BodiesFacts
        <4> QED
          BY <4>1, <4>2, <4>3
      <3> QED
        BY <1>1, <2>1, <3>1, <3>2, MadeFacts
    <2>7. \A k \in Missing : Stub(k).does[1] = "throws" /\ Stub(k).name[1] = "named"
      <3> SUFFICES ASSUME NEW k \in Missing
                   PROVE  Stub(k).does[1] = "throws" /\ Stub(k).name[1] = "named"
        OBVIOUS
      <3>1. Stub(k).does = <<"throws", k>> /\ Stub(k).name = <<"named", wasm.imports[k]>>
        BY <1>1, <2>1, StubFacts
      <3> QED
        BY <3>1
    <2> HIDE DEF n
    <2>8. ASSUME NEW q \in homes
          PROVE  q = p
      <3>1. q \in DOMAIN methods /\ methods[q].does = <<"code", i>>
        OBVIOUS
      <3>2. PICK j \in 1 .. wasm.funcs : methods[q] = FuncMethod(j) \/ methods[q] = CodeMethod(j)
        BY <2>6, <2>7, <3>1
      <3> PICK name : name = PublicName(j + Len(wasm.imports))
        OBVIOUS
      <3>3. /\ CodeMethod(j).does = <<"code", j>>
            /\ FuncMethod(j).does = (IF name \in WasiNames THEN <<"wasi", name>> ELSE <<"code", j>>)
        BY <1>1, <2>1, BodiesFacts
      <3>4. j = i
        BY <3>1, <3>2, <3>3
      <3>5. methods[q].id = CodeMethod(i).id
        BY <2>3, <3>1, <3>2, <3>4
      <3> QED
        BY <2>5, <3>1, <3>5
    <2>9. homes = {p}
      BY <2>3, <2>5, <2>8
    <2>10. Cardinality(homes) = 1
      BY <2>9, FS_Singleton
    <2>11. ASSUME n \in WasiNames, PublicNames(n) = {i}
           PROVE  overridden = homes
      <3>1. p \in overridden
        BY <2>3, <2>5, <2>11
      <3>2. ASSUME NEW q \in overridden
            PROVE  q = p
        <4>1. q \in DOMAIN methods /\ methods[q].name = <<"pre", n>>
          OBVIOUS
        <4>2. PICK j \in 1 .. wasm.funcs : methods[q] = FuncMethod(j) \/ methods[q] = CodeMethod(j)
          BY <2>6, <2>7, <4>1
        <4> PICK name : name = PublicName(j + Len(wasm.imports))
          OBVIOUS
        <4>3. /\ CodeMethod(j).name = (IF name \in WasiNames THEN <<"pre", name>> ELSE FuncDecl[j].name)
              /\ FuncMethod(j).name = FuncDecl[j].name
              /\ CodeMethod(j).id = (IF name \in WasiNames THEN <<"pre", j>> ELSE <<"func", j>>)
          BY <1>1, <2>1, BodiesFacts
        <4>4. FuncDecl[j].name[1] # "pre"
          <5>1. FuncDecl[j].name = <<"Func", j>> \/ FuncDecl[j].name = <<"named", name>>
            BY <1>1, <2>1, OverriddenFacts
          <5> QED
            BY <5>1
        <4>5. methods[q] = CodeMethod(j) /\ name \in WasiNames /\ name = n
          BY <4>1, <4>2, <4>3, <4>4
        <4>6. j \in PublicNames(n)
          BY <4>5 DEF PublicNames
        <4>7. j = i
          BY <2>11, <4>6
        <4> QED
          BY <2>5, <4>1, <4>5, <4>7
      <3> QED
        BY <2>9, <3>1, <3>2
    <2> QED
      BY <2>10, <2>11 DEF n
  <1>2. IInv => OriginalKept
    BY <1>1 DEF IInv, Refused, Refusals, OriginalKept
  <1> QED
    BY <1>2, Invariance, PTL

===============================================================================

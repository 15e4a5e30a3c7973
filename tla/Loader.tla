-------------------------------- MODULE Loader --------------------------------
(* Transformer.Go: reading the sections of a module, in the order of the file, *)
(* then making stubs for what it imports, filling the function table and       *)
(* translating its functions into methods of the class "Code".                 *)
(*                                                                             *)
(* Of a function body only its calls matter here: every function calls every   *)
(* function.  Functions are numbered as in the module, imports first, but from *)
(* 1.  A method is named by how it came about: <<"wasi", n>> is the method n   *)
(* of Wasi, <<"stub", k>> the one that throws for the import k, <<"func", i>>  *)
(* that of the function i of the module and <<"pre", i>> the one its code went *)
(* to when a method of Wasi overrides it.                                      *)
EXTENDS Integers, Sequences, FiniteSets, SequencesExt

CONSTANTS WasiNames,   \* names of methods of Wasi
          OtherNames,  \* names Wasi has no method for
          MaxImports,  \* bound: imported functions
          MaxFuncs,    \* bound: functions of the module
          MaxElements, \* bound: functions in the segments
          MaxFlaws     \* bound: flaws of a module

Names == WasiNames \cup OtherNames
NoName == "none"
Null == <<"null", 0>>

ASSUME NamesAssumption == WasiNames \cap OtherNames = {} /\ NoName \notin Names
ASSUME BoundsAssumption == /\ MaxImports \in Nat /\ MaxFuncs \in Nat
                           /\ MaxElements \in Nat /\ MaxFlaws \in Nat

VARIABLES
  wasm,        \* the module
  left,        \* the kinds of its sections not read yet
  stage,       \* how far Go has come, or why it threw
  elementSeen, codeSeen, \* elementLoc and codeLoc are set
  filled,      \* segments put into the function table
  ImportFuncs, \* imported functions: name and Method
  FuncDecl,    \* functions of the module: ImportName and the name of Method
  ExportFunc,  \* the name of each exported function
  cctor,       \* instructions of the static constructor
  methods,     \* cls.Methods: method, name and what it does
  calls        \* emitted calls: which function was meant, which method is called

vars == <<wasm, left, stage, elementSeen, codeSeen, filled, ImportFuncs, FuncDecl, ExportFunc,
          cctor, methods, calls>>

-------------------------------------------------------------------------------
(* The modules that are read.  They are valid: indices are those of functions, *)
(* export names differ, and what has data has a memory.  The one table, if     *)
(* there is any, starts at 1, as LLVM makes it.  A function has seven          *)
(* parameters and no result.                                                   *)
(*                                                                             *)
(* A flaw is what WebAssembly allows and Go may throw for: an imported memory, *)
(* an initial value or an offset that is not one constant, an eighth parameter *)
(* or a result, an instruction whose case in ReadCodeSection throws.           *)

Order == <<"import", "function", "memory", "global", "export", "element", "code", "data", "name">>

Type(params, results) == [params |-> params, results |-> results]
Widened(k, by) == IF <<by, k>> \in wasm.flaws THEN 1 ELSE 0
TypeOf(k) == Type(7 + Widened(k, "parameter"), Widened(k, "result"))

Total(segments) == FoldSeq(LAMBDA s, n : n + Len(s), 0, segments)
Segments(indices) ==
  {ss \in SeqOf(SeqOf(indices, MaxElements), 2) : Total(ss) <= MaxElements}

Exports(indices) ==
  {es \in SeqOf(Names \X indices, 2) : \A x, y \in DOMAIN es : es[x][1] = es[y][1] => x = y}

\* data stands for a memory with a segment, and a global.
Flaws(indices, n, ss, data) ==
  LET parts == (({"memory"} \X {1}) \cup ({"initializer", "dataOffset"} \X (1 .. data))
                \cup ({"elementOffset"} \X DOMAIN ss) \cup ({"instruction"} \X (1 .. n))
                \cup ({"parameter", "result"} \X indices)) IN
  {F \in SUBSET parts : Cardinality(F) <= MaxFlaws}
Flawed(m, kind) == \E f \in m.flaws : f[1] = kind

ModulesWith(is, n, ss, data) ==
  LET indices == 1 .. Len(is) + n IN
  [imports : {is}, funcs : {n}, segments : {ss}, exports : Exports(indices),
   debug : [1 .. n -> Names \cup {NoName}], data : {data}, flaws : Flaws(indices, n, ss, data)]

Has(m, kind) ==
  CASE kind = "import" -> m.imports # <<>> \/ Flawed(m, "memory")
    [] kind \in {"function", "code", "name"} -> m.funcs > 0
    [] kind = "export" -> m.exports # <<>>
    [] kind = "element" -> m.segments # <<>>
    [] kind = "memory" -> m.data > 0 /\ ~Flawed(m, "memory")
    [] kind \in {"global", "data"} -> m.data > 0

\* Init: the constructor is there before the first section is read.
Init ==
  /\ \E is \in SeqOf(Names, MaxImports), n \in 0 .. MaxFuncs, data \in 0 .. 1 :
       \E ss \in Segments(1 .. Len(is) + n) : wasm \in ModulesWith(is, n, ss, data)
  /\ left = {kind \in Range(Order) : Has(wasm, kind)}
  /\ stage = "sections" /\ elementSeen = FALSE /\ codeSeen = FALSE /\ filled = 0
  /\ ImportFuncs = <<>> /\ FuncDecl = <<>> /\ ExportFunc = [k \in {} |-> NoName]
  /\ cctor = <<<<"nop">>, <<"ret">>>>
  /\ methods = <<>> /\ calls = {}

-------------------------------------------------------------------------------
(* The sections. *)

\* Every section that adds to the constructor takes the Ret off first.
EmitAfterRet(code) == cctor \o code \o <<<<"ret">>>>
Emit(code) == Front(cctor) \o code \o <<<<"ret">>>>

\* The next section is of this kind, and can be read.
NextSection(kind) ==
  /\ stage = "sections" /\ kind \in left
  /\ \E x \in DOMAIN Order : Order[x] = kind /\ \A y \in 1 .. x - 1 : Order[y] \notin left
Section(kind) == NextSection(kind) /\ left' = left \ {kind}

\* An exception ends Go.  What it has made until then is not looked at again.
Refuse(reason) ==
  /\ stage' = reason
  /\ UNCHANGED <<wasm, left, elementSeen, codeSeen, filled, ImportFuncs, FuncDecl, ExportFunc, cctor,
                 methods, calls>>
RefuseSection(kind, reason) == NextSection(kind) /\ Flawed(wasm, reason) /\ Refuse(reason)
Accept(kind, reason) == Section(kind) /\ ~Flawed(wasm, reason) /\ stage' = stage

\* The limits of an imported memory are taken for the type of a table.
ReadImportSection ==
  \/ RefuseSection("import", "memory")
  \/ /\ Accept("import", "memory")
     /\ ImportFuncs' = [k \in DOMAIN wasm.imports |-> [name |-> wasm.imports[k], method |-> Null]]
     /\ UNCHANGED <<wasm, elementSeen, codeSeen, filled, FuncDecl, ExportFunc, cctor, methods, calls>>

ReadFunctionSection ==
  /\ Section("function")
  /\ FuncDecl' = [i \in 1 .. wasm.funcs |-> [importName |-> NoName, name |-> <<"func", i>>]]
  /\ UNCHANGED <<wasm, stage, elementSeen, codeSeen, filled, ImportFuncs, ExportFunc, cctor, methods, calls>>

ReadMemorySection ==
  /\ Section("memory")
  /\ cctor' = Emit(<<<<"memory">>>>)
  /\ UNCHANGED <<wasm, stage, elementSeen, codeSeen, filled, ImportFuncs, FuncDecl, ExportFunc, methods, calls>>

\* An initial value is one of the four constants, and END.
ReadGlobalSection ==
  \/ RefuseSection("global", "initializer")
  \/ /\ Accept("global", "initializer")
     /\ cctor' = Emit(<<<<"global">>>>)
     /\ UNCHANGED <<wasm, elementSeen, codeSeen, filled, ImportFuncs, FuncDecl, ExportFunc, methods, calls>>

\* A function exported twice keeps the first name.
ReadExportSection ==
  /\ Section("export")
  /\ ExportFunc' = [k \in {e[2] : e \in Range(wasm.exports)} |->
                      wasm.exports[SelectInSeq(wasm.exports, LAMBDA e : e[2] = k)][1]]
  /\ UNCHANGED <<wasm, stage, elementSeen, codeSeen, filled, ImportFuncs, FuncDecl, cctor, methods, calls>>

\* The two sections that are only remembered: they need what comes later.
ReadElementLater ==
  /\ Section("element")
  /\ elementSeen' = TRUE
  /\ UNCHANGED <<wasm, stage, codeSeen, filled, ImportFuncs, FuncDecl, ExportFunc, cctor, methods, calls>>

ReadCodeLater ==
  /\ Section("code")
  /\ codeSeen' = TRUE
  /\ UNCHANGED <<wasm, stage, elementSeen, filled, ImportFuncs, FuncDecl, ExportFunc, cctor, methods, calls>>

\* An offset is constants up to END: GLOBAL_GET and all others throw.
ReadDataSection ==
  \/ RefuseSection("data", "dataOffset")
  \/ /\ Accept("data", "dataOffset")
     /\ cctor' = Emit(<<<<"store">>>>)
     /\ UNCHANGED <<wasm, elementSeen, codeSeen, filled, ImportFuncs, FuncDecl, ExportFunc, methods, calls>>

\* The name section.  The name of an import goes to a copy of its ImportFunc.
ReadCustomSection ==
  /\ Section("name")
  /\ FuncDecl' = [i \in DOMAIN FuncDecl |-> [FuncDecl[i] EXCEPT !.importName = wasm.debug[i]]]
  /\ UNCHANGED <<wasm, stage, elementSeen, codeSeen, filled, ImportFuncs, ExportFunc, cctor, methods, calls>>

-------------------------------------------------------------------------------
(* After the sections. *)

Method(id, name, does) == [id |-> id, name |-> name, does |-> does]
Stub(k) == Method(<<"stub", k>>, <<"named", ImportFuncs[k].name>>, <<"throws", k>>)

\* Go: a stub for each import that Wasi has no method for.
AddStubs ==
  /\ stage = "sections" /\ left = {}
  /\ stage' = "element"
  /\ LET missing == {k \in DOMAIN ImportFuncs : ImportFuncs[k].name \notin WasiNames} IN
       /\ methods' = methods \o SetToSeq({Stub(k) : k \in missing})
       /\ ImportFuncs' = [k \in DOMAIN ImportFuncs |->
                            IF k \in missing THEN [ImportFuncs[k] EXCEPT !.method = <<"stub", k>>]
                                             ELSE ImportFuncs[k]]
  /\ UNCHANGED <<wasm, left, elementSeen, codeSeen, filled, FuncDecl, ExportFunc, cctor, calls>>

\* What Ldftn loads for the function k.
TableMethod(k) == IF k <= Len(ImportFuncs) THEN ImportFuncs[k].method
                                           ELSE <<"func", k - Len(ImportFuncs)>>

\* typeToFunc: the delegate types there are.
typeToFuncUpToSeven(t) == t.params <= 7
typeToFunc(t) == t.params = 0 \/ (t.results = 0 /\ t.params <= 7) \/ (t.results > 0 /\ t.params <= 6)

\* Why an element cannot be put in the table, if it cannot.
Problem(k) ==
  CASE TableMethod(k) = Null -> "importInTable"
    [] TableMethod(k) # Null /\ ~typeToFunc(TypeOf(k)) -> "noDelegate"
    [] OTHER -> "none"

\* A segment makes a new table, one longer than it, and fills it from 1 on.
FillFromZero(s) == <<<<"table", Len(s) + 1>>>> \o [j \in DOMAIN s |-> <<"slot", j - 1, TableMethod(s[j])>>]
Fill(s) == <<<<"table", Len(s) + 1>>>> \o [j \in DOMAIN s |-> <<"slot", j, TableMethod(s[j])>>]

\* ReadElementSection, a segment at a time: its offset is asserted to be an
\* I32_CONST, and left out.  Without the section it starts at the beginning of
\* the file, whose first byte, 0, says that there are no segments.
ElementSegments == IF elementSeen THEN wasm.segments ELSE <<>>
ReadElementSection ==
  LET s == ElementSegments[filled + 1]
      problem == SelectInSeq(s, LAMBDA k : Problem(k) # "none") IN
  \/ /\ stage = "element" /\ filled < Len(ElementSegments)
     /\ <<"elementOffset", filled + 1>> \in wasm.flaws
     /\ Refuse("elementOffset")
  \/ /\ stage = "element" /\ filled < Len(ElementSegments)
     /\ <<"elementOffset", filled + 1>> \notin wasm.flaws /\ problem # 0
     /\ Refuse(Problem(s[problem]))
  \/ /\ stage = "element" /\ filled < Len(ElementSegments)
     /\ <<"elementOffset", filled + 1>> \notin wasm.flaws /\ problem = 0
     /\ cctor' = Emit(Fill(s)) /\ filled' = filled + 1
     /\ UNCHANGED <<wasm, stage, left, elementSeen, codeSeen, ImportFuncs, FuncDecl, ExportFunc, methods, calls>>
  \/ /\ stage = "element" /\ filled = Len(ElementSegments)
     /\ stage' = "naming"
     /\ UNCHANGED <<wasm, left, elementSeen, codeSeen, filled, ImportFuncs, FuncDecl, ExportFunc, cctor,
                    methods, calls>>

-------------------------------------------------------------------------------
(* ReadCodeSection. *)

FuncCount == IF codeSeen THEN wasm.funcs ELSE 0

\* The name of the function i: the one it is exported by, the one of the name
\* section, or one made from its number.
NameAs(i, k) ==
  CASE k \in DOMAIN ExportFunc -> <<"named", ExportFunc[k]>>
    [] k \notin DOMAIN ExportFunc /\ FuncDecl[i].importName # NoName -> <<"named", FuncDecl[i].importName>>
    [] OTHER -> <<"Func", i>>
NameWithoutImports(i) == NameAs(i, i)
NameUnchecked(i) ==
  LET k == i + Len(ImportFuncs) IN
  <<"named", IF k \in DOMAIN ExportFunc THEN ExportFunc[k] ELSE FuncDecl[i].importName>>
NameOf(i) == NameAs(i, i + Len(ImportFuncs))

NameMethods ==
  /\ stage = "naming"
  /\ stage' = "code"
  /\ FuncDecl' = [i \in DOMAIN FuncDecl |-> [FuncDecl[i] EXCEPT !.name = NameOf(i)]]
  /\ UNCHANGED <<wasm, left, elementSeen, codeSeen, filled, ImportFuncs, ExportFunc, cctor, methods, calls>>

\* resolveMethod of an import works on a copy of its ImportFunc: what it finds or
\* makes is not kept for the next call.
resolveMethod(k) ==
  IF k > Len(ImportFuncs) THEN <<"func", k - Len(ImportFuncs)>>
  ELSE IF ImportFuncs[k].method # Null THEN ImportFuncs[k].method
  ELSE IF ImportFuncs[k].name \in WasiNames THEN <<"wasi", ImportFuncs[k].name>>
  ELSE <<"stub", k>>
StubsMadeAgain == {k \in DOMAIN ImportFuncs : ImportFuncs[k].name \notin WasiNames}
StubsMade == {k \in DOMAIN ImportFuncs : ImportFuncs[k].method = Null
                                         /\ ImportFuncs[k].name \notin WasiNames}

Indices == 1 .. Len(ImportFuncs) + Len(FuncDecl)

\* The code of the function i goes to its method, or, when Wasi has a method of
\* that name, to a new method "_pre", and its method calls that of Wasi.
Overridden(i) == FuncDecl[i].name[1] = "named" /\ FuncDecl[i].name[2] \in WasiNames
BodiesNoSwap(i) ==
  LET name == FuncDecl[i].name IN
  IF Overridden(i)
  THEN <<Method(<<"func", i>>, name, <<"code", i>>),
         Method(<<"pre", i>>, <<"pre", name[2]>>, <<"wasi", name[2]>>)>>
  ELSE <<Method(<<"func", i>>, name, <<"code", i>>)>>
Bodies(i) ==
  LET name == FuncDecl[i].name IN
  IF Overridden(i)
  THEN <<Method(<<"func", i>>, name, <<"wasi", name[2]>>),
         Method(<<"pre", i>>, <<"pre", name[2]>>, <<"code", i>>)>>
  ELSE <<Method(<<"func", i>>, name, <<"code", i>>)>>

Translated == Cardinality({m \in Range(methods) : m.does[1] = "code"})

\* The parameters and the result of an overriding method may not fit.  A
\* function may call indirectly, with any type of the module, and the case of
\* one of its instructions may throw.
TranslateFunction ==
  LET i == Translated + 1 IN
  /\ stage = "code" /\ i <= FuncCount
  /\ \/ Overridden(i) /\ Refuse("unmatched")
     \/ (\E k \in Indices : ~typeToFunc(TypeOf(k))) /\ Refuse("noDelegate")
     \/ <<"instruction", i>> \in wasm.flaws /\ Refuse("instruction")
     \/ /\ <<"instruction", i>> \notin wasm.flaws
        /\ methods' = methods \o Bodies(i) \o SetToSeq({Stub(k) : k \in StubsMade})
        /\ calls' = calls \cup {<<k, resolveMethod(k)>> : k \in Indices}
        /\ UNCHANGED <<wasm, stage, left, elementSeen, codeSeen, filled, ImportFuncs, FuncDecl, ExportFunc, cctor>>

Write ==
  /\ stage = "code" /\ Translated = FuncCount
  /\ stage' = "written"
  /\ UNCHANGED <<wasm, left, elementSeen, codeSeen, filled, ImportFuncs, FuncDecl, ExportFunc, cctor, methods, calls>>

Refusals == {"memory", "initializer", "elementOffset", "dataOffset", "instruction",
             "importInTable", "noDelegate", "unmatched"}
Ended == stage \in {"written"} \cup Refusals /\ UNCHANGED vars

Next ==
  \/ ReadImportSection \/ ReadFunctionSection \/ ReadMemorySection \/ ReadGlobalSection
  \/ ReadExportSection \/ ReadElementLater \/ ReadCodeLater \/ ReadDataSection \/ ReadCustomSection
  \/ AddStubs \/ ReadElementSection \/ NameMethods \/ TranslateFunction \/ Write \/ Ended

Spec == Init /\ [][Next]_vars
-------------------------------------------------------------------------------
(* Properties. *)

MethodIds == ({"func", "pre", "stub"} \X Nat) \cup ({"wasi"} \X WasiNames)
Behaviours == ({"code", "throws"} \X Nat) \cup ({"wasi"} \X WasiNames)
MethodNames == ({"named", "pre"} \X Names) \cup ({"Func", "func"} \X Nat)
Stages == {"sections", "element", "naming", "code", "written"} \cup Refusals

\* Types of the variables: what was read is as long as the module says.
TypeOK ==
  /\ stage \in Stages /\ elementSeen \in BOOLEAN /\ codeSeen \in BOOLEAN
  /\ left \subseteq Range(Order) /\ filled \in 0 .. Len(wasm.segments)
  /\ ImportFuncs \in Seq([name : Names, method : MethodIds \cup {Null}])
  /\ FuncDecl \in Seq([importName : Names \cup {NoName}, name : MethodNames])
  /\ Len(ImportFuncs) <= Len(wasm.imports) /\ Len(FuncDecl) <= wasm.funcs
  /\ DOMAIN ExportFunc \subseteq Nat /\ Range(ExportFunc) \subseteq Names
  /\ methods \in Seq([id : MethodIds, name : MethodNames, does : Behaviours])
  /\ calls \subseteq Nat \X MethodIds

\* The static constructor can always run: its only Ret is at its end, no data is
\* stored before there is a memory, and no slot filled that its table lacks.
TablesAt(p) == {q \in 1 .. p : cctor[q][1] = "table"}
LastTable(p) == CHOOSE q \in TablesAt(p) : \A r \in TablesAt(p) : r <= q
ConstructorRuns ==
  \A p \in DOMAIN cctor :
    CASE cctor[p][1] = "ret" -> p = Len(cctor)
      [] cctor[p][1] = "store" -> \E q \in 1 .. p - 1 : cctor[q][1] = "memory"
      [] cctor[p][1] = "slot" -> TablesAt(p) # {} /\ cctor[p][2] \in 0 .. cctor[LastTable(p)][2] - 1
      [] OTHER -> p < Len(cctor)

\* What running a method comes to, and what calling a function should come to:
\* the method of Wasi if the function goes by the name of one, "Not Implemented"
\* for another import, and its own code for another function of the module.
Does(m) == IF m[1] = "wasi" THEN m ELSE (CHOOSE c \in Range(methods) : c.id = m).does

PublicName(k) ==
  LET exported == {x \in DOMAIN wasm.exports : wasm.exports[x][2] = k} IN
  CASE k <= Len(wasm.imports) -> wasm.imports[k]
    [] k > Len(wasm.imports) /\ exported # {} ->
         wasm.exports[CHOOSE x \in exported : \A y \in exported : x <= y][1]
    [] OTHER -> wasm.debug[k - Len(wasm.imports)]
Meant(k) == CASE PublicName(k) \in WasiNames -> <<"wasi", PublicName(k)>>
              [] PublicName(k) \notin WasiNames /\ k <= Len(wasm.imports) -> <<"throws", k>>
              [] OTHER -> <<"code", k - Len(wasm.imports)>>

\* Every call in the translated code reaches the function it names, overrides
\* included, whether it was translated before or after the caller.
CallsReachFunction == stage = "written" => \A c \in calls : Does(c[2]) = Meant(c[1])

\* A call through the function table reaches the same: after the constructor
\* has run, slot j holds the j-th function of the last segment.
Fills(p, j) == p > LastTable(Len(cctor)) /\ cctor[p][1] = "slot" /\ cctor[p][2] = j
TableReachesFunction ==
  stage = "written" /\ wasm.segments # <<>> =>
    LET s == Last(wasm.segments) IN
    /\ cctor[LastTable(Len(cctor))] = <<"table", Len(s) + 1>>
    /\ \A j \in DOMAIN s : \E p \in DOMAIN cctor : Fills(p, j) /\ Does(cctor[p][3]) = Meant(s[j])

\* The code of every function is in the class exactly once.  If Wasi overrides
\* it and no other function goes by that name, the overriding method finds it:
\* it is the only method "_pre" of that name.
PublicNames(n) == {k \in 1 .. wasm.funcs : PublicName(k + Len(wasm.imports)) = n}
OriginalKept ==
  stage = "written" =>
    \A i \in 1 .. wasm.funcs :
      LET homes == {p \in DOMAIN methods : methods[p].does = <<"code", i>>}
          n == PublicName(i + Len(wasm.imports)) IN
      /\ Cardinality(homes) = 1
      /\ n \in WasiNames /\ PublicNames(n) = {i} =>
           {p \in DOMAIN methods : methods[p].name = <<"pre", n>>} = homes

\* However often it is called, an import that Wasi has no method for has one
\* stub from AddStubs on, and other imports none.
OneStubEach ==
  stage \in {"element", "naming", "code", "written"} =>
    \A k \in DOMAIN wasm.imports :
      Cardinality({p \in DOMAIN methods : methods[p].does = <<"throws", k>>}) =
        (IF wasm.imports[k] \in WasiNames THEN 0 ELSE 1)

\* A module is refused only for a flaw, named by the stage, or if a method of
\* Wasi it imports is in its table or overrides one of its functions, or if a
\* function in the table or called indirectly has a type without a delegate; and
\* none is accepted with a flaw of those that always throw, or with a slot that
\* the translated code could not call.
Wide(k) == <<"parameter", k>> \in wasm.flaws \/ <<"result", k>> \in wasm.flaws
AlwaysThrow == {"memory", "initializer", "elementOffset", "dataOffset", "instruction"}
RefusedOnlyNamed ==
  /\ stage \in AlwaysThrow => Flawed(wasm, stage)
  /\ stage = "importInTable" =>
       \E s \in Range(wasm.segments) : \E k \in Range(s) :
          k <= Len(wasm.imports) /\ wasm.imports[k] \in WasiNames
  /\ stage = "noDelegate" =>
       \E k \in 1 .. Len(wasm.imports) + wasm.funcs :
          /\ Wide(k)
          /\ wasm.funcs > 0 \/ \E s \in Range(wasm.segments) : k \in Range(s)
  /\ stage = "unmatched" =>
       \E i \in 1 .. wasm.funcs : PublicName(i + Len(wasm.imports)) \in WasiNames
  /\ stage = "written" =>
       /\ \A kind \in AlwaysThrow : ~Flawed(wasm, kind)
       /\ \A s \in Range(wasm.segments) : \A k \in Range(s) : ~Wide(k)
===============================================================================

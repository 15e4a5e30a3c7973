------------------------------- MODULE Lowering -------------------------------
(* The code ReadCodeSection emits for one WebAssembly instruction, run by the  *)
(* CLI on every operand, beside what the instruction means.  The method runs   *)
(* with something below the operands on the stack and anything in its scratch  *)
(* variables (getVariable); it has a parameter and a local of each type.       *)
(*                                                                             *)
(* An instruction is its type and its name.  Instructions whose only IL        *)
(* instruction has the same meaning (ADD, AND, CLZ, ...) are left out.         *)
EXTENDS IL, SequencesExt

CONSTANTS Instrs,       \* the instructions to be run
          Signatures,   \* parameter types of functions called indirectly
          Table,        \* indices at which the table has a function of the type
          MakingOrders  \* orders in which the scratch variables may have been made

IntInstrs == {"DIV_S", "REM_S", "SHL", "SHR_S", "SHR_U", "GE_S", "GE_U", "LE_S", "LE_U"}
FloatInstrs == {"GE", "LE", "ABS", "COPYSIGN"}
Supported ==
  {<<t, n>> : t \in IntTypes, n \in IntInstrs \cup {"EQZ"}}
    \cup {<<t, n>> : t \in FloatTypes, n \in FloatInstrs}
    \cup {<<t, n>> : t \in Types, n \in {"NE", "SELECT", "LOCAL_GET", "LOCAL_SET", "LOCAL_TEE"}}
    \cup {<<t, n>> : t \in FloatTypes, n \in {"CONVERT_I32_S", "CONVERT_I32_U", "CONVERT_I64_S", "CONVERT_I64_U"}}
    \cup {<<"i64", "EXTEND_I32_S">>, <<"i64", "EXTEND_I32_U">>, <<"i32", "WRAP_I64">>,
          <<"i32", "TRUNC_F32_S">>, <<"i32", "TRUNC_F32_U">>,
          <<"i32", "TRUNC_F64_S">>, <<"i32", "TRUNC_F64_U">>,
          <<"i64", "TRUNC_F64_S">>, <<"i64", "TRUNC_F64_U">>,
          <<"i32", "CALL_INDIRECT">>}

ASSUME InstrsAssumption == Instrs \subseteq Supported
ASSUME SignaturesAssumption == Signatures \subseteq Seq(Types)
ASSUME TableAssumption == Table \subseteq Nat
\* A scratch variable has a type and a number, and is made once.
ASSUME OrdersAssumption ==
  \A order \in MakingOrders :
    /\ order \in Seq(Types \X Nat)
    /\ \A j, k \in DOMAIN order : order[j] = order[k] => j = k

VARIABLES instr,    \* the instruction
          sig,      \* the parameters of an indirect call
          index,    \* the local of LOCAL_GET, LOCAL_SET and LOCAL_TEE
          helpers,  \* the scratch variables, in the order they were made
          operands, \* the operands, the top last
          m         \* the method

vars == <<instr, sig, index, helpers, operands, m>>

Type == instr[1]
Name == instr[2]
Zero == IF Type \in IntTypes THEN IntOf(Type, 0) ELSE Float(Type, FALSE, 0)
I32Zero == IntOf("i32", 0)

-------------------------------------------------------------------------------
(* ReadCodeSection: the cases of the switch. *)

\* One IL instruction each.
DirectOf == [DIV_S |-> "div", REM_S |-> "rem", SHL |-> "shl", SHR_S |-> "shr", SHR_U |-> "shr.un"]

\* Body.Variables: the locals, heapaddr, and what getVariable added, one variable
\* for each index and type.  It made those that the instruction asks for, and others.
Orders == {"GE", "GE_S", "GE_U", "LE", "LE_S", "LE_U"}
ParamTypes == <<"f64", "f32", "i64", "i32">>
LocalTypes == <<"i32", "i64", "f32", "f64">>
Place(key) == CHOOSE k \in DOMAIN helpers : helpers[k] = key
Variables == LocalTypes \o <<"i32">> \o [k \in DOMAIN helpers |-> helpers[k][1]]
getVariableOfType(t, i) == Len(LocalTypes) + Place(<<t, 0>>)
getVariable(t, i) == Len(LocalTypes) + Place(<<t, i>>)
Asked == CASE Name \in Orders \cup {"COPYSIGN"} -> {<<Type, 0>>, <<Type, 1>>}
           [] Name = "SELECT" -> {<<Type, 0>>}
           [] Name = "CALL_INDIRECT" -> {<<"i32", 0>>} \cup {<<sig[k], k>> : k \in DOMAIN sig}
           [] OTHER -> {}

\* GE and LE are "equal, or greater" and "equal, or less".
cmp == CASE Name \in {"LE", "LE_S"} -> "clt"  [] Name = "LE_U" -> "clt.un"
         [] Name \in {"GE", "GE_S"} -> "cgt"  [] Name = "GE_U" -> "cgt.un"
EmitOrder ==
  LET v == getVariable(Type, 0)  v2 == getVariable(Type, 1) IN
  <<<<"stloc", v>>, <<"stloc", v2>>, <<"ldloc", v2>>, <<"ldloc", v>>, <<"ceq", 0>>,
    <<"ldloc", v2>>, <<"ldloc", v>>, <<cmp, 0>>, <<"or", 0>>>>

EmitNE == <<<<"ceq", 0>>, <<"ldc", I32Zero>>, <<"ceq", 0>>>>
EmitEQZ == <<<<"ldc", Zero>>, <<"ceq", 0>>>>
EmitABS == <<<<"dup", 0>>, <<"ldc", Zero>>, <<"clt", 0>>, <<"brfalse", 6>>, <<"neg", 0>>, <<"nop", 0>>>>

EmitCOPYSIGN ==
  LET v == getVariable(Type, 0)  v1 == getVariable(Type, 1) IN
  <<<<"stloc", v>>, <<"stloc", v1>>, <<"ldloc", v>>, <<"ldloc", v1>>, <<"ldloc", v>>, <<"mul", 0>>,
    <<"ldc", Zero>>, <<"clt", 0>>, <<"brfalse", 11>>, <<"neg", 0>>, <<"nop", 0>>>>

EmitSELECTKeepingBoth == <<<<"brfalse", 4>>, <<"pop", 0>>, <<"br", 6>>, <<"stloc", getVariable(Type, 0)>>,
                           <<"ldloc", getVariable(Type, 0)>>, <<"nop", 0>>>>
EmitSELECT ==
  LET v == getVariable(Type, 0) IN
  <<<<"brfalse", 4>>, <<"pop", 0>>, <<"br", 7>>, <<"stloc", v>>, <<"pop", 0>>, <<"ldloc", v>>, <<"nop", 0>>>>

\* Locals are numbered after the parameters, and are the first variables.
LocalAccesses == {"LOCAL_GET", "LOCAL_SET", "LOCAL_TEE"}
isArg == index < Len(ParamTypes)
local_index == IF isArg THEN index ELSE index - Len(ParamTypes)
EmitGet == <<<<IF isArg THEN "ldarg" ELSE "ldloc", local_index>>>>
EmitSet == <<<<IF isArg THEN "starg" ELSE "stloc", local_index>>>>
EmitTEE == <<<<"dup", 0>>>> \o EmitSet

\* The index and the parameters leave the stack, from the last to the first.
Parameter(k) == getVariable(sig[k], k)
EmitInSourceOrder ==
  <<<<"stloc", getVariable("i32", 0)>>>> \o [j \in DOMAIN sig |-> <<"stloc", Parameter(j)>>]
  \o <<<<"ldloc", getVariable("i32", 0)>>, <<"ldelem", Table>>>>
  \o [j \in DOMAIN sig |-> <<"ldloc", Parameter(j)>>] \o <<<<"callvirt", Len(sig)>>>>
EmitCALL_INDIRECT ==
  <<<<"stloc", getVariable("i32", 0)>>>>
  \o [j \in DOMAIN sig |-> <<"stloc", Parameter(Len(sig) - j + 1)>>]
  \o <<<<"ldloc", getVariable("i32", 0)>>, <<"ldelem", Table>>>>
  \o [j \in DOMAIN sig |-> <<"ldloc", Parameter(j)>>]
  \o <<<<"callvirt", Len(sig)>>>>

\* Conversions; Type is that of the result.
Conversions == {"EXTEND_I32_S", "EXTEND_I32_U", "WRAP_I64",
                "TRUNC_F32_S", "TRUNC_F32_U", "TRUNC_F64_S", "TRUNC_F64_U",
                "CONVERT_I32_S", "CONVERT_I32_U", "CONVERT_I64_S", "CONVERT_I64_U"}
ToType == CASE Type = "i32" -> "conv.i4" [] Type = "i64" -> "conv.i8"
            [] Type = "f32" -> "conv.r4" [] Type = "f64" -> "conv.r8"
ToUnsignedType == IF Type = "i32" THEN "conv.u4" ELSE "conv.u8"
EmitConversion ==
  CASE Name = "EXTEND_I32_U" -> <<<<"conv.u4", 0>>, <<"conv.i8", 0>>>>
    [] Name = "TRUNC_F64_U" -> <<<<ToUnsignedType, 0>>, <<ToType, 0>>>>
    [] Name \in {"CONVERT_I32_U", "CONVERT_I64_U"} -> <<<<"conv.u8", 0>>, <<ToType, 0>>>>
    [] OTHER -> <<<<ToType, 0>>>>

Code ==
  CASE Name \in DOMAIN DirectOf -> <<<<DirectOf[Name], 0>>>>
    [] Name \in Orders -> EmitOrder
    [] Name = "NE" -> EmitNE              [] Name = "EQZ" -> EmitEQZ
    [] Name = "ABS" -> EmitABS            [] Name = "COPYSIGN" -> EmitCOPYSIGN
    [] Name = "SELECT" -> EmitSELECT      [] Name = "LOCAL_GET" -> EmitGet
    [] Name = "LOCAL_SET" -> EmitSet      [] Name = "LOCAL_TEE" -> EmitTEE
    [] Name = "CALL_INDIRECT" -> EmitCALL_INDIRECT
    [] Name \in Conversions -> EmitConversion

-------------------------------------------------------------------------------
(* WebAssembly: the types of the operands and what the instruction means. *)

Source == CASE Name \in {"EXTEND_I32_S", "EXTEND_I32_U", "CONVERT_I32_S", "CONVERT_I32_U"} -> "i32"
            [] Name \in {"WRAP_I64", "CONVERT_I64_S", "CONVERT_I64_U"} -> "i64"
            [] Name \in {"TRUNC_F32_S", "TRUNC_F32_U"} -> "f32"
            [] Name \in {"TRUNC_F64_S", "TRUNC_F64_U"} -> "f64"
OperandTypes ==
  CASE Name \in Conversions -> <<Source>>
    [] Name \in {"ABS", "EQZ", "LOCAL_SET", "LOCAL_TEE"} -> <<Type>>
    [] Name = "LOCAL_GET" -> <<>>
    [] Name = "SELECT" -> <<Type, Type, "i32">>
    [] Name = "CALL_INDIRECT" -> Append(sig, "i32")
    [] OTHER -> <<Type, Type>>

OfType == {n \in 0 .. Len(ParamTypes) + Len(LocalTypes) - 1 : (ParamTypes \o LocalTypes)[n + 1] = Type}
Operands == {s \in [DOMAIN OperandTypes -> UNION {Values(OperandTypes[i]) : i \in DOMAIN OperandTypes}] :
               \A i \in DOMAIN s : s[i].type = OperandTypes[i]}

a == operands[1]
b == operands[2]

AtLeast == CASE Name \in {"GE", "GE_S"} -> Number(a) >= Number(b)
             [] Name \in {"LE", "LE_S"} -> Number(a) <= Number(b)
             [] Name = "GE_U" -> U(a) >= U(b)
             [] Name = "LE_U" -> U(a) <= U(b)
Count == U(b) % Bits(Type)
TruncRange == IF Name \in {"TRUNC_F32_S", "TRUNC_F64_S"} THEN Least(Type) .. -Least(Type) - 1
              ELSE 0 .. 2 * Half(Type) - 1

\* WebAssembly traps.
Traps ==
  CASE Name = "DIV_S" -> ~Divides(a, b)
    [] Name = "REM_S" -> b.value = 0
    [] Name \in {"TRUNC_F32_S", "TRUNC_F32_U", "TRUNC_F64_S", "TRUNC_F64_U"} -> ~Finite(a) \/ Whole(a) \notin TruncRange
    [] Name = "CALL_INDIRECT" -> operands[Len(operands)].value \notin Table
    [] OTHER -> FALSE

\* The parameters and locals of the program, before and now.
Sample(t, n) == IF t \in IntTypes THEN IntOf(t, n) ELSE FloatOf(t, n)
LocalsAtFirst == [n \in 0 .. Len(ParamTypes) + Len(LocalTypes) - 1 |->
  IF n < Len(ParamTypes) THEN Sample(ParamTypes[n + 1], 1) ELSE Sample(LocalTypes[n - Len(ParamTypes) + 1], -1)]
LocalsNow == [n \in DOMAIN LocalsAtFirst |->
  IF n < Len(ParamTypes) THEN m.args[n] ELSE m.vars[n - Len(ParamTypes)]]

\* The values an instruction that does not trap leaves on the stack.
Meaning ==
  CASE Name = "DIV_S" -> <<IntOf(Type, Quotient(a.value, b.value))>>
    [] Name = "REM_S" -> <<IntOf(Type, Remainder(a.value, b.value))>>
    [] Name = "SHL" -> <<IntOf(Type, a.value * 2^Count)>>
    [] Name = "SHR_S" -> <<IntOf(Type, a.value \div 2^Count)>>
    [] Name = "SHR_U" -> <<IntOf(Type, U(a) \div 2^Count)>>
    [] Name \in Orders -> <<Bool(~Unordered(a, b) /\ AtLeast)>>
    [] Name = "NE" -> <<Bool(Unordered(a, b) \/ Number(a) # Number(b))>>
    [] Name = "EQZ" -> <<Bool(a.value = 0)>>
    [] Name = "ABS" -> <<[a EXCEPT !.value.neg = FALSE]>>
    [] Name = "COPYSIGN" -> <<[a EXCEPT !.value.neg = b.value.neg]>>
    [] Name = "SELECT" -> <<IF operands[3].value # 0 THEN a ELSE b>>
    [] Name = "LOCAL_TEE" -> <<a>>
    [] Name \in {"CALL_INDIRECT", "LOCAL_SET"} -> <<>>
    [] Name = "LOCAL_GET" -> <<LocalsAtFirst[index]>>
    [] Name \in {"EXTEND_I32_S", "WRAP_I64"} -> <<IntOf(Type, a.value)>>
    [] Name = "EXTEND_I32_U" -> <<IntOf(Type, U(a))>>
    [] Name \in {"CONVERT_I32_S", "CONVERT_I64_S"} -> <<FloatOf(Type, a.value)>>
    [] Name \in {"CONVERT_I32_U", "CONVERT_I64_U"} -> <<FloatOf(Type, U(a))>>
    [] OTHER -> <<IntOf(Type, Whole(a))>>

-------------------------------------------------------------------------------
(* Running the code. *)

Bottom == [type |-> "none", value |-> 0]

Init ==
  /\ instr \in Instrs
  /\ sig \in IF Name = "CALL_INDIRECT" THEN Signatures ELSE {<<>>}
  /\ index \in IF Name \in LocalAccesses THEN OfType ELSE {0}
  /\ helpers \in MakingOrders /\ Asked \subseteq Range(helpers)
  /\ operands \in Operands
  \* What earlier instructions left in the scratch variables.
  /\ \E n \in {0, 1} :
       m = [stack |-> <<Bottom>> \o operands, pc |-> 1, thrown |-> FALSE, called |-> <<>>,
            args |-> [k \in 0 .. Len(ParamTypes) - 1 |-> LocalsAtFirst[k]],
            vars |-> [k \in 0 .. Len(Variables) - 1 |->
                        IF k < Len(LocalTypes) THEN LocalsAtFirst[Len(ParamTypes) + k]
                                               ELSE Sample(Variables[k + 1], n)]]

Ended == m.thrown \/ m.pc > Len(Code)

Run ==
  /\ ~Ended
  /\ m' \in Step(Code[m.pc], m)
  /\ UNCHANGED <<instr, sig, index, helpers, operands>>

Next == Run
Spec == Init /\ [][Next]_vars

-------------------------------------------------------------------------------
(* Properties. *)

\* Where the emitted code does something else, by instruction.
Departs ==
  CASE Name = "REM_S" -> b.value = -1 /\ a.value = Least(Type)          \* throws, where WebAssembly has 0
    [] Name \in {"SHL", "SHR_S", "SHR_U"} -> b.value \notin 0 .. Bits(Type) - 1 \* unspecified in the CLI
    [] Name = "ABS" -> a.value.neg /\ a.value.mag \in {0, NaN}           \* neither is less than 0
    \* The operands are taken for each other, unless their product is no
    \* number less or greater than 0: then the result is the second one.
    [] Name = "COPYSIGN" -> \/ a.value.mag # b.value.mag
                            \/ a.value.neg # b.value.neg /\ Times(a.value.mag, b.value.mag) \notin {0, NaN}
    [] Name = "EXTEND_I32_U" -> a.value < 0                              \* conv.i8 extends the sign
    [] Name = "CONVERT_I64_U" -> a.value < 0                             \* conv.u8 changes nothing
    [] Name \in {"TRUNC_F32_S", "TRUNC_F64_S", "TRUNC_F64_U"} -> Traps   \* some value, no exception
    [] Name = "TRUNC_F32_U" -> Traps \/ Whole(a) > -Least(Type) - 1      \* converted as a signed number
    [] OTHER -> FALSE

\* Instructions of which the CLI leaves nothing unspecified.
Determined == Name \notin {"SHL", "SHR_S", "SHR_U", "TRUNC_F32_S", "TRUNC_F32_U", "TRUNC_F64_S", "TRUNC_F64_U"}

\* The code has done what the instruction means: it threw where WebAssembly
\* traps, or left the result, called the function with the parameters in
\* their order, or set the local.
Right ==
  IF Traps THEN m.thrown
  ELSE /\ ~m.thrown
       /\ m.stack = <<Bottom>> \o Meaning
       /\ Name = "CALL_INDIRECT" => m.called = <<operands[Len(operands)]>> \o SubSeq(operands, 1, Len(sig))
       /\ Name \in {"LOCAL_SET", "LOCAL_TEE"} => LocalsNow[index] = a

\* For all operands, whatever the scratch variables held, the emitted code
\* does what the instruction means, except for the operands Departs names,
\* and for those it does not (the switch of ReadCodeSection).
RightUnlessNamed ==
  Ended => /\ Right \/ Departs
           /\ Departs /\ Determined => ~Right

\* Code for one instruction touches only its operands: what lies below them
\* on the stack and the locals of the program stay, through every step, and
\* at the end there is one result, or none of a call (scratch variables are
\* shared by all instructions of a function: getVariable).
NothingElseTouched ==
  /\ m.stack # <<>> /\ m.stack[1] = Bottom
  /\ \A n \in DOMAIN LocalsNow :
       LocalsNow[n] = LocalsAtFirst[n] \/ (Name \in {"LOCAL_SET", "LOCAL_TEE"} /\ n = index)
  /\ Ended /\ ~m.thrown => Len(m.stack) = 1 + (IF Name \in {"CALL_INDIRECT", "LOCAL_SET"} THEN 0 ELSE 1)

\* Every step leaves a machine of the CLI: the stack holds values of a type, and
\* an argument or a variable only values of its own type.
TypeOK ==
  /\ instr \in Instrs /\ helpers \in MakingOrders
  /\ \A i \in DOMAIN m.stack : m.stack[i].type \in {"none"} \cup IntTypes \cup FloatTypes
  /\ \A k \in DOMAIN m.args : m.args[k].type = ParamTypes[k + 1]
  /\ \A k \in DOMAIN m.vars : m.vars[k].type = Variables[k + 1]
  /\ m.pc \in 1 .. Len(Code) + 1
===============================================================================

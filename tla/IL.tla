---------------------------------- MODULE IL ----------------------------------
(* The part of the CLI's instruction set that translated code uses: values,    *)
(* and what one IL instruction does to the evaluation stack and the variables  *)
(* of a method.  The CLI is not part of the repository; where it leaves a      *)
(* result unspecified, Step allows every value of the type.                    *)
EXTENDS Integers, Sequences

CONSTANTS Bits32, \* width of an int32
          Bits64, \* width of an int64
          Unit,   \* the float 1, in units of the smallest float there is
          Tops,   \* magnitudes of floats, in those units
          Inf     \* the magnitude of infinity

IntTypes == {"i32", "i64"}
FloatTypes == {"f32", "f64"}
Types == IntTypes \cup FloatTypes

\* The width of an integer, and how many integers there are from 0 on.
Bits(t) == IF t = "i32" THEN Bits32 ELSE Bits64
Half(t) == 2^(Bits(t) - 1)

ASSUME WidthsAssumption == Bits32 \in Nat \ {0, 1} /\ Bits64 \in Nat /\ Bits64 > Bits32
\* Every float is less than infinity, and every integer has a float.
ASSUME FloatsAssumption ==
  /\ Unit \in Nat \ {0, 1} /\ Inf \in Nat /\ Tops \subseteq 0 .. Inf - 1
  /\ Unit * (2 * Half("i64")) < Inf

-------------------------------------------------------------------------------
(* Values. *)

Int2(n, t) == LET u == n % (2 * Half(t)) IN IF u >= Half(t) THEN u - 2 * Half(t) ELSE u
IntOf(t, n) == [type |-> t, value |-> Int2(n, t)]
U(x) == x.value % (2 * Half(x.type))
Bool(p) == IntOf("i32", IF p THEN 1 ELSE 0)

Ints(t) == {IntOf(t, n) : n \in 0 .. 2 * Half(t) - 1}

\* A float is a sign and a magnitude.
NaN == -1
Float(t, neg, mag) == [type |-> t, value |-> [neg |-> neg, mag |-> mag]]
Floats(t) == {Float(t, n, m) : n \in BOOLEAN, m \in Tops \cup {0, NaN, Inf}}
Values(t) == IF t \in IntTypes THEN Ints(t) ELSE Floats(t)

\* The number a float stands for, in units.
Num(f) == IF f.value.neg THEN -f.value.mag ELSE f.value.mag
IsNaN(f) == f.type \in FloatTypes /\ f.value.mag = NaN
FloatOf(t, n) == Float(t, n < 0, Unit * (IF n < 0 THEN -n ELSE n))
Whole(f) == IF f.value.neg THEN -(f.value.mag \div Unit) ELSE f.value.mag \div Unit
Finite(f) == f.value.mag \notin {NaN, Inf}
Negated(f) == [f EXCEPT !.value.neg = ~@]

\* Products too small for a float are zero, and those too large infinite.
Product(m, n) == (m * n) \div Unit
Times(m, n) ==
  CASE NaN \in {m, n} \/ {m, n} = {0, Inf} -> NaN
    [] NaN \notin {m, n} /\ {m, n} # {0, Inf} /\ Inf \in {m, n} -> Inf
    [] OTHER -> IF Product(m, n) < Inf THEN Product(m, n) ELSE Inf
TimesOf(a, b) == Float(a.type, a.value.neg # b.value.neg, Times(a.value.mag, b.value.mag))

Abs(n) == IF n < 0 THEN -n ELSE n
Quotient(m, n) == IF (m < 0) = (n < 0) THEN Abs(m) \div Abs(n) ELSE -(Abs(m) \div Abs(n))
Remainder(m, n) == m - n * Quotient(m, n)
Least(t) == -Half(t)

-------------------------------------------------------------------------------
(* Instructions with operands on the stack and one result.  An empty set of    *)
(* results is an exception. *)

Number(x) == IF x.type \in IntTypes THEN x.value ELSE Num(x)
Unordered(a, b) == IsNaN(a) \/ IsNaN(b)
Equal(a, b) == ~Unordered(a, b) /\ Number(a) = Number(b)
Less(a, b) == ~Unordered(a, b) /\ Number(a) < Number(b)
LessUn(a, b) == IF a.type \in IntTypes THEN U(a) < U(b) ELSE Unordered(a, b) \/ Less(a, b)

\* A shift by the width or more is unspecified.
Shifted(a, n, result) == IF n \in 0 .. Bits(a.type) - 1 THEN {IntOf(a.type, result)} ELSE Ints(a.type)

Divides(a, b) == b.value # 0 /\ ~(b.value = -1 /\ a.value = Least(a.type))

Binary(op, a, b) ==
  CASE op = "ceq" -> {Bool(Equal(a, b))}
    [] op = "clt" -> {Bool(Less(a, b))}
    [] op = "cgt" -> {Bool(Less(b, a))}
    [] op = "clt.un" -> {Bool(LessUn(a, b))}
    [] op = "cgt.un" -> {Bool(LessUn(b, a))}
    [] op = "or" -> {Bool(a.value = 1 \/ b.value = 1)}
    [] op = "mul" -> {TimesOf(a, b)}
    [] op = "div" -> IF Divides(a, b) THEN {IntOf(a.type, Quotient(a.value, b.value))} ELSE {}
    [] op = "rem" -> IF Divides(a, b) THEN {IntOf(a.type, Remainder(a.value, b.value))} ELSE {}
    [] op = "shl" -> Shifted(a, b.value, a.value * 2^U(b))
    [] op = "shr" -> Shifted(a, b.value, a.value \div 2^U(b))
    [] op = "shr.un" -> Shifted(a, b.value, U(a) \div 2^U(b))

\* A float that has no integer part of the width is converted to anything.
Converted(t, f, lo, hi) ==
  IF Finite(f) /\ Whole(f) \in lo .. hi THEN {IntOf(t, Whole(f))} ELSE Ints(t)
ToSigned(t, x) == IF x.type \in IntTypes THEN {IntOf(t, x.value)}
                  ELSE Converted(t, x, Least(t), -Least(t) - 1)
ToUnsigned(t, x) == IF x.type \in IntTypes THEN {IntOf(t, U(x))}
                    ELSE Converted(t, x, 0, 2 * Half(t) - 1)

\* The stack does not know int32 from uint32, nor int64 from uint64.
Unary(op, a) ==
  CASE op = "neg" -> {Negated(a)}
    [] op = "conv.i4" -> ToSigned("i32", a)
    [] op = "conv.u4" -> ToUnsigned("i32", a)
    [] op = "conv.i8" -> ToSigned("i64", a)
    [] op = "conv.u8" -> ToUnsigned("i64", a)
    [] op = "conv.r4" -> {FloatOf("f32", a.value)}
    [] op = "conv.r8" -> {FloatOf("f64", a.value)}

UnaryOps == {"neg", "conv.i4", "conv.u4", "conv.i8", "conv.u8", "conv.r4", "conv.r8"}
BinaryOps == {"ceq", "clt", "cgt", "clt.un", "cgt.un", "or", "mul", "div", "rem", "shl", "shr", "shr.un"}

-------------------------------------------------------------------------------
(* A method being run: stack, arguments, variables, the next instruction,      *)
(* whether it has thrown, and the last indirect call.  An instruction is its opcode and its   *)
(* operand. *)

Pop(m, n) == SubSeq(m.stack, 1, Len(m.stack) - n)
Top(m) == m.stack[Len(m.stack)]
Second(m) == m.stack[Len(m.stack) - 1]
After(m, stack) == [m EXCEPT !.stack = stack, !.pc = @ + 1]
Thrown(m) == [m EXCEPT !.thrown = TRUE]
Results(m, n, set) == IF set = {} THEN {Thrown(m)} ELSE {After(m, Append(Pop(m, n), x)) : x \in set}

Step(i, m) ==
  LET op == i[1]  arg == i[2] IN
  CASE op \in BinaryOps -> Results(m, 2, Binary(op, Second(m), Top(m)))
    [] op \in UnaryOps -> Results(m, 1, Unary(op, Top(m)))
    [] op = "nop" -> {After(m, m.stack)}
    [] op = "dup" -> {After(m, Append(m.stack, Top(m)))}
    [] op = "pop" -> {After(m, Pop(m, 1))}
    [] op = "ldc" -> {After(m, Append(m.stack, arg))}
    [] op = "ldloc" -> {After(m, Append(m.stack, m.vars[arg]))}
    [] op = "stloc" -> {[After(m, Pop(m, 1)) EXCEPT !.vars[arg] = Top(m)]}
    [] op = "ldarg" -> {After(m, Append(m.stack, m.args[arg]))}
    [] op = "starg" -> {[After(m, Pop(m, 1)) EXCEPT !.args[arg] = Top(m)]}
    [] op = "br" -> {[m EXCEPT !.pc = arg]}
    [] op = "brfalse" -> {[m EXCEPT !.stack = Pop(m, 1), !.pc = IF Top(m).value = 0 THEN arg ELSE @ + 1]}
    \* ldelem and castclass: the function of a table, which may be missing.
    [] op = "ldelem" -> IF Top(m).value \in arg THEN {After(m, m.stack)} ELSE {Thrown(m)}
    [] op = "callvirt" -> {[After(m, Pop(m, arg + 1)) EXCEPT !.called = SubSeq(m.stack, Len(m.stack) - arg, Len(m.stack))]}
===============================================================================

---------------------------- MODULE LoweringProofs ----------------------------
(* Proofs about Lowering, for integers of all widths, all floats, signatures   *)
(* and orders of the scratch variables: what the emitted code of every         *)
(* instruction leaves behind, followed from one IL instruction to the next.    *)
EXTENDS Lowering, FiniteSetTheorems, TLAPS

-------------------------------------------------------------------------------
(* Integers. *)

\* Powers of two, which count subsets.
LEMMA PowersCount ==
  ASSUME NEW n \in Nat
  PROVE  /\ IsFiniteSet(SUBSET (1 .. n)) /\ Cardinality(SUBSET (1 .. n)) = 2^n
         /\ 2^n \in Nat /\ 2^n >= 1
<1>1. IsFiniteSet(1 .. n) /\ Cardinality(1 .. n) = n
  <2>1. PICK i \in Int : i = 1
    OBVIOUS
  <2>2. IsFiniteSet(i .. n) /\ Cardinality(i .. n) = IF i > n THEN 0 ELSE n - i + 1
    BY FS_Interval
  <2> QED BY <2>1, <2>2
<1>2. IsFiniteSet(SUBSET (1 .. n)) /\ Cardinality(SUBSET (1 .. n)) = 2^n
  BY <1>1, FS_SUBSET
<1>3. Cardinality(SUBSET (1 .. n)) \in Nat
  BY <1>2, FS_CardinalityType
<1>4. SUBSET (1 .. n) # {}
  <2>1. {} \in SUBSET (1 .. n)
    OBVIOUS
  <2> QED BY <2>1
<1>5. Cardinality(SUBSET (1 .. n)) # 0
  BY <1>2, <1>4, FS_EmptySet
<1> QED BY <1>2, <1>3, <1>5

LEMMA PowersGrow ==
  ASSUME NEW n \in Nat, NEW k \in Nat, n <= k
  PROVE  2^n <= 2^k
<1>1. SUBSET (1 .. n) \subseteq SUBSET (1 .. k)
  OBVIOUS
<1>2. Cardinality(SUBSET (1 .. n)) <= Cardinality(SUBSET (1 .. k))
  BY <1>1, PowersCount, FS_Subset
<1> QED BY <1>2, PowersCount

\* Half the subsets of 1 .. n + 1 have n + 1, the others do not.
LEMMA PowersDouble ==
  ASSUME NEW n \in Nat
  PROVE  2 * 2^n <= 2^(n + 1)
<1> DEFINE all == SUBSET (1 .. n + 1)  low == SUBSET (1 .. n)  high == all \ low
<1>0. n + 1 \in Nat
  OBVIOUS
<1>1. IsFiniteSet(all) /\ Cardinality(all) = 2^(n + 1) /\ IsFiniteSet(low) /\ Cardinality(low) = 2^n
  BY <1>0, PowersCount
<1>2. low \subseteq all
  OBVIOUS
<1>3. IsFiniteSet(high) /\ Cardinality(high) = Cardinality(all) - Cardinality(all \cap low)
  BY <1>1, FS_Difference
<1>4. all \cap low = low
  BY <1>2
<1> DEFINE with == [s \in low |-> s \cup {n + 1}]
<1>5. with \in Injection(low, high)
  <2>1. ASSUME NEW s \in low
        PROVE  s \cup {n + 1} \in high
    OBVIOUS
  <2>2. ASSUME NEW s \in low, NEW r \in low, s \cup {n + 1} = r \cup {n + 1}
        PROVE  s = r
    <3>1. n + 1 \notin s /\ n + 1 \notin r
      OBVIOUS
    <3> QED BY <2>2, <3>1
  <2> QED BY <2>1, <2>2 DEF Injection, IsInjective
<1>6. Cardinality(low) <= Cardinality(high)
  BY <1>3, <1>5, FS_Injection
<1>7. 2^n \in Nat /\ 2^(n + 1) \in Nat
  BY <1>0, PowersCount
<1> DEFINE x == 2^n  y == 2^(n + 1)
<1>8. Cardinality(high) = y - x /\ x <= Cardinality(high) /\ x \in Nat /\ y \in Nat
  BY <1>1, <1>3, <1>4, <1>6, <1>7
<1> HIDE DEF x, y
<1>9. 2 * x <= y
  BY <1>8
<1> QED BY <1>9 DEF x, y

\* What the widths need to be for the arithmetic that follows.
LEMMA Halves ==
  /\ Half("i32") \in Nat /\ Half("i64") \in Nat
  /\ Half("i32") >= 2 /\ Half("i64") >= 2 * Half("i32")
<1>1. Bits32 - 1 \in Nat /\ Bits32 \in Nat /\ Bits64 - 1 \in Nat /\ Bits32 - 1 >= 1 /\ Bits64 - 1 >= Bits32
  BY WidthsAssumption
<1>2. 2^(Bits32 - 1) \in Nat /\ 2^(Bits64 - 1) \in Nat
  BY <1>1, PowersCount
<1>3. 2^(Bits32 - 1) >= 2
  <2>1. PICK one \in Nat, zero \in Nat : one = 1 /\ zero = 0 /\ one = zero + 1
    OBVIOUS
  <2>2. 2^zero \in Nat /\ 2^zero >= 1 /\ 2^one \in Nat /\ 2 * 2^zero <= 2^(zero + 1)
    BY PowersCount, PowersDouble
  <2>3. 2^one <= 2^(Bits32 - 1)
    BY <1>1, <2>1, PowersGrow
  <2> DEFINE x == 2^zero  y == 2^one  z == 2^(Bits32 - 1)
  <2>4. x >= 1 /\ 2 * x <= y /\ y <= z /\ x \in Nat /\ y \in Nat /\ z \in Nat
    BY <1>2, <2>1, <2>2, <2>3
  <2> HIDE DEF x, y, z
  <2>5. z >= 2
    BY <2>4
  <2> QED BY <2>5 DEF z
<1>4. 2 * 2^(Bits32 - 1) <= 2^(Bits64 - 1)
  <2>1. PICK n \in Nat : n = Bits32 - 1 /\ n + 1 = Bits32
    BY <1>1
  <2>2. 2 * 2^n <= 2^(n + 1)
    BY PowersDouble
  <2>3. 2^Bits32 <= 2^(Bits64 - 1) /\ 2^Bits32 \in Nat
    BY <1>1, PowersGrow, PowersCount
  <2> DEFINE x == 2^(Bits32 - 1)  y == 2^Bits32  z == 2^(Bits64 - 1)
  <2>4. 2 * x <= y /\ y <= z /\ x \in Nat /\ y \in Nat /\ z \in Nat
    BY <1>2, <2>1, <2>2, <2>3
  <2> HIDE DEF x, y, z
  <2>5. 2 * x <= z
    BY <2>4
  <2> QED BY <2>5 DEF x, z
<1>5. "i64" # "i32"
  OBVIOUS
<1>6. Half("i32") = 2^(Bits32 - 1) /\ Half("i64") = 2^(Bits64 - 1)
  BY <1>5 DEF Half, Bits
<1> DEFINE x == 2^(Bits32 - 1)  z == 2^(Bits64 - 1)
<1>7. x \in Nat /\ z \in Nat /\ x >= 2 /\ z >= 2 * x /\ Half("i32") = x /\ Half("i64") = z
  BY <1>2, <1>3, <1>4, <1>6
<1> HIDE DEF x, z
<1> QED BY <1>7

\* Two's complement has the numbers from -Half(t) to Half(t) - 1.
LEMMA HalfFacts ==
  ASSUME NEW t \in IntTypes
  PROVE  /\ Half(t) \in Nat /\ Half(t) >= 2
         /\ t = "i64" => Half(t) >= 2 * Half("i32")
BY Halves DEF IntTypes

LEMMA Modulo ==
  ASSUME NEW h \in Nat, h >= 2, NEW n \in Int, n >= -h, n < 2 * h
  PROVE  n % (2 * h) = IF n >= 0 THEN n ELSE n + 2 * h
<1>1. CASE n >= 0
  BY <1>1
<1>2. CASE n < 0
  BY <1>2
<1> QED BY <1>1, <1>2

LEMMA Int2Small ==
  ASSUME NEW t \in IntTypes, NEW n \in Int, n >= -Half(t), n < 2 * Half(t)
  PROVE  Int2(n, t) = IF n >= Half(t) THEN n - 2 * Half(t) ELSE n
<1> DEFINE h == Half(t)
<1>1. h \in Nat /\ h >= 2 /\ n >= -h /\ n < 2 * h
  BY HalfFacts
<1> HIDE DEF h
<1>2. n % (2 * h) = IF n >= 0 THEN n ELSE n + 2 * h
  BY <1>1, Modulo
<1> QED BY <1>1, <1>2 DEF Int2, h

LEMMA Int2Range ==
  ASSUME NEW t \in IntTypes, NEW n \in Int
  PROVE  Int2(n, t) \in -Half(t) .. Half(t) - 1
<1> DEFINE h == Half(t)
<1>1. h \in Nat /\ h >= 2
  BY HalfFacts
<1> HIDE DEF h
<1>2. n % (2 * h) \in 0 .. 2 * h - 1
  BY <1>1
<1> QED BY <1>1, <1>2 DEF Int2, h

LEMMA UnsignedIs ==
  ASSUME NEW t \in IntTypes, NEW x, x.type = t, x.value \in -Half(t) .. Half(t) - 1
  PROVE  U(x) = IF x.value >= 0 THEN x.value ELSE x.value + 2 * Half(t)
<1> DEFINE h == Half(t)  n == x.value
<1>1. h \in Nat /\ h >= 2 /\ n \in Int /\ n >= -h /\ n < h
  BY HalfFacts
<1>2. U(x) = n % (2 * h)
  BY DEF U
<1> HIDE DEF h, n
<1>3. n < 2 * h
  BY <1>1
<1>4. U(x) = IF n >= 0 THEN n ELSE n + 2 * h
  BY <1>1, <1>2, <1>3, Modulo
<1> QED BY <1>4 DEF h, n

\* The result of a comparison is 0 or 1.
LEMMA BoolIs ==
  ASSUME NEW p \in BOOLEAN
  PROVE  /\ Bool(p).type = "i32" /\ Bool(p).value = (IF p THEN 1 ELSE 0)
         /\ Bool(p) = [type |-> "i32", value |-> IF p THEN 1 ELSE 0]
<1> DEFINE n == IF p THEN 1 ELSE 0
<1>1. "i32" \in IntTypes
  BY DEF IntTypes
<1>2. n \in Int /\ n >= -Half("i32") /\ n < Half("i32") /\ n < 2 * Half("i32")
  BY <1>1, HalfFacts
<1>3. Half("i32") \in Int
  BY <1>1, HalfFacts
<1> HIDE DEF n
<1>4. Int2(n, "i32") = n
  BY <1>1, <1>2, <1>3, Int2Small
<1>5. Bool(p) = [type |-> "i32", value |-> n]
  BY <1>4 DEF Bool, IntOf, n
<1> QED BY <1>5 DEF n

-------------------------------------------------------------------------------
(* Machines: what a method being run consists of. *)

Value == Int \cup [neg : BOOLEAN, mag : Int]
Cell == [type : {"none"} \cup Types, value : Value]

ParamIndices == 0 .. 3
LocalIndices == 0 .. 3
Indices == 0 .. 4 + Len(helpers)
Machine == [stack : Seq(Cell), pc : Nat, thrown : BOOLEAN, called : Seq(Cell),
            args : [ParamIndices -> Cell], vars : [Indices -> Cell]]

\* A step that goes to k and leaves the stack s, and one that sets a variable.
Moves(M, N, s, k) == N = [M EXCEPT !.stack = s, !.pc = k]
Stores(M, N, s, v, x) == N = [M EXCEPT !.stack = s, !.pc = M.pc + 1, !.vars[v] = x]
StoresArg(M, N, s, v, x) == N = [M EXCEPT !.stack = s, !.pc = M.pc + 1, !.args[v] = x]

LEMMA MachineIs ==
  ASSUME NEW M \in Machine
  PROVE  M = [stack |-> M.stack, pc |-> M.pc, thrown |-> M.thrown, called |-> M.called,
              args |-> M.args, vars |-> M.vars]
BY DEF Machine

LEMMA MovesFacts ==
  ASSUME NEW M \in Machine, NEW N, NEW s \in Seq(Cell), NEW k \in Nat, Moves(M, N, s, k)
  PROVE  /\ N \in Machine /\ N.stack = s /\ N.pc = k /\ N.thrown = M.thrown
         /\ N.called = M.called /\ N.args = M.args /\ N.vars = M.vars
<1> DEFINE M1 == [M EXCEPT !.stack = s]
<1>0. M1 = [stack |-> s, pc |-> M.pc, thrown |-> M.thrown, called |-> M.called, args |-> M.args, vars |-> M.vars]
  BY MachineIs
<1>1. N = [M1 EXCEPT !.pc = k]
  BY DEF Moves
<1> HIDE DEF M1
<1>2. N = [stack |-> s, pc |-> k, thrown |-> M.thrown, called |-> M.called, args |-> M.args, vars |-> M.vars]
  BY <1>0, <1>1
<1> QED BY <1>2 DEF Machine

LEMMA StoresFacts ==
  ASSUME NEW M \in Machine, NEW N, NEW s \in Seq(Cell), NEW v \in Indices, NEW x \in Cell, Stores(M, N, s, v, x)
  PROVE  /\ N \in Machine /\ N.stack = s /\ N.pc = M.pc + 1 /\ N.thrown = M.thrown
         /\ N.called = M.called /\ N.args = M.args /\ N.vars = [M.vars EXCEPT ![v] = x]
<1> DEFINE M1 == [M EXCEPT !.stack = s]
<1>0. M1 = [stack |-> s, pc |-> M.pc, thrown |-> M.thrown, called |-> M.called, args |-> M.args, vars |-> M.vars]
  BY MachineIs
<1>1. N = [[M1 EXCEPT !.pc = M.pc + 1] EXCEPT !.vars[v] = x]
  BY DEF Stores
<1> DEFINE M2 == [M1 EXCEPT !.pc = M.pc + 1]
<1> HIDE DEF M1
<1>2. M2 = [stack |-> s, pc |-> M.pc + 1, thrown |-> M.thrown, called |-> M.called, args |-> M.args, vars |-> M.vars]
  BY <1>0
<1>3. N = [M2 EXCEPT !.vars[v] = x]
  BY <1>1
<1> HIDE DEF M2
<1>4. N = [stack |-> s, pc |-> M.pc + 1, thrown |-> M.thrown, called |-> M.called, args |-> M.args,
           vars |-> [M.vars EXCEPT ![v] = x]]
  BY <1>2, <1>3
<1> QED BY <1>4 DEF Machine

LEMMA StoresArgFacts ==
  ASSUME NEW M \in Machine, NEW N, NEW s \in Seq(Cell), NEW v \in ParamIndices, NEW x \in Cell, StoresArg(M, N, s, v, x)
  PROVE  /\ N \in Machine /\ N.stack = s /\ N.pc = M.pc + 1 /\ N.thrown = M.thrown
         /\ N.called = M.called /\ N.args = [M.args EXCEPT ![v] = x] /\ N.vars = M.vars
<1> DEFINE M1 == [M EXCEPT !.stack = s]
<1>0. M1 = [stack |-> s, pc |-> M.pc, thrown |-> M.thrown, called |-> M.called, args |-> M.args, vars |-> M.vars]
  BY MachineIs
<1>1. N = [[M1 EXCEPT !.pc = M.pc + 1] EXCEPT !.args[v] = x]
  BY DEF StoresArg
<1> DEFINE M2 == [M1 EXCEPT !.pc = M.pc + 1]
<1> HIDE DEF M1
<1>2. M2 = [stack |-> s, pc |-> M.pc + 1, thrown |-> M.thrown, called |-> M.called, args |-> M.args, vars |-> M.vars]
  BY <1>0
<1>3. N = [M2 EXCEPT !.args[v] = x]
  BY <1>1
<1> HIDE DEF M2
<1>4. N = [stack |-> s, pc |-> M.pc + 1, thrown |-> M.thrown, called |-> M.called,
           args |-> [M.args EXCEPT ![v] = x], vars |-> M.vars]
  BY <1>2, <1>3
<1> QED BY <1>4 DEF Machine

LEMMA ThrownFacts ==
  ASSUME NEW M \in Machine, NEW N, N = Thrown(M)
  PROVE  /\ N \in Machine /\ N.stack = M.stack /\ N.pc = M.pc /\ N.thrown
         /\ N.called = M.called /\ N.args = M.args /\ N.vars = M.vars
BY DEF Machine, Thrown

LEMMA Pushed ==
  ASSUME NEW s \in Seq(Cell), NEW x \in Cell
  PROVE  /\ Append(s, x) \in Seq(Cell) /\ Len(Append(s, x)) = Len(s) + 1 /\ Len(s) \in Nat
         /\ Append(s, x)[Len(s) + 1] = x /\ SubSeq(Append(s, x), 1, Len(s)) = s
OBVIOUS

LEMMA Popped ==
  ASSUME NEW M \in Machine, NEW s \in Seq(Cell), NEW x \in Cell, M.stack = Append(s, x)
  PROVE  /\ Pop(M, 1) = s /\ Top(M) = x
<1>1. Len(M.stack) - 1 = Len(s) /\ Len(M.stack) = Len(s) + 1
  BY Pushed
<1> QED BY <1>1, Pushed DEF Pop, Top

LEMMA PoppedTwo ==
  ASSUME NEW M \in Machine, NEW s \in Seq(Cell), NEW x \in Cell, NEW y \in Cell,
         M.stack = Append(Append(s, x), y)
  PROVE  /\ Pop(M, 2) = s /\ Second(M) = x /\ Top(M) = y
<1> DEFINE r == Append(s, x)
<1>1. r \in Seq(Cell) /\ Len(r) = Len(s) + 1 /\ Len(s) \in Nat /\ r[Len(s) + 1] = x
  BY Pushed
<1>2. SubSeq(r, 1, Len(s)) = s
  BY Pushed
<1> HIDE DEF r
<1>3. Len(Append(r, y)) = Len(s) + 2 /\ Append(r, y)[Len(s) + 2] = y /\ Append(r, y)[Len(s) + 1] = x
  BY <1>1
<1>4. SubSeq(Append(r, y), 1, Len(s)) = SubSeq(r, 1, Len(s))
  BY <1>1
<1>5. M.stack = Append(r, y)
  BY DEF r
<1>6. Len(M.stack) - 2 = Len(s) /\ Len(M.stack) - 1 = Len(s) + 1 /\ Len(M.stack) = Len(s) + 2
  BY <1>1, <1>3, <1>5
<1> QED BY <1>2, <1>3, <1>4, <1>5, <1>6 DEF Pop, Top, Second

-------------------------------------------------------------------------------
(* One IL instruction each. *)

LEMMA BinaryStep ==
  ASSUME NEW M \in Machine, NEW s \in Seq(Cell), NEW x \in Cell, NEW y \in Cell,
         M.stack = Append(Append(s, x), y), NEW op \in BinaryOps, NEW arg, NEW N \in Step(<<op, arg>>, M)
  PROVE  \/ Binary(op, x, y) = {} /\ N = Thrown(M)
         \/ \E z \in Binary(op, x, y) : Moves(M, N, Append(s, z), M.pc + 1)
<1>1. N \in Results(M, 2, Binary(op, Second(M), Top(M)))
  BY DEF Step, BinaryOps, UnaryOps
<1>2. N \in Results(M, 2, Binary(op, x, y))
  BY <1>1, PoppedTwo, Zenon
<1>3. Pop(M, 2) = s
  BY PoppedTwo
<1> QED BY <1>2, <1>3 DEF Results, After, Moves

LEMMA UnaryStep ==
  ASSUME NEW M \in Machine, NEW s \in Seq(Cell), NEW x \in Cell,
         M.stack = Append(s, x), NEW op \in UnaryOps, NEW arg, NEW N \in Step(<<op, arg>>, M)
  PROVE  \/ Unary(op, x) = {} /\ N = Thrown(M)
         \/ \E z \in Unary(op, x) : Moves(M, N, Append(s, z), M.pc + 1)
<1>1. N \in Results(M, 1, Unary(op, Top(M)))
  BY DEF Step, BinaryOps, UnaryOps
<1>2. N \in Results(M, 1, Unary(op, x))
  BY <1>1, Popped, Zenon
<1>3. Pop(M, 1) = s
  BY Popped
<1> QED BY <1>2, <1>3 DEF Results, After, Moves

LEMMA NopStep ==
  ASSUME NEW M \in Machine, NEW arg, NEW N \in Step(<<"nop", arg>>, M)
  PROVE  Moves(M, N, M.stack, M.pc + 1)
<1>1. N = After(M, M.stack)
  BY DEF Step, BinaryOps, UnaryOps
<1> QED BY <1>1 DEF After, Moves

LEMMA DupStep ==
  ASSUME NEW M \in Machine, NEW s \in Seq(Cell), NEW x \in Cell, M.stack = Append(s, x),
         NEW arg, NEW N \in Step(<<"dup", arg>>, M)
  PROVE  Moves(M, N, Append(Append(s, x), x), M.pc + 1)
<1>1. N = After(M, Append(M.stack, Top(M)))
  BY DEF Step, BinaryOps, UnaryOps
<1> QED BY <1>1, Popped DEF After, Moves

LEMMA PopStep ==
  ASSUME NEW M \in Machine, NEW s \in Seq(Cell), NEW x \in Cell, M.stack = Append(s, x),
         NEW arg, NEW N \in Step(<<"pop", arg>>, M)
  PROVE  Moves(M, N, s, M.pc + 1)
<1>1. N = After(M, Pop(M, 1))
  BY DEF Step, BinaryOps, UnaryOps
<1> QED BY <1>1, Popped DEF After, Moves

LEMMA LdcStep ==
  ASSUME NEW M \in Machine, NEW arg, NEW N \in Step(<<"ldc", arg>>, M)
  PROVE  Moves(M, N, Append(M.stack, arg), M.pc + 1)
<1>1. N = After(M, Append(M.stack, arg))
  BY DEF Step, BinaryOps, UnaryOps
<1> QED BY <1>1 DEF After, Moves

LEMMA LdlocStep ==
  ASSUME NEW M \in Machine, NEW arg, NEW N \in Step(<<"ldloc", arg>>, M)
  PROVE  Moves(M, N, Append(M.stack, M.vars[arg]), M.pc + 1)
<1>1. N = After(M, Append(M.stack, M.vars[arg]))
  BY DEF Step, BinaryOps, UnaryOps
<1> QED BY <1>1 DEF After, Moves

LEMMA LdargStep ==
  ASSUME NEW M \in Machine, NEW arg, NEW N \in Step(<<"ldarg", arg>>, M)
  PROVE  Moves(M, N, Append(M.stack, M.args[arg]), M.pc + 1)
<1>1. N = After(M, Append(M.stack, M.args[arg]))
  BY DEF Step, BinaryOps, UnaryOps
<1> QED BY <1>1 DEF After, Moves

LEMMA StlocStep ==
  ASSUME NEW M \in Machine, NEW s \in Seq(Cell), NEW x \in Cell, M.stack = Append(s, x),
         NEW arg, NEW N \in Step(<<"stloc", arg>>, M)
  PROVE  Stores(M, N, s, arg, x)
<1>1. N = [After(M, Pop(M, 1)) EXCEPT !.vars[arg] = Top(M)]
  BY DEF Step, BinaryOps, UnaryOps
<1>2. N = [After(M, s) EXCEPT !.vars[arg] = x]
  BY <1>1, Popped, Zenon
<1> QED BY <1>2 DEF After, Stores, Machine

LEMMA StargStep ==
  ASSUME NEW M \in Machine, NEW s \in Seq(Cell), NEW x \in Cell, M.stack = Append(s, x),
         NEW arg, NEW N \in Step(<<"starg", arg>>, M)
  PROVE  StoresArg(M, N, s, arg, x)
<1>1. N = [After(M, Pop(M, 1)) EXCEPT !.args[arg] = Top(M)]
  BY DEF Step, BinaryOps, UnaryOps
<1>2. N = [After(M, s) EXCEPT !.args[arg] = x]
  BY <1>1, Popped, Zenon
<1> QED BY <1>2 DEF After, StoresArg, Machine

LEMMA BrStep ==
  ASSUME NEW M \in Machine, NEW arg, NEW N \in Step(<<"br", arg>>, M)
  PROVE  Moves(M, N, M.stack, arg)
<1>1. N = [M EXCEPT !.pc = arg]
  BY DEF Step, BinaryOps, UnaryOps
<1> QED BY <1>1 DEF Moves, Machine

LEMMA BrfalseStep ==
  ASSUME NEW M \in Machine, NEW s \in Seq(Cell), NEW x \in Cell, M.stack = Append(s, x),
         NEW arg, NEW N \in Step(<<"brfalse", arg>>, M)
  PROVE  Moves(M, N, s, IF x.value = 0 THEN arg ELSE M.pc + 1)
<1>1. N = [M EXCEPT !.stack = Pop(M, 1), !.pc = IF Top(M).value = 0 THEN arg ELSE @ + 1]
  BY DEF Step, BinaryOps, UnaryOps
<1> QED BY <1>1, Popped DEF Moves, Machine

LEMMA LdelemStep ==
  ASSUME NEW M \in Machine, NEW s \in Seq(Cell), NEW x \in Cell, M.stack = Append(s, x),
         NEW arg, NEW N \in Step(<<"ldelem", arg>>, M)
  PROVE  \/ x.value \in arg /\ Moves(M, N, M.stack, M.pc + 1)
         \/ x.value \notin arg /\ N = Thrown(M)
<1>1. N \in (IF Top(M).value \in arg THEN {After(M, M.stack)} ELSE {Thrown(M)})
  BY DEF Step, BinaryOps, UnaryOps
<1> QED BY <1>1, Popped DEF After, Moves

LEMMA CallvirtStep ==
  ASSUME NEW M \in Machine, NEW n \in Nat, NEW N \in Step(<<"callvirt", n>>, M)
  PROVE  N = [M EXCEPT !.stack = Pop(M, n + 1), !.pc = M.pc + 1,
                       !.called = SubSeq(M.stack, Len(M.stack) - n, Len(M.stack))]
<1>1. N = [After(M, Pop(M, n + 1)) EXCEPT !.called = SubSeq(M.stack, Len(M.stack) - n, Len(M.stack))]
  BY DEF Step, BinaryOps, UnaryOps
<1> QED BY <1>1 DEF After, Machine

-------------------------------------------------------------------------------
(* Values: what is known of the operands and of the results of instructions.   *)

LEMMA TypesAre ==
  /\ IntTypes \subseteq Types /\ FloatTypes \subseteq Types /\ "i32" \in IntTypes /\ "i64" \in IntTypes
  /\ IntTypes \cap FloatTypes = {}
BY DEF Types, IntTypes, FloatTypes

LEMMA IntOfIs ==
  ASSUME NEW t \in IntTypes, NEW n \in Int
  PROVE  /\ IntOf(t, n).type = t /\ IntOf(t, n).value = Int2(n, t)
         /\ IntOf(t, n) = [type |-> t, value |-> Int2(n, t)]
         /\ IntOf(t, n).value \in -Half(t) .. Half(t) - 1
         /\ IntOf(t, n).value \in Int
         /\ IntOf(t, n) \in Cell
<1>1. Int2(n, t) \in -Half(t) .. Half(t) - 1 /\ Half(t) \in Nat
  BY Int2Range, HalfFacts
<1>2. Int2(n, t) \in Int
  BY <1>1
<1> QED BY <1>1, <1>2, TypesAre DEF IntOf, Cell, Value

LEMMA IntsAre ==
  ASSUME NEW t \in IntTypes, NEW x \in Ints(t)
  PROVE  /\ x.type = t /\ x.value \in -Half(t) .. Half(t) - 1 /\ x.value \in Int
         /\ x = [type |-> t, value |-> x.value] /\ x \in Cell
<1>1. PICK n \in 0 .. 2 * Half(t) - 1 : x = IntOf(t, n)
  BY DEF Ints
<1>2. n \in Int
  BY <1>1, HalfFacts
<1> QED BY <1>1, <1>2, IntOfIs

LEMMA FloatsAre ==
  ASSUME NEW t \in FloatTypes, NEW x \in Floats(t)
  PROVE  /\ x.type = t /\ x.value.neg \in BOOLEAN
         /\ x.value.mag \in Nat \cup {NaN} /\ x.value.mag \in Int
         /\ x = [type |-> t, value |-> [neg |-> x.value.neg, mag |-> x.value.mag]] /\ x \in Cell
<1>1. PICK p \in BOOLEAN, n \in Tops \cup {0, NaN, Inf} : x = Float(t, p, n)
  BY DEF Floats
<1>2. n \in Nat \cup {NaN} /\ n \in Int
  BY <1>1, FloatsAssumption DEF NaN
<1>3. x = [type |-> t, value |-> [neg |-> p, mag |-> n]]
  BY <1>1 DEF Float
<1> QED BY <1>2, <1>3, TypesAre DEF Cell, Value

\* Every value of a type is a value of the machine.
LEMMA ValuesAre ==
  ASSUME NEW t \in Types, NEW x \in Values(t)
  PROVE  x.type = t /\ x \in Cell
<1>1. CASE t \in IntTypes
  BY <1>1, IntsAre DEF Values
<1>2. CASE t \notin IntTypes
  <2>1. t \in FloatTypes
    BY <1>2 DEF Types
  <2> QED BY <1>2, <2>1, FloatsAre DEF Values
<1> QED BY <1>1, <1>2

LEMMA BoolIn ==
  ASSUME NEW p \in BOOLEAN
  PROVE  Bool(p) \in Cell
BY BoolIs, TypesAre DEF Cell, Value

LEMMA FloatOfIs ==
  ASSUME NEW t \in FloatTypes, NEW n \in Int
  PROVE  /\ FloatOf(t, n) \in Cell /\ FloatOf(t, n).type = t
         /\ FloatOf(t, n).value.neg = (n < 0)
<1> DEFINE k == Unit * (IF n < 0 THEN -n ELSE n)
<1>1. k \in Int
  BY FloatsAssumption
<1>2. FloatOf(t, n) = [type |-> t, value |-> [neg |-> n < 0, mag |-> k]]
  BY DEF FloatOf, Float
<1> HIDE DEF k
<1>3. (n < 0) \in BOOLEAN
  OBVIOUS
<1> QED BY <1>1, <1>2, <1>3, TypesAre DEF Cell, Value

\* Less than, and its relatives, are true or false of any two operands.
LEMMA ComparisonsAre ==
  ASSUME NEW x, NEW y
  PROVE  Equal(x, y) \in BOOLEAN /\ Less(x, y) \in BOOLEAN /\ LessUn(x, y) \in BOOLEAN
<1>1. Unordered(x, y) \in BOOLEAN
  BY DEF Unordered, IsNaN
<1>2. Equal(x, y) \in BOOLEAN /\ Less(x, y) \in BOOLEAN
  BY DEF Equal, Less
<1>3. (U(x) < U(y)) \in BOOLEAN /\ (Unordered(x, y) \/ Less(x, y)) \in BOOLEAN
  OBVIOUS
<1>4. LessUn(x, y) \in BOOLEAN
  BY <1>3, Zenon DEF LessUn
<1> QED BY <1>2, <1>4

-------------------------------------------------------------------------------
(* Stacks: what lies above the bottom. *)

S0 == <<Bottom>>
S1(x) == <<Bottom, x>>
S2(x, y) == <<Bottom, x, y>>
S3(x, y, z) == <<Bottom, x, y, z>>

LEMMA BottomIs == Bottom \in Cell /\ S0 \in Seq(Cell)
BY DEF Bottom, Cell, Value, S0

LEMMA StackOf1 ==
  ASSUME NEW x \in Cell
  PROVE  S1(x) = Append(S0, x) /\ S1(x) \in Seq(Cell)
BY BottomIs DEF S0, S1

LEMMA StackOf2 ==
  ASSUME NEW x \in Cell, NEW y \in Cell
  PROVE  S2(x, y) = Append(S1(x), y) /\ S2(x, y) \in Seq(Cell)
BY BottomIs DEF S1, S2

LEMMA StackOf3 ==
  ASSUME NEW x \in Cell, NEW y \in Cell, NEW z \in Cell
  PROVE  S3(x, y, z) = Append(S2(x, y), z) /\ S3(x, y, z) \in Seq(Cell)
BY BottomIs DEF S2, S3

-------------------------------------------------------------------------------
(* Scratch variables. *)

Has(t, n) == \E k \in DOMAIN helpers : helpers[k] = <<t, n>>

LEMMA HelpersAre ==
  ASSUME helpers \in MakingOrders
  PROVE  /\ helpers \in Seq(Types \X Nat) /\ Len(helpers) \in Nat /\ DOMAIN helpers = 1 .. Len(helpers)
         /\ \A j, k \in DOMAIN helpers : helpers[j] = helpers[k] => j = k
<1>1. helpers \in Seq(Types \X Nat)
  BY OrdersAssumption
<1>2. \A j, k \in DOMAIN helpers : helpers[j] = helpers[k] => j = k
  BY OrdersAssumption
<1> QED BY <1>1, <1>2

\* What an instruction asks for is there.
UsesTwo == Name \in Orders \cup {"COPYSIGN"}
UsesOne == UsesTwo \/ Name = "SELECT"

LEMMA AskedIs ==
  /\ UsesTwo => Asked = {<<Type, 0>>, <<Type, 1>>}
  /\ Name = "SELECT" => Asked = {<<Type, 0>>}
  /\ Name = "CALL_INDIRECT" => Asked = {<<"i32", 0>>} \cup {<<sig[k], k>> : k \in DOMAIN sig}
<1>1. UsesTwo => Asked = {<<Type, 0>>, <<Type, 1>>}
  BY Zenon DEF Asked, UsesTwo, Orders
<1>2. Name = "SELECT" => Asked = {<<Type, 0>>}
  BY Zenon DEF Asked, Orders
<1>3. Name = "CALL_INDIRECT" => Asked = {<<"i32", 0>>} \cup {<<sig[k], k>> : k \in DOMAIN sig}
  BY Zenon DEF Asked, Orders
<1> QED BY <1>1, <1>2, <1>3

LEMMA AskedFor ==
  ASSUME NEW t, NEW n, <<t, n>> \in Asked, Asked \subseteq Range(helpers)
  PROVE  Has(t, n)
BY DEF Range, Has

\* A scratch variable is after the locals and heapaddr, and of its type.
LEMMA Scratch ==
  ASSUME helpers \in MakingOrders, NEW t \in Types, NEW n \in Nat, Has(t, n)
  PROVE  /\ getVariable(t, n) \in Indices /\ getVariable(t, n) \notin LocalIndices
         /\ Variables[getVariable(t, n) + 1] = t
         /\ Place(<<t, n>>) \in DOMAIN helpers /\ helpers[Place(<<t, n>>)] = <<t, n>>
         /\ getVariable(t, n) = 4 + Place(<<t, n>>)
<1> DEFINE p == Place(<<t, n>>)
<1>1. p \in DOMAIN helpers /\ helpers[p] = <<t, n>>
  BY Zenon DEF Has, Place
<1>2. getVariable(t, n) = 4 + p
  BY DEF getVariable, LocalTypes
<1> HIDE DEF p
<1>3. p \in 1 .. Len(helpers) /\ Len(helpers) \in Nat /\ DOMAIN helpers = 1 .. Len(helpers)
  BY <1>1, HelpersAre
<1> DEFINE kinds == [k \in DOMAIN helpers |-> helpers[k][1]]
<1>4. kinds[p] = t
  BY <1>1
<1>5. kinds \in Seq(Types) /\ Len(kinds) = Len(helpers)
  <2>1. \A k \in 1 .. Len(helpers) : helpers[k][1] \in Types
    BY HelpersAre
  <2>2. kinds \in [1 .. Len(helpers) -> Types]
    BY <2>1, <1>3
  <2> QED BY <2>2, <1>3
<1>6. Variables = LocalTypes \o <<"i32">> \o kinds
  BY DEF Variables
<1> HIDE DEF kinds
<1>7. LocalTypes \o <<"i32">> \in Seq(Types) /\ Len(LocalTypes \o <<"i32">>) = 5
  BY DEF LocalTypes, Types, IntTypes, FloatTypes
<1>8. Variables[5 + p] = kinds[p]
  BY <1>3, <1>5, <1>6, <1>7
<1>9. getVariable(t, n) + 1 = 5 + p /\ getVariable(t, n) \in Indices /\ getVariable(t, n) \notin LocalIndices
  BY <1>2, <1>3 DEF Indices, LocalIndices
<1>10. Variables[getVariable(t, n) + 1] = t
  BY <1>4, <1>8, <1>9
<1> QED BY <1>1, <1>2, <1>9, <1>10 DEF p

LEMMA ScratchDiffer ==
  ASSUME helpers \in MakingOrders, NEW t \in Types, NEW n \in Nat, Has(t, n),
         NEW u \in Types, NEW k \in Nat, Has(u, k), n # k
  PROVE  getVariable(t, n) # getVariable(u, k)
<1>1. helpers[Place(<<t, n>>)] = <<t, n>> /\ helpers[Place(<<u, k>>)] = <<u, k>>
  BY Scratch
<1>2. Place(<<t, n>>) # Place(<<u, k>>)
  BY <1>1
<1>3. Place(<<t, n>>) \in Int /\ Place(<<u, k>>) \in Int
  BY Scratch, HelpersAre
<1>4. getVariable(t, n) = 4 + Place(<<t, n>>) /\ getVariable(u, k) = 4 + Place(<<u, k>>)
  BY Scratch
<1> QED BY <1>2, <1>3, <1>4

-------------------------------------------------------------------------------
(* The inductive invariant: where the method is, what is on its stack and in   *)
(* the scratch variables its code uses, for each instruction.                  *)

Static ==
  /\ instr \in Instrs
  /\ sig \in IF Name = "CALL_INDIRECT" THEN Signatures ELSE {<<>>}
  /\ index \in IF Name \in LocalAccesses THEN OfType ELSE {0}
  /\ helpers \in MakingOrders /\ Asked \subseteq Range(helpers)
  /\ operands \in Operands

\* The machine, its parameters and its locals, at all times.
Sets == Name \in {"LOCAL_SET", "LOCAL_TEE"}
Kept(M) ==
  /\ M \in Machine
  /\ \A k \in ParamIndices : M.args[k].type = ParamTypes[k + 1]
  /\ \A k \in Indices : M.vars[k].type = Variables[k + 1]
  /\ \A k \in ParamIndices : M.args[k] = LocalsAtFirst[k] \/ (Sets /\ k = index)
  /\ \A k \in LocalIndices : M.vars[k] = LocalsAtFirst[4 + k] \/ (Sets /\ 4 + k = index)

V0 == getVariable(Type, 0)
V1 == getVariable(Type, 1)

\* DIV_S, REM_S and the shifts: one instruction, which may throw.
DirectOp == DirectOf[Name]
DirectAt(M) ==
  /\ M.pc \in {1, 2}
  /\ M.pc = 1 => M.stack = S2(a, b)
  /\ M.pc = 2 => \E z \in Binary(DirectOp, a, b) : M.stack = S1(z)
  /\ M.pc = 2 => ~M.thrown
  /\ M.thrown => Binary(DirectOp, a, b) = {}

\* GE and LE.
Eq == Bool(Equal(a, b))
Ordered == CASE Name \in {"LE", "LE_S"} -> Less(a, b)  [] Name = "LE_U" -> LessUn(a, b)
             [] Name \in {"GE", "GE_S"} -> Less(b, a)  [] Name = "GE_U" -> LessUn(b, a)
Cmp == Bool(Ordered)
OrderAt(M) ==
  /\ M.pc \in 1 .. 10 /\ ~M.thrown
  /\ M.pc > 1 => M.vars[V0] = b
  /\ M.pc > 2 => M.vars[V1] = a
  /\ M.pc = 1 => M.stack = S2(a, b)
  /\ M.pc = 2 => M.stack = S1(a)
  /\ M.pc = 3 => M.stack = S0
  /\ M.pc = 4 => M.stack = S1(a)
  /\ M.pc = 5 => M.stack = S2(a, b)
  /\ M.pc = 6 => M.stack = S1(Eq)
  /\ M.pc = 7 => M.stack = S2(Eq, a)
  /\ M.pc = 8 => M.stack = S3(Eq, a, b)
  /\ M.pc = 9 => M.stack = S2(Eq, Cmp)
  /\ M.pc = 10 => M.stack = S1(Bool(Equal(a, b) \/ Ordered))

NEAt(M) ==
  /\ M.pc \in 1 .. 4 /\ ~M.thrown
  /\ M.pc = 1 => M.stack = S2(a, b)
  /\ M.pc = 2 => M.stack = S1(Eq)
  /\ M.pc = 3 => M.stack = S2(Eq, I32Zero)
  /\ M.pc = 4 => M.stack = S1(Bool(~Equal(a, b)))

EQZAt(M) ==
  /\ M.pc \in 1 .. 3 /\ ~M.thrown
  /\ M.pc = 1 => M.stack = S1(a)
  /\ M.pc = 2 => M.stack = S2(a, Zero)
  /\ M.pc = 3 => M.stack = S1(Bool(a.value = 0))

\* ABS: the operand is negated when it is less than zero.
Below == Less(a, Zero)
Lt == Bool(Below)
ABSAt(M) ==
  /\ M.pc \in 1 .. 7 /\ ~M.thrown
  /\ M.pc = 1 => M.stack = S1(a)
  /\ M.pc = 2 => M.stack = S2(a, a)
  /\ M.pc = 3 => M.stack = S3(a, a, Zero)
  /\ M.pc = 4 => M.stack = S2(a, Lt)
  /\ M.pc = 5 => M.stack = S1(a) /\ Below
  /\ M.pc > 5 => M.stack = S1(IF Below THEN Negated(a) ELSE a)

\* COPYSIGN: the second operand is negated when the product is less than zero.
Prod == TimesOf(a, b)
Opposite == Less(Prod, Zero)
Op == Bool(Opposite)
COPYSIGNAt(M) ==
  /\ M.pc \in 1 .. 12 /\ ~M.thrown
  /\ M.pc > 1 => M.vars[V0] = b
  /\ M.pc > 2 => M.vars[V1] = a
  /\ M.pc = 1 => M.stack = S2(a, b)
  /\ M.pc = 2 => M.stack = S1(a)
  /\ M.pc = 3 => M.stack = S0
  /\ M.pc = 4 => M.stack = S1(b)
  /\ M.pc = 5 => M.stack = S2(b, a)
  /\ M.pc = 6 => M.stack = S3(b, a, b)
  /\ M.pc = 7 => M.stack = S2(b, Prod)
  /\ M.pc = 8 => M.stack = S3(b, Prod, Zero)
  /\ M.pc = 9 => M.stack = S2(b, Op)
  /\ M.pc = 10 => M.stack = S1(b) /\ Opposite
  /\ M.pc > 10 => M.stack = S1(IF Opposite THEN Negated(b) ELSE b)

\* SELECT: positions 2 and 3 when the condition is true, 4 to 6 when it is not.
Chosen == operands[3].value # 0
SELECTAt(M) ==
  /\ M.pc \in 1 .. 8 /\ ~M.thrown
  /\ M.pc \in {2, 3} => Chosen
  /\ M.pc \in {4, 5, 6} => ~Chosen
  /\ M.pc \in {5, 6} => M.vars[V0] = b
  /\ M.pc = 1 => M.stack = S3(a, b, operands[3])
  /\ M.pc \in {2, 4} => M.stack = S2(a, b)
  /\ M.pc \in {3, 5} => M.stack = S1(a)
  /\ M.pc = 6 => M.stack = S0
  /\ M.pc > 6 => M.stack = S1(IF Chosen THEN a ELSE b)

\* Accesses to the local index.
At(M, n) == IF n < 4 THEN M.args[n] ELSE M.vars[n - 4]
GetAt(M) ==
  /\ M.pc \in {1, 2} /\ ~M.thrown
  /\ M.pc = 1 => M.stack = S0
  /\ M.pc = 2 => M.stack = S1(LocalsAtFirst[index])
SetAt(M) ==
  /\ M.pc \in {1, 2} /\ ~M.thrown
  /\ M.pc = 1 => M.stack = S1(a)
  /\ M.pc = 2 => M.stack = S0 /\ At(M, index) = a
TEEAt(M) ==
  /\ M.pc \in 1 .. 3 /\ ~M.thrown
  /\ M.pc = 1 => M.stack = S1(a)
  /\ M.pc = 2 => M.stack = S2(a, a)
  /\ M.pc = 3 => M.stack = S1(a) /\ At(M, index) = a

\* CALL_INDIRECT, of a function with Arity parameters.  Position 1 takes the
\* index off the stack, the next take the parameters, from the last on, then
\* the function is found and the parameters are put back.
Arity == Len(sig)
Index == operands[Arity + 1]
Slot == getVariable("i32", 0)
Saved(M, k) == M.vars[Parameter(k)] = operands[k]
Over(M, base, n) == \* the first n parameters lie over what is in base
  /\ Len(M.stack) = Len(base) + n
  /\ \A k \in 1 .. Len(base) : M.stack[k] = base[k]
  /\ \A k \in 1 .. n : M.stack[Len(base) + k] = operands[k]
CallAt(M) ==
  /\ M.pc \in 1 .. 2 * Arity + 5
  /\ M.thrown => M.pc = Arity + 3 /\ Index.value \notin Table
  /\ M.pc > 1 => M.vars[Slot] = Index
  /\ M.pc = 1 => M.stack = S0 \o operands
  /\ M.pc \in 2 .. Arity + 2 => /\ Over(M, S0, Arity + 2 - M.pc)
                                /\ \A k \in 1 .. Arity : k > Arity + 2 - M.pc => Saved(M, k)
  /\ M.pc \in Arity + 3 .. 2 * Arity + 4 => \A k \in 1 .. Arity : Saved(M, k)
  /\ M.pc = Arity + 3 => M.stack = S1(Index)
  /\ M.pc > Arity + 3 => Index.value \in Table
  /\ M.pc \in Arity + 4 .. 2 * Arity + 4 => Over(M, S1(Index), M.pc - Arity - 4)
  /\ M.pc = 2 * Arity + 5 => /\ M.stack = S0
                             /\ M.called = <<Index>> \o SubSeq(operands, 1, Arity)

\* Conversions, of one instruction or of two.
TwoConversions == {"EXTEND_I32_U", "TRUNC_F64_U", "CONVERT_I32_U", "CONVERT_I64_U"}
FirstOp == CASE Name = "EXTEND_I32_U" -> "conv.u4"
             [] Name = "TRUNC_F64_U" -> ToUnsignedType
             [] Name \in {"CONVERT_I32_U", "CONVERT_I64_U"} -> "conv.u8"
             [] OTHER -> ToType
SecondOp == IF Name = "EXTEND_I32_U" THEN "conv.i8" ELSE ToType
ConversionAt(M) ==
  /\ M.pc \in 1 .. (IF Name \in TwoConversions THEN 3 ELSE 2) /\ ~M.thrown
  /\ M.pc = 1 => M.stack = S1(a)
  /\ M.pc = 2 => \E z \in Unary(FirstOp, a) : M.stack = S1(z)
  /\ M.pc = 3 => \E z \in Unary(FirstOp, a) : \E y \in Unary(SecondOp, z) : M.stack = S1(y)

Inside(M) ==
  /\ Name \in DOMAIN DirectOf => DirectAt(M)
  /\ Name \in Orders => OrderAt(M)
  /\ Name = "NE" => NEAt(M)
  /\ Name = "EQZ" => EQZAt(M)
  /\ Name = "ABS" => ABSAt(M)
  /\ Name = "COPYSIGN" => COPYSIGNAt(M)
  /\ Name = "SELECT" => SELECTAt(M)
  /\ Name = "LOCAL_GET" => GetAt(M)
  /\ Name = "LOCAL_SET" => SetAt(M)
  /\ Name = "LOCAL_TEE" => TEEAt(M)
  /\ Name = "CALL_INDIRECT" => CallAt(M)
  /\ Name \in Conversions => ConversionAt(M)

IInv == Static /\ Kept(m) /\ Inside(m)

-------------------------------------------------------------------------------
(* What every step needs. *)

LEMMA KeptMoves ==
  ASSUME NEW M, Kept(M), NEW N, NEW s \in Seq(Cell), NEW k \in Nat, Moves(M, N, s, k)
  PROVE  Kept(N) /\ N.stack = s /\ N.pc = k /\ N.thrown = M.thrown /\ N.vars = M.vars /\ N.called = M.called
<1>1. M \in Machine
  BY DEF Kept
<1>2. /\ N \in Machine /\ N.stack = s /\ N.pc = k /\ N.thrown = M.thrown
      /\ N.args = M.args /\ N.vars = M.vars /\ N.called = M.called
  BY <1>1, MovesFacts
<1> QED BY <1>2 DEF Kept

LEMMA KeptThrown ==
  ASSUME NEW M, Kept(M), NEW N, N = Thrown(M)
  PROVE  Kept(N) /\ N.stack = M.stack /\ N.pc = M.pc /\ N.thrown /\ N.vars = M.vars /\ N.called = M.called
<1>1. M \in Machine
  BY DEF Kept
<1>2. /\ N \in Machine /\ N.stack = M.stack /\ N.pc = M.pc /\ N.thrown
      /\ N.args = M.args /\ N.vars = M.vars /\ N.called = M.called
  BY <1>1, ThrownFacts
<1> QED BY <1>2 DEF Kept

\* Storing into a scratch variable of the right type.
LEMMA KeptStores ==
  ASSUME helpers \in MakingOrders, NEW t \in Types, NEW n \in Nat, Has(t, n),
         NEW M, Kept(M), NEW N, NEW s \in Seq(Cell), NEW x \in Cell, x.type = t,
         Stores(M, N, s, getVariable(t, n), x)
  PROVE  /\ Kept(N) /\ N.stack = s /\ N.pc = M.pc + 1 /\ N.thrown = M.thrown /\ N.called = M.called
         /\ N.vars[getVariable(t, n)] = x
         /\ \A v \in Indices : v # getVariable(t, n) => N.vars[v] = M.vars[v]
<1> DEFINE v == getVariable(t, n)
<1>1. v \in Indices /\ v \notin LocalIndices /\ Variables[v + 1] = t
  BY Scratch
<1>2. M \in Machine /\ M.vars \in [Indices -> Cell]
  BY DEF Kept, Machine
<1>3. Stores(M, N, s, v, x)
  OBVIOUS
<1> HIDE DEF v
<1>4. /\ N \in Machine /\ N.stack = s /\ N.pc = M.pc + 1 /\ N.thrown = M.thrown
      /\ N.called = M.called /\ N.args = M.args /\ N.vars = [M.vars EXCEPT ![v] = x]
  BY <1>1, <1>2, <1>3, StoresFacts
<1>5. N.vars[v] = x /\ \A u \in Indices : u # v => N.vars[u] = M.vars[u]
  BY <1>1, <1>2, <1>4
<1>6. \A k \in Indices : N.vars[k].type = Variables[k + 1]
  BY <1>1, <1>5 DEF Kept
<1>7. LocalIndices \subseteq Indices
  BY HelpersAre DEF LocalIndices, Indices
<1>8. \A k \in LocalIndices : N.vars[k] = M.vars[k]
  BY <1>1, <1>5, <1>7
<1>9. Kept(N)
  BY <1>4, <1>6, <1>8 DEF Kept
<1> QED BY <1>4, <1>5, <1>9 DEF v

\* Operands have the types of the instruction.
LEMMA OperandsOf ==
  ASSUME Static, OperandTypes \in Seq(Types)
  PROVE  /\ DOMAIN operands = 1 .. Len(OperandTypes) /\ operands \in Seq(Cell)
         /\ Len(operands) = Len(OperandTypes)
         /\ \A i \in 1 .. Len(OperandTypes) : operands[i] \in Values(OperandTypes[i]) /\ operands[i] \in Cell
                                              /\ operands[i].type = OperandTypes[i]
<1>1. operands \in Operands
  BY DEF Static
<1>2. DOMAIN operands = 1 .. Len(OperandTypes)
  BY <1>1 DEF Operands
<1>3. ASSUME NEW i \in 1 .. Len(OperandTypes)
      PROVE  operands[i] \in Values(OperandTypes[i]) /\ operands[i] \in Cell /\ operands[i].type = OperandTypes[i]
  <2>1. operands[i] \in UNION {Values(OperandTypes[j]) : j \in DOMAIN OperandTypes}
    BY <1>1, <1>2 DEF Operands
  <2>2. PICK j \in DOMAIN OperandTypes : operands[i] \in Values(OperandTypes[j])
    BY <2>1
  <2>3. operands[i].type = OperandTypes[i]
    BY <1>1, <1>2 DEF Operands
  <2>4. OperandTypes[j] \in Types
    OBVIOUS
  <2>5. operands[i].type = OperandTypes[j] /\ operands[i] \in Cell
    BY <2>2, <2>4, ValuesAre
  <2> QED BY <2>2, <2>3, <2>5
<1>4. Len(OperandTypes) \in Nat
  OBVIOUS
<1>5. operands = [i \in 1 .. Len(OperandTypes) |-> operands[i]]
  BY <1>1 DEF Operands
<1>6. operands \in [1 .. Len(OperandTypes) -> Cell]
  BY <1>3, <1>5
<1>7. operands \in Seq(Cell) /\ Len(operands) = Len(OperandTypes)
  BY <1>4, <1>6
<1> QED BY <1>2, <1>3, <1>7

\* Which types an instruction has.
LEMMA TypeIs ==
  ASSUME Static
  PROVE  /\ Type \in Types
         /\ Name \in IntInstrs \cup {"EQZ"} => Type \in IntTypes
         /\ Name \in FloatInstrs => Type \in FloatTypes
         /\ Name \in {"CONVERT_I32_S", "CONVERT_I32_U", "CONVERT_I64_S", "CONVERT_I64_U"} => Type \in FloatTypes
         /\ Name \in {"TRUNC_F32_S", "TRUNC_F32_U", "TRUNC_F64_S", "TRUNC_F64_U"} => Type \in IntTypes
         /\ Name \in {"TRUNC_F32_S", "TRUNC_F32_U"} => Type = "i32"
         /\ Name \in {"EXTEND_I32_S", "EXTEND_I32_U"} => Type = "i64"
         /\ Name \in {"WRAP_I64", "CALL_INDIRECT"} => Type = "i32"
         /\ \/ Name \in IntInstrs \cup FloatInstrs \cup Conversions
            \/ Name \in {"EQZ", "NE", "SELECT", "LOCAL_GET", "LOCAL_SET", "LOCAL_TEE", "CALL_INDIRECT"}
<1>1. instr \in Supported
  BY InstrsAssumption DEF Static
<1> QED BY <1>1 DEF Supported, IntInstrs, FloatInstrs, IntTypes, FloatTypes, Types, Type, Name, Conversions

TwoOperands == Name \in IntInstrs \cup {"GE", "LE", "COPYSIGN", "NE"}
OneOperand == Name \in {"ABS", "EQZ", "LOCAL_SET", "LOCAL_TEE"}

LEMMA TwoAre ==
  ASSUME Static, TwoOperands
  PROVE  /\ OperandTypes = <<Type, Type>>
         /\ a \in Values(Type) /\ b \in Values(Type) /\ a \in Cell /\ b \in Cell /\ a.type = Type /\ b.type = Type
         /\ operands = <<a, b>>
<1>1. OperandTypes = <<Type, Type>>
  BY Zenon DEF OperandTypes, TwoOperands, IntInstrs, Conversions
<1>2. OperandTypes \in Seq(Types) /\ Len(OperandTypes) = 2 /\ OperandTypes[1] = Type /\ OperandTypes[2] = Type
  BY <1>1, TypeIs
<1>3. operands \in Seq(Cell) /\ Len(operands) = 2
  BY <1>2, OperandsOf
<1>4. operands = <<a, b>>
  BY <1>3 DEF a, b
<1>5. PICK i, j \in 1 .. 2 : i = 1 /\ j = 2
  OBVIOUS
<1>6. /\ operands[i] \in Values(OperandTypes[i]) /\ operands[i] \in Cell /\ operands[i].type = OperandTypes[i]
      /\ operands[j] \in Values(OperandTypes[j]) /\ operands[j] \in Cell /\ operands[j].type = OperandTypes[j]
  BY <1>2, <1>5, OperandsOf
<1> QED BY <1>1, <1>2, <1>4, <1>5, <1>6 DEF a, b

LEMMA OneIs ==
  ASSUME Static, OneOperand
  PROVE  /\ OperandTypes = <<Type>>
         /\ a \in Values(Type) /\ a \in Cell /\ a.type = Type /\ operands = <<a>>
<1>1. OperandTypes = <<Type>>
  BY Zenon DEF OperandTypes, OneOperand, Conversions
<1>2. OperandTypes \in Seq(Types) /\ Len(OperandTypes) = 1 /\ OperandTypes[1] = Type
  BY <1>1, TypeIs
<1>3. operands \in Seq(Cell) /\ Len(operands) = 1
  BY <1>2, OperandsOf
<1>4. operands = <<a>>
  BY <1>3 DEF a
<1>5. PICK i \in 1 .. 1 : i = 1
  OBVIOUS
<1>6. operands[i] \in Values(OperandTypes[i]) /\ operands[i] \in Cell /\ operands[i].type = OperandTypes[i]
  BY <1>2, <1>5, OperandsOf
<1> QED BY <1>1, <1>2, <1>4, <1>5, <1>6 DEF a

LEMMA ConvertedIs ==
  ASSUME Static, Name \in Conversions
  PROVE  /\ OperandTypes = <<Source>> /\ Source \in Types
         /\ a \in Values(Source) /\ a \in Cell /\ a.type = Source /\ operands = <<a>>
<1>1. OperandTypes = <<Source>>
  BY Zenon DEF OperandTypes, Conversions
<1>0. Source \in Types
  <2>1. Source \in {"i32", "i64", "f32", "f64"}
    BY Zenon DEF Source, Conversions
  <2> QED BY <2>1 DEF Types, IntTypes, FloatTypes
<1>2. OperandTypes \in Seq(Types) /\ Len(OperandTypes) = 1 /\ OperandTypes[1] = Source
  BY <1>0, <1>1
<1>3. operands \in Seq(Cell) /\ Len(operands) = 1
  BY <1>2, OperandsOf
<1>4. operands = <<a>>
  BY <1>3 DEF a
<1>5. PICK i \in 1 .. 1 : i = 1
  OBVIOUS
<1>6. operands[i] \in Values(OperandTypes[i]) /\ operands[i] \in Cell /\ operands[i].type = OperandTypes[i]
  BY <1>2, <1>5, OperandsOf
<1> QED BY <1>0, <1>1, <1>2, <1>4, <1>5, <1>6 DEF a

\* The scratch variables of an instruction's own type.
LEMMA OneScratch ==
  ASSUME Static, UsesOne
  PROVE  helpers \in MakingOrders /\ Type \in Types /\ Has(Type, 0) /\ V0 \in Indices
<1>1. helpers \in MakingOrders /\ Type \in Types /\ Asked \subseteq Range(helpers)
  BY TypeIs DEF Static
<1>2. <<Type, 0>> \in Asked
  BY AskedIs DEF UsesOne
<1>3. Has(Type, 0)
  BY <1>1, <1>2, AskedFor
<1>4. PICK n \in Nat : n = 0
  OBVIOUS
<1>5. getVariable(Type, n) \in Indices
  BY <1>1, <1>3, <1>4, Scratch
<1> QED BY <1>1, <1>3, <1>4, <1>5 DEF V0

LEMMA OwnScratch ==
  ASSUME Static, UsesTwo
  PROVE  /\ helpers \in MakingOrders /\ Type \in Types /\ Has(Type, 0) /\ Has(Type, 1)
         /\ V0 \in Indices /\ V1 \in Indices /\ V0 # V1
<1>1. helpers \in MakingOrders /\ Type \in Types /\ Asked \subseteq Range(helpers) /\ Has(Type, 0)
  BY OneScratch DEF Static, UsesOne
<1>2. <<Type, 1>> \in Asked
  BY AskedIs
<1>3. Has(Type, 1)
  BY <1>1, <1>2, AskedFor
<1>4. PICK n, k \in Nat : n = 0 /\ k = 1
  OBVIOUS
<1>5. Has(Type, n) /\ Has(Type, k) /\ n # k
  BY <1>1, <1>3, <1>4
<1>6. /\ getVariable(Type, n) \in Indices /\ getVariable(Type, k) \in Indices
      /\ getVariable(Type, n) # getVariable(Type, k)
  BY <1>1, <1>5, Scratch, ScratchDiffer
<1> QED BY <1>1, <1>3, <1>4, <1>6 DEF V0, V1

-------------------------------------------------------------------------------
(* Every step of the code of an instruction keeps the invariant.  M is the     *)
(* machine before the step and N the machine after it. *)

LEMMA DirectNames == DOMAIN DirectOf = {"DIV_S", "REM_S", "SHL", "SHR_S", "SHR_U"}
BY DEF DirectOf

\* GE and LE.
LEMMA OrderCode ==
  ASSUME Name \in Orders
  PROVE  /\ Len(Code) = 9
         /\ Code[1] = <<"stloc", V0>> /\ Code[2] = <<"stloc", V1>>
         /\ Code[3] = <<"ldloc", V1>> /\ Code[4] = <<"ldloc", V0>> /\ Code[5] = <<"ceq", 0>>
         /\ Code[6] = <<"ldloc", V1>> /\ Code[7] = <<"ldloc", V0>> /\ Code[8] = <<cmp, 0>>
         /\ Code[9] = <<"or", 0>>
<1>1. Name \notin DOMAIN DirectOf
  BY DirectNames DEF Orders
<1>2. Code = EmitOrder
  BY <1>1, Zenon DEF Code, Orders, Conversions
<1>3. Code = <<<<"stloc", V0>>, <<"stloc", V1>>, <<"ldloc", V1>>, <<"ldloc", V0>>, <<"ceq", 0>>,
               <<"ldloc", V1>>, <<"ldloc", V0>>, <<cmp, 0>>, <<"or", 0>>>>
  BY <1>2 DEF EmitOrder, V0, V1
<1> QED BY <1>3

LEMMA OrderedIs ==
  ASSUME Name \in Orders
  PROVE  /\ cmp \in BinaryOps /\ Ordered \in BOOLEAN /\ Binary(cmp, a, b) = {Cmp}
<1>1. /\ Less(a, b) \in BOOLEAN /\ LessUn(a, b) \in BOOLEAN
      /\ Less(b, a) \in BOOLEAN /\ LessUn(b, a) \in BOOLEAN
  BY ComparisonsAre
<1>2. CASE Name \in {"LE", "LE_S"}
  <2>1. cmp = "clt" /\ Ordered = Less(a, b)
    BY <1>2, Zenon DEF cmp, Ordered
  <2>2. Binary("clt", a, b) = {Bool(Less(a, b))}
    BY Zenon DEF Binary
  <2> QED BY <1>1, <2>1, <2>2, Zenon DEF Cmp, BinaryOps
<1>3. CASE Name = "LE_U"
  <2>1. cmp = "clt.un" /\ Ordered = LessUn(a, b)
    BY <1>3, Zenon DEF cmp, Ordered
  <2>2. Binary("clt.un", a, b) = {Bool(LessUn(a, b))}
    BY Zenon DEF Binary
  <2> QED BY <1>1, <2>1, <2>2, Zenon DEF Cmp, BinaryOps
<1>4. CASE Name \in {"GE", "GE_S"}
  <2>1. cmp = "cgt" /\ Ordered = Less(b, a)
    BY <1>4, Zenon DEF cmp, Ordered
  <2>2. Binary("cgt", a, b) = {Bool(Less(b, a))}
    BY Zenon DEF Binary
  <2> QED BY <1>1, <2>1, <2>2, Zenon DEF Cmp, BinaryOps
<1>5. CASE Name = "GE_U"
  <2>1. cmp = "cgt.un" /\ Ordered = LessUn(b, a)
    BY <1>5, Zenon DEF cmp, Ordered
  <2>2. Binary("cgt.un", a, b) = {Bool(LessUn(b, a))}
    BY Zenon DEF Binary
  <2> QED BY <1>1, <2>1, <2>2, Zenon DEF Cmp, BinaryOps
<1> QED BY <1>2, <1>3, <1>4, <1>5 DEF Orders

LEMMA CeqIs ==
  ASSUME NEW x, NEW y
  PROVE  "ceq" \in BinaryOps /\ Binary("ceq", x, y) = {Bool(Equal(x, y))} /\ Bool(Equal(x, y)) \in Cell
<1>1. Binary("ceq", x, y) = {Bool(Equal(x, y))}
  BY Zenon DEF Binary
<1>2. Bool(Equal(x, y)) \in Cell
  BY ComparisonsAre, BoolIn
<1> QED BY <1>1, <1>2 DEF BinaryOps

\* "or" of the results of two comparisons.
LEMMA OrIs ==
  ASSUME NEW p \in BOOLEAN, NEW q \in BOOLEAN
  PROVE  "or" \in BinaryOps /\ Binary("or", Bool(p), Bool(q)) = {Bool(p \/ q)}
<1>1. Binary("or", Bool(p), Bool(q)) = {Bool(Bool(p).value = 1 \/ Bool(q).value = 1)}
  BY Zenon DEF Binary
<1>2. Bool(p).value = 1 <=> p
  BY BoolIs
<1>3. Bool(q).value = 1 <=> q
  BY BoolIs
<1>4. (Bool(p).value = 1 \/ Bool(q).value = 1) = (p \/ q)
  BY <1>2, <1>3
<1> QED BY <1>1, <1>4, Zenon DEF BinaryOps

\* The machine N is M with another stack and position, and all that is kept.
Became(M, N, s, k) ==
  /\ Kept(N) /\ N.stack = s /\ N.pc = k
  /\ N.thrown = M.thrown /\ N.vars = M.vars /\ N.called = M.called

LEMMA ToMoved ==
  ASSUME NEW M, Kept(M), NEW N, NEW s \in Seq(Cell), NEW k \in Nat, Moves(M, N, s, k)
  PROVE  Became(M, N, s, k)
BY KeptMoves DEF Became

LEMMA MachineOf ==
  ASSUME NEW M, Kept(M)
  PROVE  M \in Machine /\ M.pc \in Nat /\ M.pc + 1 \in Nat /\ M.stack \in Seq(Cell)
BY DEF Kept, Machine

LEMMA ToBinary ==
  ASSUME NEW M, Kept(M), NEW s \in Seq(Cell), NEW x \in Cell, NEW y \in Cell, M.stack = Append(Append(s, x), y),
         NEW op \in BinaryOps, NEW arg, NEW z \in Cell, Binary(op, x, y) = {z}, NEW N \in Step(<<op, arg>>, M)
  PROVE  Became(M, N, Append(s, z), M.pc + 1)
<1>0. \/ Binary(op, x, y) = {} /\ N = Thrown(M)
      \/ \E r \in Binary(op, x, y) : Moves(M, N, Append(s, r), M.pc + 1)
  BY MachineOf, BinaryStep
<1>1. Moves(M, N, Append(s, z), M.pc + 1)
  BY <1>0
<1> QED BY <1>1, MachineOf, Pushed, ToMoved

LEMMA ToUnary ==
  ASSUME NEW M, Kept(M), NEW s \in Seq(Cell), NEW x \in Cell, M.stack = Append(s, x),
         NEW op \in UnaryOps, NEW arg, NEW z \in Cell, Unary(op, x) = {z}, NEW N \in Step(<<op, arg>>, M)
  PROVE  Became(M, N, Append(s, z), M.pc + 1)
<1>0. \/ Unary(op, x) = {} /\ N = Thrown(M)
      \/ \E r \in Unary(op, x) : Moves(M, N, Append(s, r), M.pc + 1)
  BY MachineOf, UnaryStep
<1>1. Moves(M, N, Append(s, z), M.pc + 1)
  BY <1>0
<1> QED BY <1>1, MachineOf, Pushed, ToMoved

LEMMA ToNop ==
  ASSUME NEW M, Kept(M), NEW arg, NEW N \in Step(<<"nop", arg>>, M)
  PROVE  Became(M, N, M.stack, M.pc + 1)
<1>1. Moves(M, N, M.stack, M.pc + 1)
  BY MachineOf, NopStep
<1> QED BY <1>1, MachineOf, ToMoved

LEMMA ToDup ==
  ASSUME NEW M, Kept(M), NEW s \in Seq(Cell), NEW x \in Cell, M.stack = Append(s, x),
         NEW arg, NEW N \in Step(<<"dup", arg>>, M)
  PROVE  Became(M, N, Append(M.stack, x), M.pc + 1)
<1>1. Moves(M, N, Append(Append(s, x), x), M.pc + 1)
  BY MachineOf, DupStep
<1> QED BY <1>1, MachineOf, Pushed, ToMoved

LEMMA ToPop ==
  ASSUME NEW M, Kept(M), NEW s \in Seq(Cell), NEW x \in Cell, M.stack = Append(s, x),
         NEW arg, NEW N \in Step(<<"pop", arg>>, M)
  PROVE  Became(M, N, s, M.pc + 1)
<1>1. Moves(M, N, s, M.pc + 1)
  BY MachineOf, PopStep
<1> QED BY <1>1, MachineOf, ToMoved

LEMMA ToLdc ==
  ASSUME NEW M, Kept(M), NEW x \in Cell, NEW N \in Step(<<"ldc", x>>, M)
  PROVE  Became(M, N, Append(M.stack, x), M.pc + 1)
<1>1. Moves(M, N, Append(M.stack, x), M.pc + 1)
  BY MachineOf, LdcStep
<1> QED BY <1>1, MachineOf, Pushed, ToMoved

LEMMA ToLdloc ==
  ASSUME NEW M, Kept(M), NEW v, NEW x \in Cell, M.vars[v] = x, NEW N \in Step(<<"ldloc", v>>, M)
  PROVE  Became(M, N, Append(M.stack, x), M.pc + 1)
<1>1. Moves(M, N, Append(M.stack, x), M.pc + 1)
  BY MachineOf, LdlocStep
<1> QED BY <1>1, MachineOf, Pushed, ToMoved

LEMMA ToLdarg ==
  ASSUME NEW M, Kept(M), NEW v, NEW x \in Cell, M.args[v] = x, NEW N \in Step(<<"ldarg", v>>, M)
  PROVE  Became(M, N, Append(M.stack, x), M.pc + 1)
<1>1. Moves(M, N, Append(M.stack, x), M.pc + 1)
  BY MachineOf, LdargStep
<1> QED BY <1>1, MachineOf, Pushed, ToMoved

LEMMA ToBr ==
  ASSUME NEW M, Kept(M), NEW k \in Nat, NEW N \in Step(<<"br", k>>, M)
  PROVE  Became(M, N, M.stack, k)
<1>1. Moves(M, N, M.stack, k)
  BY MachineOf, BrStep
<1> QED BY <1>1, MachineOf, ToMoved

LEMMA ToBrfalse ==
  ASSUME NEW M, Kept(M), NEW s \in Seq(Cell), NEW x \in Cell, M.stack = Append(s, x),
         NEW k \in Nat, NEW N \in Step(<<"brfalse", k>>, M)
  PROVE  Became(M, N, s, IF x.value = 0 THEN k ELSE M.pc + 1)
<1> DEFINE to == IF x.value = 0 THEN k ELSE M.pc + 1
<1>1. Moves(M, N, s, to)
  BY MachineOf, BrfalseStep
<1>2. to \in Nat
  BY MachineOf
<1> HIDE DEF to
<1>3. Became(M, N, s, to)
  BY <1>1, <1>2, ToMoved
<1> QED BY <1>3 DEF to

\* The machine N is M with x taken from the stack and put into the scratch variable v.
Took(M, N, s, v, x) ==
  /\ Kept(N) /\ N.stack = s /\ N.pc = M.pc + 1
  /\ N.thrown = M.thrown /\ N.called = M.called
  /\ N.vars[v] = x /\ \A k \in Indices : k # v => N.vars[k] = M.vars[k]

LEMMA ToStloc ==
  ASSUME helpers \in MakingOrders, NEW t \in Types, NEW n \in Nat, Has(t, n), NEW v, v = getVariable(t, n),
         NEW M, Kept(M), NEW s \in Seq(Cell), NEW x \in Cell, x.type = t,
         M.stack = Append(s, x), NEW N \in Step(<<"stloc", v>>, M)
  PROVE  Took(M, N, s, v, x)
<1>1. Stores(M, N, s, v, x)
  BY MachineOf, StlocStep
<1>2. Stores(M, N, s, getVariable(t, n), x)
  BY <1>1, Zenon
<1>3. /\ Kept(N) /\ N.stack = s /\ N.pc = M.pc + 1 /\ N.thrown = M.thrown /\ N.called = M.called
      /\ N.vars[getVariable(t, n)] = x
      /\ \A k \in Indices : k # getVariable(t, n) => N.vars[k] = M.vars[k]
  BY <1>2, KeptStores
<1> QED BY <1>3, Zenon DEF Took

LEMMA ToV0 ==
  ASSUME Static, UsesOne, NEW M, Kept(M), NEW s \in Seq(Cell), NEW x \in Cell, x.type = Type,
         M.stack = Append(s, x), NEW N \in Step(<<"stloc", V0>>, M)
  PROVE  Took(M, N, s, V0, x)
<1>1. PICK n \in Nat : n = 0
  OBVIOUS
<1>2. V0 = getVariable(Type, n) /\ Has(Type, n) /\ Type \in Types /\ helpers \in MakingOrders
  BY <1>1, OneScratch DEF V0
<1> QED BY <1>2, ToStloc

LEMMA ToV1 ==
  ASSUME Static, UsesTwo, NEW M, Kept(M), NEW s \in Seq(Cell), NEW x \in Cell, x.type = Type,
         M.stack = Append(s, x), NEW N \in Step(<<"stloc", V1>>, M)
  PROVE  Took(M, N, s, V1, x)
<1>1. PICK n \in Nat : n = 1
  OBVIOUS
<1>2. V1 = getVariable(Type, n) /\ Has(Type, n) /\ Type \in Types /\ helpers \in MakingOrders
  BY <1>1, OwnScratch DEF V1
<1> QED BY <1>2, ToStloc

LEMMA OrderStep ==
  ASSUME Static, Name \in Orders, NEW M, Kept(M), OrderAt(M), M.pc <= Len(Code), NEW N \in Step(Code[M.pc], M)
  PROVE  Kept(N) /\ OrderAt(N)
<1>0. UsesOne /\ UsesTwo
  BY DEF UsesOne, UsesTwo
<1>1. TwoOperands
  BY DEF Orders, TwoOperands, IntInstrs
<1>2. a \in Cell /\ b \in Cell /\ a.type = Type /\ b.type = Type
  BY <1>1, TwoAre
<1>3. Len(Code) = 9 /\ M.pc \in 1 .. 9
  <2>1. Len(Code) = 9
    BY OrderCode
  <2> QED BY <2>1 DEF OrderAt
<1>4. Eq \in Cell /\ Cmp \in Cell /\ Ordered \in BOOLEAN /\ Equal(a, b) \in BOOLEAN
  BY CeqIs, OrderedIs, BoolIn, ComparisonsAre DEF Eq, Cmp
<1>5. /\ S0 \in Seq(Cell) /\ S1(a) \in Seq(Cell) /\ S1(Eq) \in Seq(Cell)
      /\ S1(a) = Append(S0, a) /\ S2(a, b) = Append(S1(a), b)
      /\ S1(Eq) = Append(S0, Eq) /\ S2(Eq, a) = Append(S1(Eq), a) /\ S3(Eq, a, b) = Append(S2(Eq, a), b)
      /\ S2(Eq, Cmp) = Append(S1(Eq), Cmp)
  BY <1>2, <1>4, BottomIs, StackOf1, StackOf2, StackOf3
<1>6. CASE M.pc = 1
  <2>1. N \in Step(<<"stloc", V0>>, M) /\ M.stack = Append(S1(a), b)
    BY <1>5, <1>6, OrderCode DEF OrderAt
  <2>2. Took(M, N, S1(a), V0, b)
    BY <1>2, <1>5, <2>1, <1>0, ToV0
  <2> QED BY <1>6, <2>2 DEF OrderAt, Took
<1>7. CASE M.pc = 2
  <2>0. N \in Step(<<"stloc", V1>>, M)
    BY <1>7, OrderCode
  <2>1. M.stack = Append(S0, a)
    BY <1>5, <1>7 DEF OrderAt
  <2>2. Took(M, N, S0, V1, a)
    BY <1>2, <1>5, <2>0, <2>1, <1>0, ToV1
  <2> QED BY <1>7, <1>0, <2>2, OwnScratch DEF OrderAt, Took
<1>8. CASE M.pc = 3
  <2>1. N \in Step(<<"ldloc", V1>>, M) /\ M.stack = S0 /\ M.vars[V1] = a
    BY <1>8, OrderCode DEF OrderAt
  <2>2. Became(M, N, Append(M.stack, a), M.pc + 1)
    BY <1>2, <2>1, ToLdloc
  <2> QED BY <1>5, <1>8, <2>1, <2>2 DEF OrderAt, Became
<1>9. CASE M.pc = 4
  <2>0. N \in Step(<<"ldloc", V0>>, M)
    BY <1>9, OrderCode
  <2>1. N \in Step(<<"ldloc", V0>>, M) /\ M.stack = S1(a) /\ M.vars[V0] = b
    BY <1>9, <2>0 DEF OrderAt
  <2>2. Became(M, N, Append(M.stack, b), M.pc + 1)
    BY <1>2, <2>1, ToLdloc
  <2> QED BY <1>5, <1>9, <2>1, <2>2 DEF OrderAt, Became
<1>10. CASE M.pc = 5
  <2>1. N \in Step(<<"ceq", 0>>, M) /\ M.stack = Append(Append(S0, a), b)
    BY <1>5, <1>10, OrderCode DEF OrderAt
  <2>2. "ceq" \in BinaryOps /\ Binary("ceq", a, b) = {Eq}
    BY CeqIs DEF Eq
  <2>3. Became(M, N, Append(S0, Eq), M.pc + 1)
    BY <1>2, <1>4, <1>5, <2>1, <2>2, ToBinary
  <2> QED BY <1>5, <1>10, <2>3 DEF OrderAt, Became
<1>11. CASE M.pc = 6
  <2>1. N \in Step(<<"ldloc", V1>>, M) /\ M.stack = S1(Eq) /\ M.vars[V1] = a
    BY <1>11, OrderCode DEF OrderAt
  <2>2. Became(M, N, Append(M.stack, a), M.pc + 1)
    BY <1>2, <2>1, ToLdloc
  <2> QED BY <1>5, <1>11, <2>1, <2>2 DEF OrderAt, Became
<1>12. CASE M.pc = 7
  <2>0. N \in Step(<<"ldloc", V0>>, M)
    BY <1>12, OrderCode
  <2>1. N \in Step(<<"ldloc", V0>>, M) /\ M.stack = S2(Eq, a) /\ M.vars[V0] = b
    BY <1>12, <2>0 DEF OrderAt
  <2>2. Became(M, N, Append(M.stack, b), M.pc + 1)
    BY <1>2, <2>1, ToLdloc
  <2> QED BY <1>5, <1>12, <2>1, <2>2 DEF OrderAt, Became
<1>13. CASE M.pc = 8
  <2>1. N \in Step(<<cmp, 0>>, M) /\ M.stack = Append(Append(S1(Eq), a), b)
    BY <1>5, <1>13, OrderCode DEF OrderAt
  <2>2. Became(M, N, Append(S1(Eq), Cmp), M.pc + 1)
    BY <1>2, <1>4, <1>5, <2>1, OrderedIs, ToBinary
  <2> QED BY <1>5, <1>13, <2>2 DEF OrderAt, Became
<1>14. CASE M.pc = 9
  <2> DEFINE r == Bool(Equal(a, b) \/ Ordered)
  <2>1. N \in Step(<<"or", 0>>, M) /\ M.stack = Append(Append(S0, Eq), Cmp)
    BY <1>5, <1>14, OrderCode DEF OrderAt
  <2>2. "or" \in BinaryOps /\ Binary("or", Eq, Cmp) = {r} /\ r \in Cell
    BY <1>4, OrIs, BoolIn DEF Eq, Cmp
  <2> HIDE DEF r
  <2>3. Became(M, N, Append(S0, r), M.pc + 1) /\ S1(r) = Append(S0, r)
    BY <1>4, <1>5, <2>1, <2>2, ToBinary, StackOf1
  <2> QED BY <1>14, <2>3 DEF OrderAt, Became, r
<1> QED BY <1>3, <1>6, <1>7, <1>8, <1>9, <1>10, <1>11, <1>12, <1>13, <1>14

\* The constants the code compares with.
LEMMA ZeroIs ==
  /\ I32Zero \in Cell /\ I32Zero.type = "i32" /\ I32Zero.value = 0
  /\ Type \in IntTypes => Zero \in Cell /\ Zero.type = Type /\ Zero.value = 0
  /\ Type \in FloatTypes => /\ Zero \in Cell /\ Zero.type = Type
                             /\ Zero.value.neg = FALSE /\ Zero.value.mag = 0
<1>1. ASSUME NEW t \in IntTypes
      PROVE  IntOf(t, 0) \in Cell /\ IntOf(t, 0).type = t /\ IntOf(t, 0).value = 0
  <2>1. PICK n \in Int : n = 0
    OBVIOUS
  <2>2. Half(t) \in Nat /\ Half(t) >= 2
    BY HalfFacts
  <2>3. n >= -Half(t) /\ n < 2 * Half(t) /\ ~(n >= Half(t))
    BY <2>1, <2>2
  <2>4. Int2(n, t) = n
    BY <2>3, Int2Small
  <2> QED BY <2>1, <2>4, IntOfIs
<1>2. I32Zero \in Cell /\ I32Zero.type = "i32" /\ I32Zero.value = 0
  BY <1>1, TypesAre DEF I32Zero
<1>3. Type \in IntTypes => Zero \in Cell /\ Zero.type = Type /\ Zero.value = 0
  BY <1>1 DEF Zero
<1>4. ASSUME Type \in FloatTypes
      PROVE  Zero \in Cell /\ Zero.type = Type /\ Zero.value.neg = FALSE /\ Zero.value.mag = 0
  <2>1. Zero = [type |-> Type, value |-> [neg |-> FALSE, mag |-> 0]]
    BY <1>4, TypesAre DEF Zero, Float
  <2> QED BY <2>1, <1>4, TypesAre DEF Cell, Value
<1> QED BY <1>2, <1>3, <1>4

\* Comparing an integer with zero.
LEMMA EqualZero ==
  ASSUME NEW x, x.type \in IntTypes, NEW z, z.type \in IntTypes, z.value = 0
  PROVE  Equal(x, z) = (x.value = 0)
<1>1. ~Unordered(x, z)
  BY TypesAre DEF Unordered, IsNaN
<1> QED BY <1>1 DEF Equal, Number

\* NE: not equal is equality with the zero that equality gives.
LEMMA NECode ==
  ASSUME Name = "NE"
  PROVE  /\ Len(Code) = 3
         /\ Code[1] = <<"ceq", 0>>
         /\ Code[2] = <<"ldc", I32Zero>>
         /\ Code[3] = <<"ceq", 0>>
<1>1. Name \notin DOMAIN DirectOf
  BY DirectNames
<1>2. Code = EmitNE
  BY <1>1, Zenon DEF Code, Orders, Conversions
<1>3. Code = <<<<"ceq", 0>>, <<"ldc", I32Zero>>, <<"ceq", 0>>>>
  BY <1>2 DEF EmitNE
<1> QED BY <1>3

LEMMA NEStep ==
  ASSUME Static, Name = "NE", NEW M, Kept(M), NEAt(M), M.pc <= Len(Code), NEW N \in Step(Code[M.pc], M)
  PROVE  Kept(N) /\ NEAt(N)
<1>1. a \in Cell /\ b \in Cell
  BY TwoAre DEF TwoOperands
<1>2. Eq \in Cell /\ I32Zero \in Cell /\ "ceq" \in BinaryOps /\ Binary("ceq", a, b) = {Eq}
  BY CeqIs, ZeroIs DEF Eq
<1>3. /\ S0 \in Seq(Cell) /\ S1(a) = Append(S0, a) /\ S2(a, b) = Append(S1(a), b)
      /\ S1(Eq) = Append(S0, Eq) /\ S2(Eq, I32Zero) = Append(S1(Eq), I32Zero)
  BY <1>1, <1>2, BottomIs, StackOf1, StackOf2
<1>4. Binary("ceq", Eq, I32Zero) = {Bool(~Equal(a, b))} /\ Bool(~Equal(a, b)) \in Cell
  <2>1. Equal(a, b) \in BOOLEAN
    BY ComparisonsAre
  <2>2. Eq.type = "i32" /\ (Eq.value = 0 <=> ~Equal(a, b))
    BY <2>1, BoolIs DEF Eq
  <2>3. Equal(Eq, I32Zero) = (Eq.value = 0)
    BY <2>2, ZeroIs, EqualZero, TypesAre
  <2>4. Equal(Eq, I32Zero) = ~Equal(a, b)
    BY <2>2, <2>3
  <2>5. Binary("ceq", Eq, I32Zero) = {Bool(Equal(Eq, I32Zero))}
    BY CeqIs
  <2> QED BY <2>4, <2>5, BoolIn, Zenon
<1>5. S1(Bool(~Equal(a, b))) = Append(S0, Bool(~Equal(a, b)))
  BY <1>4, StackOf1
<1>6. Len(Code) = 3 /\ M.pc \in 1 .. 3
  <2>1. Len(Code) = 3
    BY NECode
  <2> QED BY <2>1 DEF NEAt
<1>7. CASE M.pc = 1
  <2>1. N \in Step(<<"ceq", 0>>, M)
    BY <1>7, NECode
  <2>2. M.stack = Append(Append(S0, a), b)
    BY <1>1, <1>2, <1>3, <1>4, <1>5, <1>7 DEF NEAt
  <2>3. Became(M, N, Append(S0, Eq), M.pc + 1)
    BY <1>1, <1>2, <1>3, <1>4, <1>5, <2>1, <2>2, ToBinary
  <2> QED BY <1>1, <1>2, <1>3, <1>4, <1>5, <1>7, <2>2, <2>3 DEF NEAt, Became, Took
<1>8. CASE M.pc = 2
  <2>1. N \in Step(<<"ldc", I32Zero>>, M)
    BY <1>8, NECode
  <2>2. M.stack = S1(Eq)
    BY <1>1, <1>2, <1>3, <1>4, <1>5, <1>8 DEF NEAt
  <2>3. Became(M, N, Append(M.stack, I32Zero), M.pc + 1)
    BY <1>1, <1>2, <1>3, <1>4, <1>5, <2>1, <2>2, ToLdc
  <2> QED BY <1>1, <1>2, <1>3, <1>4, <1>5, <1>8, <2>2, <2>3 DEF NEAt, Became, Took
<1>9. CASE M.pc = 3
  <2>1. N \in Step(<<"ceq", 0>>, M)
    BY <1>9, NECode
  <2>2. M.stack = Append(Append(S0, Eq), I32Zero)
    BY <1>1, <1>2, <1>3, <1>4, <1>5, <1>9 DEF NEAt
  <2>3. Became(M, N, Append(S0, Bool(~Equal(a, b))), M.pc + 1)
    BY <1>1, <1>2, <1>3, <1>4, <1>5, <2>1, <2>2, ToBinary
  <2> QED BY <1>1, <1>2, <1>3, <1>4, <1>5, <1>9, <2>2, <2>3 DEF NEAt, Became, Took
<1> QED BY <1>6, <1>7, <1>8, <1>9

\* EQZ.
LEMMA EQZCode ==
  ASSUME Name = "EQZ"
  PROVE  /\ Len(Code) = 2
         /\ Code[1] = <<"ldc", Zero>>
         /\ Code[2] = <<"ceq", 0>>
<1>1. Name \notin DOMAIN DirectOf
  BY DirectNames
<1>2. Code = EmitEQZ
  BY <1>1, Zenon DEF Code, Orders, Conversions
<1>3. Code = <<<<"ldc", Zero>>, <<"ceq", 0>>>>
  BY <1>2 DEF EmitEQZ
<1> QED BY <1>3

LEMMA EQZStep ==
  ASSUME Static, Name = "EQZ", NEW M, Kept(M), EQZAt(M), M.pc <= Len(Code), NEW N \in Step(Code[M.pc], M)
  PROVE  Kept(N) /\ EQZAt(N)
<1>1. a \in Cell /\ a.type \in IntTypes /\ Zero \in Cell /\ Zero.type \in IntTypes /\ Zero.value = 0
  BY OneIs, TypeIs, ZeroIs DEF OneOperand
<1>2. S0 \in Seq(Cell) /\ S1(a) = Append(S0, a) /\ S2(a, Zero) = Append(S1(a), Zero)
  BY <1>1, BottomIs, StackOf1, StackOf2
<1>3. "ceq" \in BinaryOps /\ Binary("ceq", a, Zero) = {Bool(a.value = 0)} /\ Bool(a.value = 0) \in Cell
  <2>1. Equal(a, Zero) = (a.value = 0)
    BY <1>1, EqualZero
  <2> QED BY <2>1, CeqIs, Zenon
<1>4. S1(Bool(a.value = 0)) = Append(S0, Bool(a.value = 0))
  BY <1>3, StackOf1
<1>5. Len(Code) = 2 /\ M.pc \in 1 .. 2
  <2>1. Len(Code) = 2
    BY EQZCode
  <2> QED BY <2>1 DEF EQZAt
<1>6. CASE M.pc = 1
  <2>1. N \in Step(<<"ldc", Zero>>, M)
    BY <1>6, EQZCode
  <2>2. M.stack = S1(a)
    BY <1>1, <1>2, <1>3, <1>4, <1>6 DEF EQZAt
  <2>3. Became(M, N, Append(M.stack, Zero), M.pc + 1)
    BY <1>1, <1>2, <1>3, <1>4, <2>1, <2>2, ToLdc
  <2> QED BY <1>1, <1>2, <1>3, <1>4, <1>6, <2>2, <2>3 DEF EQZAt, Became, Took
<1>7. CASE M.pc = 2
  <2>1. N \in Step(<<"ceq", 0>>, M)
    BY <1>7, EQZCode
  <2>2. M.stack = Append(Append(S0, a), Zero)
    BY <1>1, <1>2, <1>3, <1>4, <1>7 DEF EQZAt
  <2>3. Became(M, N, Append(S0, Bool(a.value = 0)), M.pc + 1)
    BY <1>1, <1>2, <1>3, <1>4, <2>1, <2>2, ToBinary
  <2> QED BY <1>1, <1>2, <1>3, <1>4, <1>7, <2>2, <2>3 DEF EQZAt, Became, Took
<1> QED BY <1>5, <1>6, <1>7

\* A float with the other sign.
LEMMA NegatedIs ==
  ASSUME NEW t \in FloatTypes, NEW x, NEW p \in BOOLEAN, NEW n \in Int,
         x = [type |-> t, value |-> [neg |-> p, mag |-> n]]
  PROVE  /\ Negated(x) = [type |-> t, value |-> [neg |-> ~p, mag |-> n]]
         /\ Negated(x) \in Cell /\ Negated(x).type = t
         /\ "neg" \in UnaryOps /\ Unary("neg", x) = {Negated(x)}
<1>1. Negated(x) = [x EXCEPT !.value = [x.value EXCEPT !.neg = ~x.value.neg]]
  BY Zenon DEF Negated
<1>2. [x.value EXCEPT !.neg = ~x.value.neg] = [neg |-> ~p, mag |-> n]
  OBVIOUS
<1>3. Negated(x) = [type |-> t, value |-> [neg |-> ~p, mag |-> n]]
  BY <1>1, <1>2
<1>4. Unary("neg", x) = {Negated(x)}
  BY Zenon DEF Unary
<1>5. ASSUME NEW q \in BOOLEAN
      PROVE  /\ [type |-> t, value |-> [neg |-> q, mag |-> n]] \in Cell
             /\ [type |-> t, value |-> [neg |-> q, mag |-> n]].type = t
  BY TypesAre DEF Cell, Value
<1>6. Negated(x) \in Cell /\ Negated(x).type = t
  <2>1. PICK q \in BOOLEAN : q = ~p
    BY Zenon
  <2>2. Negated(x) = [type |-> t, value |-> [neg |-> q, mag |-> n]]
    BY <1>3, <2>1, Zenon
  <2> QED BY <1>5, <2>2
<1>7. "neg" \in UnaryOps
  BY DEF UnaryOps
<1> QED BY <1>3, <1>4, <1>6, <1>7, Zenon

LEMMA CltIs ==
  ASSUME NEW x, NEW y
  PROVE  /\ "clt" \in BinaryOps /\ Binary("clt", x, y) = {Bool(Less(x, y))} /\ Bool(Less(x, y)) \in Cell
         /\ Bool(Less(x, y)).value = 0 <=> ~Less(x, y)
<1>1. Binary("clt", x, y) = {Bool(Less(x, y))}
  BY Zenon DEF Binary
<1>2. Less(x, y) \in BOOLEAN
  BY ComparisonsAre
<1>3. Bool(Less(x, y)).value = 0 <=> ~Less(x, y)
  BY <1>2, BoolIs
<1> QED BY <1>1, <1>2, <1>3, BoolIn DEF BinaryOps

\* ABS: negated when it is less than zero.
LEMMA ABSCode ==
  ASSUME Name = "ABS"
  PROVE  /\ Len(Code) = 6
         /\ Code[1] = <<"dup", 0>>
         /\ Code[2] = <<"ldc", Zero>>
         /\ Code[3] = <<"clt", 0>>
         /\ Code[4] = <<"brfalse", 6>>
         /\ Code[5] = <<"neg", 0>>
         /\ Code[6] = <<"nop", 0>>
<1>1. Name \notin DOMAIN DirectOf
  BY DirectNames
<1>2. Code = EmitABS
  BY <1>1, Zenon DEF Code, Orders, Conversions
<1>3. Code = <<<<"dup", 0>>, <<"ldc", Zero>>, <<"clt", 0>>, <<"brfalse", 6>>, <<"neg", 0>>, <<"nop", 0>>>>
  BY <1>2 DEF EmitABS
<1> QED BY <1>3

LEMMA ABSStep ==
  ASSUME Static, Name = "ABS", NEW M, Kept(M), ABSAt(M), M.pc <= Len(Code), NEW N \in Step(Code[M.pc], M)
  PROVE  Kept(N) /\ ABSAt(N)
<1>1. a \in Cell /\ Zero \in Cell /\ Negated(a) \in Cell /\ "neg" \in UnaryOps /\ Unary("neg", a) = {Negated(a)}
  <2>1. Type \in FloatTypes /\ a \in Values(Type) /\ a \in Cell
    BY OneIs, TypeIs DEF OneOperand, FloatInstrs
  <2>2. a \in Floats(Type)
    BY <2>1, TypesAre DEF Values
  <2> QED BY <2>1, <2>2, FloatsAre, NegatedIs, ZeroIs
<1>2. Lt \in Cell /\ "clt" \in BinaryOps /\ Binary("clt", a, Zero) = {Lt} /\ (Lt.value = 0 <=> ~Below)
  BY CltIs DEF Lt, Below
<1>3. /\ S0 \in Seq(Cell) /\ S1(a) \in Seq(Cell) /\ S1(a) = Append(S0, a)
      /\ S2(a, a) = Append(S1(a), a) /\ S3(a, a, Zero) = Append(S2(a, a), Zero)
      /\ S2(a, Lt) = Append(S1(a), Lt) /\ S1(Negated(a)) = Append(S0, Negated(a))
  BY <1>1, <1>2, BottomIs, StackOf1, StackOf2, StackOf3
<1>4. Len(Code) = 6 /\ M.pc \in 1 .. 6
  <2>1. Len(Code) = 6
    BY ABSCode
  <2> QED BY <2>1 DEF ABSAt
<1>5. CASE M.pc = 1
  <2>1. N \in Step(<<"dup", 0>>, M)
    BY <1>5, ABSCode
  <2>2. M.stack = Append(S0, a)
    BY <1>1, <1>2, <1>3, <1>5 DEF ABSAt
  <2>3. Became(M, N, Append(M.stack, a), M.pc + 1)
    BY <1>1, <1>2, <1>3, <2>1, <2>2, ToDup
  <2> QED BY <1>1, <1>2, <1>3, <1>5, <2>2, <2>3 DEF ABSAt, Became, Took
<1>6. CASE M.pc = 2
  <2>1. N \in Step(<<"ldc", Zero>>, M)
    BY <1>6, ABSCode
  <2>2. M.stack = S2(a, a)
    BY <1>1, <1>2, <1>3, <1>6 DEF ABSAt
  <2>3. Became(M, N, Append(M.stack, Zero), M.pc + 1)
    BY <1>1, <1>2, <1>3, <2>1, <2>2, ToLdc
  <2> QED BY <1>1, <1>2, <1>3, <1>6, <2>2, <2>3 DEF ABSAt, Became, Took
<1>7. CASE M.pc = 3
  <2>1. N \in Step(<<"clt", 0>>, M)
    BY <1>7, ABSCode
  <2>2. M.stack = Append(Append(S1(a), a), Zero)
    BY <1>1, <1>2, <1>3, <1>7 DEF ABSAt
  <2>3. Became(M, N, Append(S1(a), Lt), M.pc + 1)
    BY <1>1, <1>2, <1>3, <2>1, <2>2, ToBinary
  <2> QED BY <1>1, <1>2, <1>3, <1>7, <2>2, <2>3 DEF ABSAt, Became, Took
<1>8. CASE M.pc = 4
  <2>1. N \in Step(<<"brfalse", 6>>, M)
    BY <1>8, ABSCode
  <2>2. M.stack = Append(S1(a), Lt)
    BY <1>1, <1>2, <1>3, <1>8 DEF ABSAt
  <2>3. Became(M, N, S1(a), IF Lt.value = 0 THEN 6 ELSE M.pc + 1)
    BY <1>1, <1>2, <1>3, <2>1, <2>2, ToBrfalse
  <2> QED BY <1>1, <1>2, <1>3, <1>8, <2>2, <2>3 DEF ABSAt, Became, Took
<1>9. CASE M.pc = 5
  <2>1. N \in Step(<<"neg", 0>>, M)
    BY <1>9, ABSCode
  <2>2. M.stack = Append(S0, a) /\ Below
    BY <1>1, <1>2, <1>3, <1>9 DEF ABSAt
  <2>3. Became(M, N, Append(S0, Negated(a)), M.pc + 1)
    BY <1>1, <1>2, <1>3, <2>1, <2>2, ToUnary
  <2> QED BY <1>1, <1>2, <1>3, <1>9, <2>2, <2>3 DEF ABSAt, Became, Took
<1>10. CASE M.pc = 6
  <2>1. N \in Step(<<"nop", 0>>, M)
    BY <1>10, ABSCode
  <2>2. M.stack = S1(IF Below THEN Negated(a) ELSE a)
    BY <1>1, <1>2, <1>3, <1>10 DEF ABSAt
  <2>3. Became(M, N, M.stack, M.pc + 1)
    BY <1>1, <1>2, <1>3, <2>1, <2>2, ToNop
  <2> QED BY <1>1, <1>2, <1>3, <1>10, <2>2, <2>3 DEF ABSAt, Became, Took
<1> QED BY <1>4, <1>5, <1>6, <1>7, <1>8, <1>9, <1>10

\* Products of floats are floats.
LEMMA ProductIs ==
  ASSUME NEW k \in Nat, NEW n \in Nat
  PROVE  Product(k, n) \in Nat
<1>1. PICK u \in Nat \ {0} : u = Unit
  BY FloatsAssumption
<1>2. k * n \in Nat
  OBVIOUS
<1> DEFINE kn == k * n
<1> HIDE DEF kn
<1>3. kn \div u \in Nat
  BY <1>2 DEF kn
<1> QED BY <1>1, <1>3 DEF Product, kn

LEMMA TimesIs ==
  ASSUME NEW k \in Nat \cup {NaN}, NEW n \in Nat \cup {NaN}
  PROVE  Times(k, n) \in Nat \cup {NaN}
<1>1. CASE NaN \in {k, n} \/ {k, n} = {0, Inf}
  <2>1. Times(k, n) = NaN
    BY <1>1, Zenon DEF Times
  <2> QED BY <2>1
<1>2. CASE ~(NaN \in {k, n} \/ {k, n} = {0, Inf}) /\ Inf \in {k, n}
  <2>1. Times(k, n) = Inf
    BY <1>2, Zenon DEF Times
  <2> QED BY <2>1, FloatsAssumption
<1>3. CASE ~(NaN \in {k, n} \/ {k, n} = {0, Inf}) /\ ~(Inf \in {k, n})
  <2>1. Times(k, n) = IF Product(k, n) < Inf THEN Product(k, n) ELSE Inf
    BY <1>3, Zenon DEF Times
  <2>2. k \in Nat /\ n \in Nat
    BY <1>3
  <2>3. Product(k, n) \in Nat /\ Inf \in Nat
    BY <2>2, ProductIs, FloatsAssumption
  <2> QED BY <2>1, <2>3
<1> QED BY <1>1, <1>2, <1>3, Zenon

LEMMA ProdIs ==
  ASSUME NEW t \in FloatTypes, NEW x \in Floats(t), NEW y \in Floats(t)
  PROVE  /\ TimesOf(x, y) \in Cell
         /\ "mul" \in BinaryOps /\ Binary("mul", x, y) = {TimesOf(x, y)}
         /\ TimesOf(x, y) = [type |-> t, value |-> [neg |-> x.value.neg # y.value.neg, mag |-> Times(x.value.mag, y.value.mag)]]
<1>1. TimesOf(x, y) = [type |-> t, value |-> [neg |-> x.value.neg # y.value.neg, mag |-> Times(x.value.mag, y.value.mag)]]
  BY FloatsAre, Zenon DEF TimesOf, Float
<1>2. Times(x.value.mag, y.value.mag) \in Nat \cup {NaN}
  BY FloatsAre, TimesIs
<1>3. Times(x.value.mag, y.value.mag) \in Int
  BY <1>2 DEF NaN
<1>4. ASSUME NEW q \in BOOLEAN, NEW n \in Int
      PROVE  [type |-> t, value |-> [neg |-> q, mag |-> n]] \in Cell
  BY TypesAre DEF Cell, Value
<1>5. (x.value.neg # y.value.neg) \in BOOLEAN
  BY Zenon
<1>6. TimesOf(x, y) \in Cell
  BY <1>1, <1>3, <1>4, <1>5, Zenon
<1>7. Binary("mul", x, y) = {TimesOf(x, y)}
  BY Zenon DEF Binary
<1> QED BY <1>1, <1>6, <1>7 DEF BinaryOps

\* COPYSIGN.
LEMMA COPYSIGNCode ==
  ASSUME Name = "COPYSIGN"
  PROVE  /\ Len(Code) = 11
         /\ Code[1] = <<"stloc", V0>>
         /\ Code[2] = <<"stloc", V1>>
         /\ Code[3] = <<"ldloc", V0>>
         /\ Code[4] = <<"ldloc", V1>>
         /\ Code[5] = <<"ldloc", V0>>
         /\ Code[6] = <<"mul", 0>>
         /\ Code[7] = <<"ldc", Zero>>
         /\ Code[8] = <<"clt", 0>>
         /\ Code[9] = <<"brfalse", 11>>
         /\ Code[10] = <<"neg", 0>>
         /\ Code[11] = <<"nop", 0>>
<1>1. Name \notin DOMAIN DirectOf
  BY DirectNames
<1>2. Code = EmitCOPYSIGN
  BY <1>1, Zenon DEF Code, Orders, Conversions
<1>3. Code = <<<<"stloc", V0>>, <<"stloc", V1>>, <<"ldloc", V0>>, <<"ldloc", V1>>, <<"ldloc", V0>>, <<"mul", 0>>, <<"ldc", Zero>>, <<"clt", 0>>, <<"brfalse", 11>>, <<"neg", 0>>, <<"nop", 0>>>>
  BY <1>2 DEF EmitCOPYSIGN, V0, V1
<1> QED BY <1>3

LEMMA FloatOperands ==
  ASSUME Static, Name = "COPYSIGN"
  PROVE  /\ Type \in FloatTypes /\ a \in Floats(Type) /\ b \in Floats(Type)
         /\ a \in Cell /\ b \in Cell /\ a.type = Type /\ b.type = Type
<1>1. Type \in FloatTypes /\ a \in Values(Type) /\ b \in Values(Type) /\ a \in Cell /\ b \in Cell
      /\ a.type = Type /\ b.type = Type
  BY TwoAre, TypeIs DEF TwoOperands, FloatInstrs
<1>2. Type \notin IntTypes
  BY <1>1, TypesAre
<1> QED BY <1>1, <1>2 DEF Values

LEMMA COPYSIGNStep ==
  ASSUME Static, Name = "COPYSIGN", NEW M, Kept(M), COPYSIGNAt(M), M.pc <= Len(Code), NEW N \in Step(Code[M.pc], M)
  PROVE  Kept(N) /\ COPYSIGNAt(N)
<1>0. UsesOne /\ UsesTwo
  BY DEF UsesOne, UsesTwo
<1>1. a \in Cell /\ b \in Cell /\ a.type = Type /\ b.type = Type
  BY FloatOperands
<1>2. Negated(b) \in Cell /\ "neg" \in UnaryOps /\ Unary("neg", b) = {Negated(b)}
  BY FloatOperands, FloatsAre, NegatedIs
<1>3. Prod \in Cell /\ "mul" \in BinaryOps /\ Binary("mul", a, b) = {Prod} /\ Zero \in Cell
  BY FloatOperands, ProdIs, ZeroIs DEF Prod
<1>4. Op \in Cell /\ "clt" \in BinaryOps /\ Binary("clt", Prod, Zero) = {Op} /\ (Op.value = 0 <=> ~Opposite)
  BY CltIs DEF Op, Opposite
<1>5. /\ S0 \in Seq(Cell) /\ S1(a) \in Seq(Cell) /\ S1(b) \in Seq(Cell)
      /\ S1(a) = Append(S0, a) /\ S2(a, b) = Append(S1(a), b)
      /\ S1(b) = Append(S0, b) /\ S2(b, a) = Append(S1(b), a) /\ S3(b, a, b) = Append(S2(b, a), b)
      /\ S2(b, Prod) = Append(S1(b), Prod) /\ S3(b, Prod, Zero) = Append(S2(b, Prod), Zero)
      /\ S2(b, Op) = Append(S1(b), Op) /\ S1(Negated(b)) = Append(S0, Negated(b))
  BY <1>1, <1>2, <1>3, <1>4, BottomIs, StackOf1, StackOf2, StackOf3
<1>6. V0 \in Indices /\ V1 \in Indices /\ V0 # V1
  BY <1>0, OwnScratch
<1>7. Len(Code) = 11 /\ M.pc \in 1 .. 11
  <2>1. Len(Code) = 11
    BY COPYSIGNCode
  <2> QED BY <2>1 DEF COPYSIGNAt
<1>8. CASE M.pc = 1
  <2>1. N \in Step(<<"stloc", V0>>, M)
    BY <1>8, COPYSIGNCode
  <2>2. M.stack = Append(S1(a), b)
    BY <1>1, <1>2, <1>3, <1>4, <1>5, <1>6, <1>8 DEF COPYSIGNAt
  <2>3. Took(M, N, S1(a), V0, b)
    BY <1>1, <1>2, <1>3, <1>4, <1>5, <1>6, <2>1, <2>2, <1>0, ToV0
  <2> QED BY <1>1, <1>2, <1>3, <1>4, <1>5, <1>6, <1>8, <2>2, <2>3 DEF COPYSIGNAt, Became, Took
<1>9. CASE M.pc = 2
  <2>1. N \in Step(<<"stloc", V1>>, M)
    BY <1>9, COPYSIGNCode
  <2>2. M.stack = Append(S0, a)
    BY <1>1, <1>2, <1>3, <1>4, <1>5, <1>6, <1>9 DEF COPYSIGNAt
  <2>3. Took(M, N, S0, V1, a)
    BY <1>1, <1>2, <1>3, <1>4, <1>5, <1>6, <2>1, <2>2, <1>0, ToV1
  <2> QED BY <1>1, <1>2, <1>3, <1>4, <1>5, <1>6, <1>9, <2>2, <2>3 DEF COPYSIGNAt, Became, Took
<1>10. CASE M.pc = 3
  <2>1. N \in Step(<<"ldloc", V0>>, M)
    BY <1>10, COPYSIGNCode
  <2>2. M.stack = S0 /\ M.vars[V0] = b
    BY <1>1, <1>2, <1>3, <1>4, <1>5, <1>6, <1>10 DEF COPYSIGNAt
  <2>3. Became(M, N, Append(M.stack, b), M.pc + 1)
    BY <1>1, <1>2, <1>3, <1>4, <1>5, <1>6, <2>1, <2>2, ToLdloc
  <2> QED BY <1>1, <1>2, <1>3, <1>4, <1>5, <1>6, <1>10, <2>2, <2>3 DEF COPYSIGNAt, Became, Took
<1>11. CASE M.pc = 4
  <2>1. N \in Step(<<"ldloc", V1>>, M)
    BY <1>11, COPYSIGNCode
  <2>2. M.stack = S1(b) /\ M.vars[V1] = a
    BY <1>1, <1>2, <1>3, <1>4, <1>5, <1>6, <1>11 DEF COPYSIGNAt
  <2>3. Became(M, N, Append(M.stack, a), M.pc + 1)
    BY <1>1, <1>2, <1>3, <1>4, <1>5, <1>6, <2>1, <2>2, ToLdloc
  <2> QED BY <1>1, <1>2, <1>3, <1>4, <1>5, <1>6, <1>11, <2>2, <2>3 DEF COPYSIGNAt, Became, Took
<1>12. CASE M.pc = 5
  <2>1. N \in Step(<<"ldloc", V0>>, M)
    BY <1>12, COPYSIGNCode
  <2>2. M.stack = S2(b, a) /\ M.vars[V0] = b
    BY <1>1, <1>2, <1>3, <1>4, <1>5, <1>6, <1>12 DEF COPYSIGNAt
  <2>3. Became(M, N, Append(M.stack, b), M.pc + 1)
    BY <1>1, <1>2, <1>3, <1>4, <1>5, <1>6, <2>1, <2>2, ToLdloc
  <2> QED BY <1>1, <1>2, <1>3, <1>4, <1>5, <1>6, <1>12, <2>2, <2>3 DEF COPYSIGNAt, Became, Took
<1>13. CASE M.pc = 6
  <2>1. N \in Step(<<"mul", 0>>, M)
    BY <1>13, COPYSIGNCode
  <2>2. M.stack = Append(Append(S1(b), a), b)
    BY <1>1, <1>2, <1>3, <1>4, <1>5, <1>6, <1>13 DEF COPYSIGNAt
  <2>3. Became(M, N, Append(S1(b), Prod), M.pc + 1)
    BY <1>1, <1>2, <1>3, <1>4, <1>5, <1>6, <2>1, <2>2, ToBinary
  <2> QED BY <1>1, <1>2, <1>3, <1>4, <1>5, <1>6, <1>13, <2>2, <2>3 DEF COPYSIGNAt, Became, Took
<1>14. CASE M.pc = 7
  <2>1. N \in Step(<<"ldc", Zero>>, M)
    BY <1>14, COPYSIGNCode
  <2>2. M.stack = S2(b, Prod)
    BY <1>1, <1>2, <1>3, <1>4, <1>5, <1>6, <1>14 DEF COPYSIGNAt
  <2>3. Became(M, N, Append(M.stack, Zero), M.pc + 1)
    BY <1>1, <1>2, <1>3, <1>4, <1>5, <1>6, <2>1, <2>2, ToLdc
  <2> QED BY <1>1, <1>2, <1>3, <1>4, <1>5, <1>6, <1>14, <2>2, <2>3 DEF COPYSIGNAt, Became, Took
<1>15. CASE M.pc = 8
  <2>1. N \in Step(<<"clt", 0>>, M)
    BY <1>15, COPYSIGNCode
  <2>2. M.stack = Append(Append(S1(b), Prod), Zero)
    BY <1>1, <1>2, <1>3, <1>4, <1>5, <1>6, <1>15 DEF COPYSIGNAt
  <2>3. Became(M, N, Append(S1(b), Op), M.pc + 1)
    BY <1>1, <1>2, <1>3, <1>4, <1>5, <1>6, <2>1, <2>2, ToBinary
  <2> QED BY <1>1, <1>2, <1>3, <1>4, <1>5, <1>6, <1>15, <2>2, <2>3 DEF COPYSIGNAt, Became, Took
<1>16. CASE M.pc = 9
  <2>1. N \in Step(<<"brfalse", 11>>, M)
    BY <1>16, COPYSIGNCode
  <2>2. M.stack = Append(S1(b), Op)
    BY <1>1, <1>2, <1>3, <1>4, <1>5, <1>6, <1>16 DEF COPYSIGNAt
  <2>3. Became(M, N, S1(b), IF Op.value = 0 THEN 11 ELSE M.pc + 1)
    BY <1>1, <1>2, <1>3, <1>4, <1>5, <1>6, <2>1, <2>2, ToBrfalse
  <2> QED BY <1>1, <1>2, <1>3, <1>4, <1>5, <1>6, <1>16, <2>2, <2>3 DEF COPYSIGNAt, Became, Took
<1>17. CASE M.pc = 10
  <2>1. N \in Step(<<"neg", 0>>, M)
    BY <1>17, COPYSIGNCode
  <2>2. M.stack = Append(S0, b) /\ Opposite
    BY <1>1, <1>2, <1>3, <1>4, <1>5, <1>6, <1>17 DEF COPYSIGNAt
  <2>3. Became(M, N, Append(S0, Negated(b)), M.pc + 1)
    BY <1>1, <1>2, <1>3, <1>4, <1>5, <1>6, <2>1, <2>2, ToUnary
  <2> QED BY <1>1, <1>2, <1>3, <1>4, <1>5, <1>6, <1>17, <2>2, <2>3 DEF COPYSIGNAt, Became, Took
<1>18. CASE M.pc = 11
  <2>1. N \in Step(<<"nop", 0>>, M)
    BY <1>18, COPYSIGNCode
  <2>2. M.stack = S1(IF Opposite THEN Negated(b) ELSE b)
    BY <1>1, <1>2, <1>3, <1>4, <1>5, <1>6, <1>18 DEF COPYSIGNAt
  <2>3. Became(M, N, M.stack, M.pc + 1)
    BY <1>1, <1>2, <1>3, <1>4, <1>5, <1>6, <2>1, <2>2, ToNop
  <2> QED BY <1>1, <1>2, <1>3, <1>4, <1>5, <1>6, <1>18, <2>2, <2>3 DEF COPYSIGNAt, Became, Took
<1> QED BY <1>7, <1>8, <1>9, <1>10, <1>11, <1>12, <1>13, <1>14, <1>15, <1>16, <1>17, <1>18

\* SELECT.
LEMMA SELECTCode ==
  ASSUME Name = "SELECT"
  PROVE  /\ Len(Code) = 7
         /\ Code[1] = <<"brfalse", 4>>
         /\ Code[2] = <<"pop", 0>>
         /\ Code[3] = <<"br", 7>>
         /\ Code[4] = <<"stloc", V0>>
         /\ Code[5] = <<"pop", 0>>
         /\ Code[6] = <<"ldloc", V0>>
         /\ Code[7] = <<"nop", 0>>
<1>1. Name \notin DOMAIN DirectOf
  BY DirectNames
<1>2. Code = EmitSELECT
  BY <1>1, Zenon DEF Code, Orders, Conversions
<1>3. Code = <<<<"brfalse", 4>>, <<"pop", 0>>, <<"br", 7>>, <<"stloc", V0>>, <<"pop", 0>>, <<"ldloc", V0>>, <<"nop", 0>>>>
  BY <1>2 DEF EmitSELECT, V0, V1
<1> QED BY <1>3

LEMMA SelectOperands ==
  ASSUME Static, Name = "SELECT"
  PROVE  /\ a \in Cell /\ b \in Cell /\ operands[3] \in Cell /\ a.type = Type /\ b.type = Type
         /\ operands = <<a, b, operands[3]>>
<1>1. OperandTypes = <<Type, Type, "i32">>
  BY Zenon DEF OperandTypes, Conversions
<1>2. /\ OperandTypes \in Seq(Types) /\ Len(OperandTypes) = 3
      /\ OperandTypes[1] = Type /\ OperandTypes[2] = Type
  BY <1>1, TypeIs, TypesAre
<1>3. operands \in Seq(Cell) /\ Len(operands) = 3
  BY <1>2, OperandsOf
<1>4. operands = <<a, b, operands[3]>>
  BY <1>3 DEF a, b
<1>5. PICK i, j, k \in 1 .. 3 : i = 1 /\ j = 2 /\ k = 3
  OBVIOUS
<1>6. /\ operands[i] \in Cell /\ operands[i].type = OperandTypes[i]
      /\ operands[j] \in Cell /\ operands[j].type = OperandTypes[j]
      /\ operands[k] \in Cell
  BY <1>2, <1>5, OperandsOf
<1> QED BY <1>2, <1>4, <1>5, <1>6 DEF a, b

LEMMA SELECTStep ==
  ASSUME Static, Name = "SELECT", NEW M, Kept(M), SELECTAt(M), M.pc <= Len(Code), NEW N \in Step(Code[M.pc], M)
  PROVE  Kept(N) /\ SELECTAt(N)
<1>0. UsesOne
  BY DEF UsesOne
<1>1. a \in Cell /\ b \in Cell /\ a.type = Type /\ b.type = Type /\ operands[3] \in Cell
  BY SelectOperands
<1>2. /\ S0 \in Seq(Cell) /\ S1(a) \in Seq(Cell) /\ S2(a, b) \in Seq(Cell)
      /\ S1(a) = Append(S0, a) /\ S2(a, b) = Append(S1(a), b) /\ S1(b) = Append(S0, b)
      /\ S3(a, b, operands[3]) = Append(S2(a, b), operands[3])
  BY <1>1, BottomIs, StackOf1, StackOf2, StackOf3
<1>3. operands[3].value = 0 <=> ~Chosen
  BY DEF Chosen
<1>4. Len(Code) = 7 /\ M.pc \in 1 .. 7
  <2>1. Len(Code) = 7
    BY SELECTCode
  <2> QED BY <2>1 DEF SELECTAt
<1>5. CASE M.pc = 1
  <2>1. N \in Step(<<"brfalse", 4>>, M)
    BY <1>5, SELECTCode
  <2>2. M.stack = Append(S2(a, b), operands[3])
    BY <1>1, <1>2, <1>3, <1>5 DEF SELECTAt
  <2>3. Became(M, N, S2(a, b), IF operands[3].value = 0 THEN 4 ELSE M.pc + 1)
    BY <1>1, <1>2, <1>3, <2>1, <2>2, ToBrfalse
  <2> QED BY <1>1, <1>2, <1>3, <1>5, <2>2, <2>3 DEF SELECTAt, Became, Took
<1>6. CASE M.pc = 2
  <2>1. N \in Step(<<"pop", 0>>, M)
    BY <1>6, SELECTCode
  <2>2. M.stack = Append(S1(a), b) /\ Chosen
    BY <1>1, <1>2, <1>3, <1>6 DEF SELECTAt
  <2>3. Became(M, N, S1(a), M.pc + 1)
    BY <1>1, <1>2, <1>3, <2>1, <2>2, ToPop
  <2> QED BY <1>1, <1>2, <1>3, <1>6, <2>2, <2>3 DEF SELECTAt, Became, Took
<1>7. CASE M.pc = 3
  <2>1. N \in Step(<<"br", 7>>, M)
    BY <1>7, SELECTCode
  <2>2. M.stack = S1(a) /\ Chosen
    BY <1>1, <1>2, <1>3, <1>7 DEF SELECTAt
  <2>3. Became(M, N, M.stack, 7)
    BY <1>1, <1>2, <1>3, <2>1, <2>2, ToBr
  <2> QED BY <1>1, <1>2, <1>3, <1>7, <2>2, <2>3 DEF SELECTAt, Became, Took
<1>8. CASE M.pc = 4
  <2>1. N \in Step(<<"stloc", V0>>, M)
    BY <1>8, SELECTCode
  <2>2. M.stack = Append(S1(a), b) /\ ~Chosen
    BY <1>1, <1>2, <1>3, <1>8 DEF SELECTAt
  <2>3. Took(M, N, S1(a), V0, b)
    BY <1>1, <1>2, <1>3, <2>1, <2>2, <1>0, ToV0
  <2> QED BY <1>1, <1>2, <1>3, <1>8, <2>2, <2>3 DEF SELECTAt, Became, Took
<1>9. CASE M.pc = 5
  <2>1. N \in Step(<<"pop", 0>>, M)
    BY <1>9, SELECTCode
  <2>2. M.stack = Append(S0, a) /\ ~Chosen /\ M.vars[V0] = b
    BY <1>1, <1>2, <1>3, <1>9 DEF SELECTAt
  <2>3. Became(M, N, S0, M.pc + 1)
    BY <1>1, <1>2, <1>3, <2>1, <2>2, ToPop
  <2> QED BY <1>1, <1>2, <1>3, <1>9, <2>2, <2>3 DEF SELECTAt, Became, Took
<1>10. CASE M.pc = 6
  <2>1. N \in Step(<<"ldloc", V0>>, M)
    BY <1>10, SELECTCode
  <2>2. M.stack = S0 /\ ~Chosen /\ M.vars[V0] = b
    BY <1>1, <1>2, <1>3, <1>10 DEF SELECTAt
  <2>3. Became(M, N, Append(M.stack, b), M.pc + 1)
    BY <1>1, <1>2, <1>3, <2>1, <2>2, ToLdloc
  <2> QED BY <1>1, <1>2, <1>3, <1>10, <2>2, <2>3 DEF SELECTAt, Became, Took
<1>11. CASE M.pc = 7
  <2>1. N \in Step(<<"nop", 0>>, M)
    BY <1>11, SELECTCode
  <2>2. M.stack = S1(IF Chosen THEN a ELSE b)
    BY <1>1, <1>2, <1>3, <1>11 DEF SELECTAt
  <2>3. Became(M, N, M.stack, M.pc + 1)
    BY <1>1, <1>2, <1>3, <2>1, <2>2, ToNop
  <2> QED BY <1>1, <1>2, <1>3, <1>11, <2>2, <2>3 DEF SELECTAt, Became, Took
<1> QED BY <1>4, <1>5, <1>6, <1>7, <1>8, <1>9, <1>10, <1>11


-------------------------------------------------------------------------------
(* Parameters and locals: the first four are parameters. *)

LEMMA IndexIs ==
  ASSUME Static, Name \in LocalAccesses
  PROVE  /\ isArg <=> index < 4
         /\ isArg => index \in ParamIndices /\ local_index = index /\ ParamTypes[index + 1] = Type
         /\ ~isArg => /\ local_index \in LocalIndices /\ local_index \in Indices /\ local_index = index - 4
                      /\ index \in 4 .. 7 /\ Variables[local_index + 1] = Type
<1>1. index \in OfType
  BY DEF Static
<1>2. index \in 0 .. 7 /\ (ParamTypes \o LocalTypes)[index + 1] = Type /\ (isArg <=> index < 4)
  BY <1>1 DEF OfType, ParamTypes, LocalTypes, isArg
<1>3. CASE isArg
  <2>1. index \in 0 .. 3
    BY <1>2, <1>3
  <2>2. (ParamTypes \o LocalTypes)[index + 1] = ParamTypes[index + 1]
    BY <2>1 DEF ParamTypes, LocalTypes
  <2> QED BY <1>2, <1>3, <2>1, <2>2 DEF local_index, ParamIndices
<1>4. CASE ~isArg
  <2>1. index \in 4 .. 7 /\ local_index = index - 4
    BY <1>2, <1>4 DEF local_index, ParamTypes
  <2>2. (ParamTypes \o LocalTypes)[index + 1] = LocalTypes[local_index + 1]
    BY <2>1 DEF ParamTypes, LocalTypes
  <2>3. Len(helpers) \in Nat
    BY HelpersAre DEF Static
  <2>4. local_index \in 0 .. 3
    BY <2>1
  <2>5. Variables[local_index + 1] = LocalTypes[local_index + 1]
    <3> DEFINE kinds == [k \in DOMAIN helpers |-> helpers[k][1]]
    <3>1. DOMAIN kinds = 1 .. Len(helpers)
      BY HelpersAre DEF Static
    <3>2. kinds \in Seq(Types)
      <4>1. \A k \in 1 .. Len(helpers) : helpers[k][1] \in Types
        BY HelpersAre DEF Static
      <4>2. kinds \in [1 .. Len(helpers) -> Types]
        BY <3>1, <4>1
      <4> QED BY <2>3, <4>2
    <3> HIDE DEF kinds
    <3>3. Variables = LocalTypes \o <<"i32">> \o kinds
      BY DEF Variables, kinds
    <3> QED BY <2>4, <3>2, <3>3 DEF LocalTypes
  <2> QED BY <1>2, <1>4, <2>1, <2>2, <2>3, <2>4, <2>5 DEF LocalIndices, Indices
<1> QED BY <1>2, <1>3, <1>4

\* The machine N is M with the operand taken from the stack and put into the
\* parameter or local.
Assigned(M, N, s) ==
  /\ Kept(N) /\ N.stack = s /\ N.pc = M.pc + 1 /\ N.thrown = M.thrown /\ At(N, index) = a

LEMMA ToAssigned ==
  ASSUME Static, Sets, a \in Cell, a.type = Type, NEW M, Kept(M), NEW s \in Seq(Cell), M.stack = Append(s, a),
         NEW N \in Step(<<IF isArg THEN "starg" ELSE "stloc", local_index>>, M)
  PROVE  Assigned(M, N, s)
<1>0. M \in Machine /\ Name \in LocalAccesses
  BY MachineOf DEF Sets, LocalAccesses
<1>1. CASE isArg
  <2>1. index \in ParamIndices /\ local_index = index /\ ParamTypes[index + 1] = Type /\ index < 4
    BY <1>0, <1>1, IndexIs
  <2>2. N \in Step(<<"starg", index>>, M)
    BY <1>1, <2>1
  <2>3. StoresArg(M, N, s, index, a)
    BY <1>0, <2>2, StargStep
  <2>4. /\ N \in Machine /\ N.stack = s /\ N.pc = M.pc + 1 /\ N.thrown = M.thrown
        /\ N.args = [M.args EXCEPT ![index] = a] /\ N.vars = M.vars
    BY <1>0, <2>1, <2>3, StoresArgFacts
  <2>5. M.args \in [ParamIndices -> Cell]
    BY <1>0 DEF Machine
  <2>6. N.args[index] = a /\ \A k \in ParamIndices : k # index => N.args[k] = M.args[k]
    BY <2>1, <2>4, <2>5
  <2>7. \A k \in ParamIndices : N.args[k].type = ParamTypes[k + 1]
    BY <2>1, <2>6 DEF Kept
  <2>8. \A k \in ParamIndices : N.args[k] = LocalsAtFirst[k] \/ (Sets /\ k = index)
    BY <2>6 DEF Kept
  <2>9. Kept(N)
    BY <2>4, <2>7, <2>8 DEF Kept
  <2> QED BY <2>1, <2>4, <2>6, <2>9 DEF Assigned, At
<1>2. CASE ~isArg
  <2>1. /\ local_index \in LocalIndices /\ local_index \in Indices /\ local_index = index - 4
        /\ index \in 4 .. 7 /\ Variables[local_index + 1] = Type
    BY <1>0, <1>2, IndexIs
  <2> DEFINE v == local_index
  <2>2. N \in Step(<<"stloc", v>>, M)
    BY <1>2
  <2>3. Stores(M, N, s, v, a)
    BY <1>0, <2>2, StlocStep
  <2>4. /\ N \in Machine /\ N.stack = s /\ N.pc = M.pc + 1 /\ N.thrown = M.thrown
        /\ N.args = M.args /\ N.vars = [M.vars EXCEPT ![v] = a]
    BY <1>0, <2>1, <2>3, StoresFacts
  <2>5. M.vars \in [Indices -> Cell]
    BY <1>0 DEF Machine
  <2> HIDE DEF v
  <2>6. v \in LocalIndices /\ v \in Indices /\ v = index - 4 /\ Variables[v + 1] = Type
    BY <2>1 DEF v
  <2>7. N.vars[v] = a /\ \A k \in Indices : k # v => N.vars[k] = M.vars[k]
    BY <2>4, <2>5, <2>6
  <2>8. \A k \in Indices : N.vars[k].type = Variables[k + 1]
    BY <2>6, <2>7 DEF Kept
  <2>9. \A k \in LocalIndices : k \in Indices /\ (k = v => 4 + k = index)
    BY <2>1, <2>6, HelpersAre DEF Static, LocalIndices, Indices
  <2>10. \A k \in LocalIndices : N.vars[k] = LocalsAtFirst[4 + k] \/ (Sets /\ 4 + k = index)
    BY <2>7, <2>9 DEF Kept
  <2>11. Kept(N)
    BY <2>4, <2>8, <2>10 DEF Kept
  <2>12. At(N, index) = N.vars[v]
    BY <2>1, <2>6 DEF At
  <2> QED BY <2>4, <2>7, <2>11, <2>12 DEF Assigned
<1> QED BY <1>1, <1>2

\* LOCAL_GET.
LEMMA GetStep ==
  ASSUME Static, Name = "LOCAL_GET", NEW M, Kept(M), GetAt(M), M.pc <= Len(Code), NEW N \in Step(Code[M.pc], M)
  PROVE  Kept(N) /\ GetAt(N)
<1>1. Len(Code) = 1 /\ Code[1] = <<IF isArg THEN "ldarg" ELSE "ldloc", local_index>>
  <2>1. Name \notin DOMAIN DirectOf
    BY DirectNames
  <2>2. Code = EmitGet
    BY <2>1, Zenon DEF Code, Orders, Conversions
  <2>3. Code = <<<<IF isArg THEN "ldarg" ELSE "ldloc", local_index>>>>
    BY <2>2 DEF EmitGet
  <2> QED BY <2>3
<1>2. M.pc = 1 /\ M.stack = S0 /\ ~M.thrown
  BY <1>1 DEF GetAt
<1>3. M \in Machine /\ Name \in LocalAccesses /\ ~Sets
  BY MachineOf DEF LocalAccesses, Sets
<1>4. CASE isArg
  <2>1. index \in ParamIndices /\ local_index = index
    BY <1>3, <1>4, IndexIs
  <2>2. N \in Step(<<"ldarg", index>>, M)
    BY <1>1, <1>2, <1>4, <2>1
  <2> DEFINE x == M.args[index]
  <2>3. x \in Cell /\ x = LocalsAtFirst[index]
    BY <1>3, <2>1 DEF Machine, Kept
  <2>4. Became(M, N, Append(M.stack, x), M.pc + 1)
    BY <2>2, <2>3, ToLdarg
  <2> HIDE DEF x
  <2>5. S1(x) = Append(S0, x)
    BY <2>3, StackOf1
  <2>6. Kept(N) /\ N.stack = Append(M.stack, x) /\ N.pc = M.pc + 1 /\ N.thrown = M.thrown
    BY <2>4 DEF Became
  <2> QED BY <1>2, <2>3, <2>5, <2>6 DEF GetAt
<1>5. CASE ~isArg
  <2> DEFINE v == local_index
  <2>1. v \in LocalIndices /\ v \in Indices /\ index = 4 + v
    BY <1>3, <1>5, IndexIs
  <2>2. N \in Step(<<"ldloc", v>>, M)
    BY <1>1, <1>2, <1>5
  <2> HIDE DEF v
  <2> DEFINE x == M.vars[v]
  <2>3. x \in Cell /\ x = LocalsAtFirst[index]
    BY <1>3, <2>1 DEF Machine, Kept
  <2>4. Became(M, N, Append(M.stack, x), M.pc + 1)
    BY <2>2, <2>3, ToLdloc
  <2> HIDE DEF x
  <2>5. S1(x) = Append(S0, x)
    BY <2>3, StackOf1
  <2>6. Kept(N) /\ N.stack = Append(M.stack, x) /\ N.pc = M.pc + 1 /\ N.thrown = M.thrown
    BY <2>4 DEF Became
  <2> QED BY <1>2, <2>3, <2>5, <2>6 DEF GetAt
<1> QED BY <1>4, <1>5

\* LOCAL_SET.
LEMMA SetStep ==
  ASSUME Static, Name = "LOCAL_SET", NEW M, Kept(M), SetAt(M), M.pc <= Len(Code), NEW N \in Step(Code[M.pc], M)
  PROVE  Kept(N) /\ SetAt(N)
<1>1. Len(Code) = 1 /\ Code[1] = <<IF isArg THEN "starg" ELSE "stloc", local_index>>
  <2>1. Name \notin DOMAIN DirectOf
    BY DirectNames
  <2>2. Code = EmitSet
    BY <2>1, Zenon DEF Code, Orders, Conversions
  <2>3. Code = <<<<IF isArg THEN "starg" ELSE "stloc", local_index>>>>
    BY <2>2 DEF EmitSet
  <2> QED BY <2>3
<1>2. M.pc = 1 /\ M.stack = S1(a) /\ ~M.thrown /\ Sets
  BY <1>1 DEF SetAt, Sets
<1>3. a \in Cell /\ a.type = Type
  BY OneIs DEF OneOperand
<1>4. M.stack = Append(S0, a) /\ S0 \in Seq(Cell)
  BY <1>2, <1>3, StackOf1, BottomIs
<1>5. N \in Step(<<IF isArg THEN "starg" ELSE "stloc", local_index>>, M)
  BY <1>1, <1>2
<1>6. Assigned(M, N, S0)
  BY <1>2, <1>3, <1>4, <1>5, ToAssigned
<1> QED BY <1>2, <1>6 DEF SetAt, Assigned

\* LOCAL_TEE.
LEMMA TEEStep ==
  ASSUME Static, Name = "LOCAL_TEE", NEW M, Kept(M), TEEAt(M), M.pc <= Len(Code), NEW N \in Step(Code[M.pc], M)
  PROVE  Kept(N) /\ TEEAt(N)
<1>1. /\ Len(Code) = 2 /\ Code[1] = <<"dup", 0>>
      /\ Code[2] = <<IF isArg THEN "starg" ELSE "stloc", local_index>>
  <2>1. Name \notin DOMAIN DirectOf
    BY DirectNames
  <2>2. Code = EmitTEE
    BY <2>1, Zenon DEF Code, Orders, Conversions
  <2>3. Code = <<<<"dup", 0>>>> \o <<<<IF isArg THEN "starg" ELSE "stloc", local_index>>>>
    BY <2>2 DEF EmitTEE, EmitSet
  <2> QED BY <2>3
<1>2. a \in Cell /\ a.type = Type /\ Sets
  BY OneIs DEF OneOperand, Sets
<1>3. /\ S0 \in Seq(Cell) /\ S1(a) \in Seq(Cell) /\ S1(a) = Append(S0, a) /\ S2(a, a) = Append(S1(a), a)
  BY <1>2, BottomIs, StackOf1, StackOf2
<1>4. M.pc \in 1 .. 2 /\ ~M.thrown
  BY <1>1 DEF TEEAt
<1>5. CASE M.pc = 1
  <2>1. N \in Step(<<"dup", 0>>, M)
    BY <1>1, <1>5
  <2>2. M.stack = Append(S0, a)
    BY <1>3, <1>5 DEF TEEAt
  <2>3. Became(M, N, Append(M.stack, a), M.pc + 1)
    BY <1>2, <1>3, <2>1, <2>2, ToDup
  <2> QED BY <1>3, <1>4, <1>5, <2>2, <2>3 DEF TEEAt, Became
<1>6. CASE M.pc = 2
  <2>1. N \in Step(<<IF isArg THEN "starg" ELSE "stloc", local_index>>, M)
    BY <1>1, <1>6
  <2>2. M.stack = Append(S1(a), a)
    BY <1>3, <1>6 DEF TEEAt
  <2>3. Assigned(M, N, S1(a))
    BY <1>2, <1>3, <2>1, <2>2, ToAssigned
  <2> QED BY <1>4, <1>6, <2>3 DEF TEEAt, Assigned
<1> QED BY <1>4, <1>5, <1>6

-------------------------------------------------------------------------------
(* Division, shifts and conversions: results that are integers. *)

IsInt(t, x) == x \in Cell /\ x.type = t /\ x.value \in -Half(t) .. Half(t) - 1 /\ x.value \in Int

LEMMA IntOfIsInt ==
  ASSUME NEW t \in IntTypes, NEW n \in Int
  PROVE  IsInt(t, IntOf(t, n))
BY IntOfIs DEF IsInt

LEMMA IntsAreInt ==
  ASSUME NEW t \in IntTypes, NEW x \in Ints(t)
  PROVE  IsInt(t, x)
BY IntsAre DEF IsInt

LEMMA QuotientIs ==
  ASSUME NEW k \in Int, NEW n \in Int, n # 0
  PROVE  Quotient(k, n) \in Int /\ Remainder(k, n) \in Int
<1>1. Abs(k) \in Int /\ Abs(n) \in Nat /\ Abs(n) > 0
  BY DEF Abs
<1> DEFINE p == Abs(k)  q == Abs(n)
<1>2. p \in Int /\ q \in Nat /\ q > 0
  BY <1>1
<1> HIDE DEF p, q
<1>3. p \div q \in Int
  BY <1>2
<1>4. Quotient(k, n) \in Int
  BY <1>3 DEF Quotient, p, q
<1> QED BY <1>4 DEF Remainder

LEMMA BitsAre ==
  ASSUME NEW t \in IntTypes
  PROVE  Bits(t) \in Nat /\ Bits(t) >= 2
BY WidthsAssumption DEF Bits

\* A shift count in range is the same number with and without a sign.
LEMMA CountIs ==
  ASSUME NEW t \in IntTypes, NEW y, IsInt(t, y), y.value \in 0 .. Bits(t) - 1
  PROVE  U(y) = y.value /\ U(y) \in Nat /\ U(y) % Bits(t) = y.value
<1>1. Bits(t) \in Nat /\ Bits(t) >= 2
  BY BitsAre
<1>2. y.value >= 0 /\ y.value < Bits(t) /\ y.value \in Nat
  BY <1>1
<1>3. U(y) = y.value
  BY <1>2, UnsignedIs DEF IsInt
<1>4. PICK n \in Nat, w \in Nat : n = y.value /\ w = Bits(t)
  BY <1>1, <1>2
<1>5. n % w = n
  BY <1>1, <1>2, <1>4
<1> QED BY <1>2, <1>3, <1>4, <1>5

LEMMA UnsignedInt ==
  ASSUME NEW t \in IntTypes, NEW x, x.type = t, x.value \in Int
  PROVE  U(x) \in Int /\ U(x) >= 0
<1> DEFINE h == Half(t)  n == x.value
<1>1. h \in Nat /\ h >= 2 /\ n \in Int
  BY HalfFacts
<1>2. U(x) = n % (2 * h)
  BY DEF U
<1> HIDE DEF h, n
<1> QED BY <1>1, <1>2

LEMMA DirectResults ==
  ASSUME NEW t \in IntTypes, NEW x, IsInt(t, x), NEW y, IsInt(t, y)
  PROVE  /\ Binary("div", x, y) = IF Divides(x, y) THEN {IntOf(t, Quotient(x.value, y.value))} ELSE {}
         /\ Binary("rem", x, y) = IF Divides(x, y) THEN {IntOf(t, Remainder(x.value, y.value))} ELSE {}
         /\ Binary("shl", x, y) = Shifted(x, y.value, x.value * 2^U(y))
         /\ Binary("shr", x, y) = Shifted(x, y.value, x.value \div 2^U(y))
         /\ Binary("shr.un", x, y) = Shifted(x, y.value, U(x) \div 2^U(y))
<1>1. x.type = t
  BY DEF IsInt
<1> QED BY <1>1, Zenon DEF Binary

LEMMA ShiftedIs ==
  ASSUME NEW t \in IntTypes, NEW x, x.type = t, NEW n, NEW r, n \in 0 .. Bits(t) - 1 => r \in Int
  PROVE  /\ \A z \in Shifted(x, n, r) : IsInt(t, z)
         /\ n \in 0 .. Bits(t) - 1 => Shifted(x, n, r) = {IntOf(t, r)}
<1>1. CASE n \in 0 .. Bits(t) - 1
  <2>1. Shifted(x, n, r) = {IntOf(t, r)} /\ IsInt(t, IntOf(t, r))
    BY <1>1, IntOfIsInt DEF Shifted
  <2> QED BY <2>1
<1>2. CASE n \notin 0 .. Bits(t) - 1
  <2>1. Shifted(x, n, r) = Ints(t)
    BY <1>2 DEF Shifted
  <2> QED BY <1>2, <2>1, IntsAreInt
<1> QED BY <1>1, <1>2

LEMMA ShiftsAre ==
  ASSUME NEW t \in IntTypes, NEW x, IsInt(t, x), NEW y, IsInt(t, y), y.value \in 0 .. Bits(t) - 1
  PROVE  x.value * 2^U(y) \in Int /\ x.value \div 2^U(y) \in Int /\ U(x) \div 2^U(y) \in Int
<1>1. U(y) \in Nat
  BY CountIs
<1>2. PICK p \in Nat : p = 2^U(y) /\ p >= 1
  BY <1>1, PowersCount
<1>3. x.value \in Int /\ U(x) \in Int
  BY UnsignedInt DEF IsInt
<1>4. x.value * p \in Int /\ x.value \div p \in Int /\ U(x) \div p \in Int
  BY <1>2, <1>3
<1> QED BY <1>2, <1>4

LEMMA DirectIs ==
  ASSUME NEW t \in IntTypes, NEW x, IsInt(t, x), NEW y, IsInt(t, y), NEW op \in {"div", "rem", "shl", "shr", "shr.un"},
         NEW z \in Binary(op, x, y)
  PROVE  IsInt(t, z)
<1>0. x.type = t /\ x.value \in Int /\ y.value \in Int
  BY DEF IsInt
<1>1. CASE op \in {"div", "rem"}
  <2>1. y.value # 0 /\ (z = IntOf(t, Quotient(x.value, y.value)) \/ z = IntOf(t, Remainder(x.value, y.value)))
    BY <1>1, DirectResults DEF Divides
  <2> QED BY <1>0, <2>1, QuotientIs, IntOfIsInt
<1>2. CASE op = "shl"
  <2>1. z \in Shifted(x, y.value, x.value * 2^U(y))
    BY <1>2, DirectResults
  <2> QED BY <1>0, <2>1, ShiftsAre, ShiftedIs
<1>3. CASE op = "shr"
  <2>1. z \in Shifted(x, y.value, x.value \div 2^U(y))
    BY <1>3, DirectResults
  <2> QED BY <1>0, <2>1, ShiftsAre, ShiftedIs
<1>4. CASE op = "shr.un"
  <2>1. z \in Shifted(x, y.value, U(x) \div 2^U(y))
    BY <1>4, DirectResults
  <2> QED BY <1>0, <2>1, ShiftsAre, ShiftedIs
<1> QED BY <1>1, <1>2, <1>3, <1>4

LEMMA DirectCode ==
  ASSUME Name \in DOMAIN DirectOf
  PROVE  /\ Len(Code) = 1 /\ Code[1] = <<DirectOp, 0>>
         /\ DirectOp \in {"div", "rem", "shl", "shr", "shr.un"} /\ DirectOp \in BinaryOps
<1>0. Name \in {"DIV_S", "REM_S", "SHL", "SHR_S", "SHR_U"}
  BY DirectNames, Zenon
<1>1. Code = <<<<DirectOf[Name], 0>>>>
  BY <1>0, Zenon DEF Code, Orders, Conversions
<1>2. DirectOp \in {"div", "rem", "shl", "shr", "shr.un"}
  BY DEF DirectOp, DirectOf
<1> QED BY <1>1, <1>2 DEF DirectOp, BinaryOps

LEMMA IntOperands ==
  ASSUME Static, Name \in IntInstrs
  PROVE  Type \in IntTypes /\ IsInt(Type, a) /\ IsInt(Type, b)
<1>1. Type \in IntTypes /\ a \in Values(Type) /\ b \in Values(Type)
  BY TwoAre, TypeIs DEF TwoOperands
<1> QED BY <1>1, IntsAreInt DEF Values

LEMMA DirectStep ==
  ASSUME Static, Name \in DOMAIN DirectOf, NEW M, Kept(M), DirectAt(M), M.pc <= Len(Code), ~M.thrown,
         NEW N \in Step(Code[M.pc], M)
  PROVE  Kept(N) /\ DirectAt(N)
<1>1. Name \in IntInstrs
  BY DirectNames DEF IntInstrs
<1>2. M.pc = 1 /\ M.stack = S2(a, b) /\ N \in Step(<<DirectOp, 0>>, M)
  <2>1. Len(Code) = 1 /\ Code[1] = <<DirectOp, 0>>
    BY DirectCode
  <2>2. M.pc = 1
    BY <2>1 DEF DirectAt
  <2>3. N \in Step(Code[1], M)
    BY <2>2
  <2> QED BY <2>1, <2>2, <2>3, Zenon DEF DirectAt
<1>3. a \in Cell /\ b \in Cell
  BY <1>1, IntOperands DEF IsInt
<1>4. M.stack = Append(Append(S0, a), b) /\ S0 \in Seq(Cell) /\ M \in Machine
  BY <1>2, <1>3, StackOf1, StackOf2, BottomIs, MachineOf
<1>5. \/ Binary(DirectOp, a, b) = {} /\ N = Thrown(M)
      \/ \E z \in Binary(DirectOp, a, b) : Moves(M, N, Append(S0, z), M.pc + 1)
  BY <1>2, <1>3, <1>4, DirectCode, BinaryStep
<1>6. CASE Binary(DirectOp, a, b) = {} /\ N = Thrown(M)
  <2>1. Kept(N) /\ N.stack = M.stack /\ N.pc = M.pc /\ N.thrown
    BY <1>6, KeptThrown
  <2> QED BY <1>2, <1>6, <2>1 DEF DirectAt
<1>7. CASE \E z \in Binary(DirectOp, a, b) : Moves(M, N, Append(S0, z), M.pc + 1)
  <2>1. PICK z \in Binary(DirectOp, a, b) : Moves(M, N, Append(S0, z), M.pc + 1)
    BY <1>7
  <2>2. z \in Cell
    BY <1>1, DirectCode, IntOperands, DirectIs DEF IsInt
  <2>3. S1(z) = Append(S0, z) /\ S1(z) \in Seq(Cell) /\ M.pc + 1 \in Nat
    BY <2>2, StackOf1, MachineOf
  <2>4. Became(M, N, S1(z), M.pc + 1)
    BY <2>1, <2>3, ToMoved
  <2> QED BY <1>2, <2>4 DEF DirectAt, Became
<1> QED BY <1>5, <1>6, <1>7

\* Conversions.
LEMMA UnaryIs ==
  ASSUME NEW x
  PROVE  /\ Unary("conv.i4", x) = ToSigned("i32", x) /\ Unary("conv.u4", x) = ToUnsigned("i32", x)
         /\ Unary("conv.i8", x) = ToSigned("i64", x) /\ Unary("conv.u8", x) = ToUnsigned("i64", x)
         /\ Unary("conv.r4", x) = {FloatOf("f32", x.value)} /\ Unary("conv.r8", x) = {FloatOf("f64", x.value)}
         /\ {"conv.i4", "conv.u4", "conv.i8", "conv.u8", "conv.r4", "conv.r8"} \subseteq UnaryOps
<1>1. Unary("conv.i4", x) = ToSigned("i32", x) /\ Unary("conv.u4", x) = ToUnsigned("i32", x)
  BY Zenon DEF Unary
<1>2. Unary("conv.i8", x) = ToSigned("i64", x) /\ Unary("conv.u8", x) = ToUnsigned("i64", x)
  BY Zenon DEF Unary
<1>3. Unary("conv.r4", x) = {FloatOf("f32", x.value)} /\ Unary("conv.r8", x) = {FloatOf("f64", x.value)}
  BY Zenon DEF Unary
<1> QED BY <1>1, <1>2, <1>3 DEF UnaryOps

LEMMA OfInt ==
  ASSUME NEW s \in IntTypes, NEW x, IsInt(s, x), NEW t \in IntTypes
  PROVE  /\ ToSigned(t, x) = {IntOf(t, x.value)} /\ ToUnsigned(t, x) = {IntOf(t, U(x))}
         /\ IsInt(t, IntOf(t, x.value)) /\ IsInt(t, IntOf(t, U(x)))
<1>1. x.type \in IntTypes /\ x.value \in Int /\ U(x) \in Int
  BY UnsignedInt DEF IsInt
<1> QED BY <1>1, IntOfIsInt DEF ToSigned, ToUnsigned

LEMMA WholeIs ==
  ASSUME NEW t \in FloatTypes, NEW x \in Floats(t), Finite(x)
  PROVE  Whole(x) \in Int
<1>1. x.value.mag \in Nat
  BY FloatsAre DEF Finite
<1>2. PICK u \in Nat \ {0} : u = Unit
  BY FloatsAssumption
<1>3. x.value.mag \div u \in Int
  BY <1>1
<1> QED BY <1>2, <1>3 DEF Whole

LEMMA IntsExist ==
  ASSUME NEW t \in IntTypes
  PROVE  Ints(t) # {}
<1>1. PICK n \in Nat : n = 0
  OBVIOUS
<1>2. n \in 0 .. 2 * Half(t) - 1
  BY <1>1, HalfFacts
<1>3. IntOf(t, n) \in Ints(t)
  BY <1>2 DEF Ints
<1> QED BY <1>3

LEMMA OfFloat ==
  ASSUME NEW s \in FloatTypes, NEW x \in Floats(s), NEW t \in IntTypes
  PROVE  /\ ToSigned(t, x) = Converted(t, x, Least(t), -Least(t) - 1)
         /\ ToUnsigned(t, x) = Converted(t, x, 0, 2 * Half(t) - 1)
         /\ ToSigned(t, x) # {} /\ ToUnsigned(t, x) # {}
         /\ \A z \in ToSigned(t, x) : IsInt(t, z)
         /\ \A z \in ToUnsigned(t, x) : IsInt(t, z)
<1>1. x.type \notin IntTypes
  BY FloatsAre, TypesAre
<1>2. /\ ToSigned(t, x) = Converted(t, x, Least(t), -Least(t) - 1)
      /\ ToUnsigned(t, x) = Converted(t, x, 0, 2 * Half(t) - 1)
  BY <1>1 DEF ToSigned, ToUnsigned
<1>3. ASSUME NEW lo, NEW hi
      PROVE  Converted(t, x, lo, hi) # {} /\ \A z \in Converted(t, x, lo, hi) : IsInt(t, z)
  <2>1. CASE Finite(x) /\ Whole(x) \in lo .. hi
    <3>1. IsInt(t, IntOf(t, Whole(x))) /\ Converted(t, x, lo, hi) = {IntOf(t, Whole(x))}
      BY <2>1, WholeIs, IntOfIsInt DEF Converted
    <3> QED BY <3>1
  <2>2. CASE ~(Finite(x) /\ Whole(x) \in lo .. hi)
    <3>1. Converted(t, x, lo, hi) = Ints(t)
      BY <2>2, Zenon DEF Converted
    <3> QED BY <3>1, IntsExist, IntsAreInt
  <2> QED BY <2>1, <2>2
<1> QED BY <1>2, <1>3

LEMMA ToTypeIs ==
  /\ Type = "i32" => ToType = "conv.i4" /\ ToUnsignedType = "conv.u4"
  /\ Type = "i64" => ToType = "conv.i8" /\ ToUnsignedType = "conv.u8"
  /\ Type = "f32" => ToType = "conv.r4"
  /\ Type = "f64" => ToType = "conv.r8"
BY Zenon DEF ToType, ToUnsignedType

\* The operand is an integer or a float.
LEMMA SourceIs ==
  ASSUME Static, Name \in Conversions
  PROVE  /\ Name \in {"EXTEND_I32_S", "EXTEND_I32_U", "CONVERT_I32_S", "CONVERT_I32_U"} => IsInt("i32", a)
         /\ Name \in {"WRAP_I64", "CONVERT_I64_S", "CONVERT_I64_U"} => IsInt("i64", a)
         /\ Name \in {"TRUNC_F32_S", "TRUNC_F32_U"} => a \in Floats("f32")
         /\ Name \in {"TRUNC_F64_S", "TRUNC_F64_U"} => a \in Floats("f64")
<1>1. a \in Values(Source)
  BY ConvertedIs
<1>2. /\ Name \in {"EXTEND_I32_S", "EXTEND_I32_U", "CONVERT_I32_S", "CONVERT_I32_U"} => Source = "i32"
      /\ Name \in {"WRAP_I64", "CONVERT_I64_S", "CONVERT_I64_U"} => Source = "i64"
      /\ Name \in {"TRUNC_F32_S", "TRUNC_F32_U"} => Source = "f32"
      /\ Name \in {"TRUNC_F64_S", "TRUNC_F64_U"} => Source = "f64"
  BY Zenon DEF Source
<1>3. Values("i32") = Ints("i32") /\ Values("i64") = Ints("i64") /\ Values("f32") = Floats("f32") /\ Values("f64") = Floats("f64")
  BY DEF Values, IntTypes
<1> QED BY <1>1, <1>2, <1>3, IntsAreInt, TypesAre

LEMMA ConversionCode ==
  ASSUME Static, Name \in Conversions
  PROVE  /\ Code[1] = <<FirstOp, 0>> /\ Len(Code) = IF Name \in TwoConversions THEN 2 ELSE 1
         /\ Name \in TwoConversions => Code[2] = <<SecondOp, 0>>
<1>1. Name \notin DOMAIN DirectOf
  BY DirectNames DEF Conversions
<1>2. Code = EmitConversion
  BY <1>1, Zenon DEF Code, Orders, Conversions
<1>3. CASE Name \in TwoConversions
  <2>1. EmitConversion = <<<<FirstOp, 0>>, <<SecondOp, 0>>>>
    BY <1>3, Zenon DEF EmitConversion, FirstOp, SecondOp, TwoConversions
  <2> QED BY <1>2, <1>3, <2>1
<1>4. CASE Name \notin TwoConversions
  <2>1. EmitConversion = <<<<FirstOp, 0>>>>
    BY <1>4, Zenon DEF EmitConversion, FirstOp, TwoConversions
  <2> QED BY <1>2, <1>4, <2>1
<1> QED BY <1>3, <1>4

\* The first or only instruction: the operand becomes an integer, or a float.
LEMMA FirstIs ==
  ASSUME Static, Name \in Conversions
  PROVE  /\ FirstOp \in UnaryOps /\ Unary(FirstOp, a) # {} /\ \A z \in Unary(FirstOp, a) : z \in Cell
         /\ Name \in TwoConversions => \E t \in IntTypes : \A z \in Unary(FirstOp, a) : IsInt(t, z)
<1>1. CASE Name \in {"EXTEND_I32_S", "EXTEND_I32_U", "WRAP_I64", "CONVERT_I32_U", "CONVERT_I64_U"}
  <2>1. FirstOp \in {"conv.i4", "conv.u4", "conv.i8", "conv.u8"}
    <3>1. CASE Name \in {"EXTEND_I32_S", "WRAP_I64"}
      <4>1. FirstOp = ToType
        BY <3>1, Zenon DEF FirstOp, TwoConversions
      <4> QED BY <3>1, <4>1, TypeIs, ToTypeIs
    <3>2. CASE Name = "EXTEND_I32_U"
      <4>1. FirstOp = "conv.u4"
        BY <3>2, Zenon DEF FirstOp, TwoConversions
      <4> QED BY <4>1
    <3>3. CASE Name \in {"CONVERT_I32_U", "CONVERT_I64_U"}
      <4>1. FirstOp = "conv.u8"
        BY <3>3, Zenon DEF FirstOp, TwoConversions
      <4> QED BY <4>1
    <3> QED BY <1>1, <3>1, <3>2, <3>3
  <2>2. PICK s \in IntTypes : IsInt(s, a)
    BY <1>1, SourceIs, TypesAre
  <2>3. PICK t \in IntTypes : Unary(FirstOp, a) = ToSigned(t, a) \/ Unary(FirstOp, a) = ToUnsigned(t, a)
    BY <2>1, UnaryIs, TypesAre
  <2>4. \E z : Unary(FirstOp, a) = {z} /\ IsInt(t, z)
    BY <2>2, <2>3, OfInt
  <2> QED BY <2>1, <2>4, UnaryIs DEF IsInt
<1>2. CASE Name \in {"TRUNC_F32_S", "TRUNC_F32_U", "TRUNC_F64_S", "TRUNC_F64_U"}
  <2>1. FirstOp \in {"conv.i4", "conv.u4", "conv.i8", "conv.u8"}
    <3>1. FirstOp = ToType \/ FirstOp = ToUnsignedType
      BY <1>2, Zenon DEF FirstOp, TwoConversions
    <3>2. Type \in {"i32", "i64"}
      BY <1>2, TypeIs DEF IntTypes
    <3> QED BY <3>1, <3>2, ToTypeIs
  <2>2. PICK s \in FloatTypes : a \in Floats(s)
    BY <1>2, SourceIs DEF FloatTypes
  <2>3. PICK t \in IntTypes : Unary(FirstOp, a) = ToSigned(t, a) \/ Unary(FirstOp, a) = ToUnsigned(t, a)
    BY <2>1, UnaryIs, TypesAre
  <2>4. Unary(FirstOp, a) # {} /\ \A z \in Unary(FirstOp, a) : IsInt(t, z)
    BY <2>2, <2>3, OfFloat
  <2> QED BY <2>1, <2>4, UnaryIs DEF IsInt
<1>3. CASE Name \in {"CONVERT_I32_S", "CONVERT_I64_S"}
  <2>1. FirstOp = ToType /\ Name \notin TwoConversions
    BY <1>3, Zenon DEF FirstOp, TwoConversions
  <2>2. FirstOp \in {"conv.r4", "conv.r8"}
    BY <1>3, <2>1, TypeIs, ToTypeIs DEF FloatTypes
  <2>3. a.value \in Int
    BY <1>3, SourceIs DEF IsInt
  <2>4. PICK t \in FloatTypes : Unary(FirstOp, a) = {FloatOf(t, a.value)}
    BY <2>2, UnaryIs DEF FloatTypes
  <2>5. FloatOf(t, a.value) \in Cell
    BY <2>3, FloatOfIs
  <2> QED BY <2>1, <2>2, <2>4, <2>5, UnaryIs
<1> QED BY <1>1, <1>2, <1>3 DEF Conversions

LEMMA SecondIs ==
  ASSUME Static, Name \in TwoConversions, NEW s \in IntTypes, NEW z, IsInt(s, z)
  PROVE  /\ SecondOp \in UnaryOps /\ Unary(SecondOp, z) # {} /\ \A y \in Unary(SecondOp, z) : y \in Cell
<1>1. CASE Name \in {"EXTEND_I32_U", "TRUNC_F64_U"}
  <2>1. SecondOp \in {"conv.i4", "conv.i8"}
    <3>1. SecondOp = "conv.i8" \/ SecondOp = ToType
      BY Zenon DEF SecondOp
    <3>2. Type \in {"i32", "i64"}
      BY <1>1, TypeIs DEF IntTypes
    <3> QED BY <3>1, <3>2, ToTypeIs
  <2>2. PICK t \in IntTypes : Unary(SecondOp, z) = ToSigned(t, z)
    BY <2>1, UnaryIs, TypesAre
  <2>3. \E y : Unary(SecondOp, z) = {y} /\ IsInt(t, y)
    BY <2>2, OfInt
  <2> QED BY <2>1, <2>3, UnaryIs DEF IsInt
<1>2. CASE Name \in {"CONVERT_I32_U", "CONVERT_I64_U"}
  <2>1. SecondOp \in {"conv.r4", "conv.r8"}
    <3>1. SecondOp = ToType
      BY <1>2, Zenon DEF SecondOp
    <3> QED BY <1>2, <3>1, TypeIs, ToTypeIs DEF FloatTypes
  <2>2. PICK t \in FloatTypes : Unary(SecondOp, z) = {FloatOf(t, z.value)}
    BY <2>1, UnaryIs DEF FloatTypes
  <2>3. FloatOf(t, z.value) \in Cell
    BY FloatOfIs DEF IsInt
  <2> QED BY <2>1, <2>2, <2>3, UnaryIs
<1> QED BY <1>1, <1>2 DEF TwoConversions

\* One of several results of an instruction with one operand.
LEMMA ToSome ==
  ASSUME NEW M, Kept(M), NEW x \in Cell, M.stack = S1(x), NEW op \in UnaryOps, NEW arg,
         Unary(op, x) # {}, \A z \in Unary(op, x) : z \in Cell, NEW N \in Step(<<op, arg>>, M)
  PROVE  \E z \in Unary(op, x) : z \in Cell /\ Became(M, N, S1(z), M.pc + 1)
<1>1. M.stack = Append(S0, x) /\ S0 \in Seq(Cell) /\ M \in Machine
  BY StackOf1, BottomIs, MachineOf
<1>2. PICK z \in Unary(op, x) : Moves(M, N, Append(S0, z), M.pc + 1)
  BY <1>1, UnaryStep
<1>3. z \in Cell
  OBVIOUS
<1>4. Append(S0, z) = S1(z) /\ S1(z) \in Seq(Cell) /\ M.pc + 1 \in Nat
  BY <1>3, StackOf1, MachineOf
<1>5. Moves(M, N, S1(z), M.pc + 1)
  BY <1>2, <1>4, Zenon
<1>6. Became(M, N, S1(z), M.pc + 1)
  BY <1>4, <1>5, ToMoved
<1> QED BY <1>3, <1>6

LEMMA ConversionStep ==
  ASSUME Static, Name \in Conversions, NEW M, Kept(M), ConversionAt(M), M.pc <= Len(Code), NEW N \in Step(Code[M.pc], M)
  PROVE  Kept(N) /\ ConversionAt(N)
<1>1. ~M.thrown /\ (M.pc = 1 \/ (M.pc = 2 /\ Name \in TwoConversions))
  <2>1. Len(Code) = IF Name \in TwoConversions THEN 2 ELSE 1
    BY ConversionCode, Zenon
  <2>2. CASE Name \in TwoConversions
    <3>1. Len(Code) = 2 /\ M.pc \in 1 .. 3 /\ ~M.thrown
      BY <2>1, <2>2 DEF ConversionAt
    <3> QED BY <2>2, <3>1
  <2>3. CASE Name \notin TwoConversions
    <3>1. Len(Code) = 1 /\ M.pc \in 1 .. 2 /\ ~M.thrown
      BY <2>1, <2>3 DEF ConversionAt
    <3> QED BY <3>1
  <2> QED BY <2>2, <2>3
<1>2. CASE M.pc = 1
  <2>1. N \in Step(<<FirstOp, 0>>, M)
    BY <1>2, ConversionCode
  <2>2. M.stack = S1(a) /\ a \in Cell
    BY <1>2, ConvertedIs DEF ConversionAt
  <2>3. PICK z \in Unary(FirstOp, a) : z \in Cell /\ Became(M, N, S1(z), M.pc + 1)
    BY <2>1, <2>2, FirstIs, ToSome
  <2> QED BY <1>1, <1>2, <2>3 DEF ConversionAt, Became
<1>3. CASE M.pc = 2 /\ Name \in TwoConversions
  <2>1. N \in Step(<<SecondOp, 0>>, M)
    BY <1>3, ConversionCode
  <2>2. PICK z \in Unary(FirstOp, a) : M.stack = S1(z)
    BY <1>3 DEF ConversionAt
  <2>3. PICK t \in IntTypes : IsInt(t, z)
    BY <1>3, FirstIs
  <2>4. z \in Cell
    BY FirstIs
  <2>6. SecondOp \in UnaryOps /\ Unary(SecondOp, z) # {} /\ \A y \in Unary(SecondOp, z) : y \in Cell
    BY <1>3, <2>3, SecondIs
  <2>5. PICK y \in Unary(SecondOp, z) : y \in Cell /\ Became(M, N, S1(y), M.pc + 1)
    BY <2>1, <2>2, <2>4, <2>6, ToSome
  <2> QED BY <1>1, <1>3, <2>5 DEF ConversionAt, Became
<1> QED BY <1>1, <1>2, <1>3

-------------------------------------------------------------------------------
(* CALL_INDIRECT, with any number of parameters of any types. *)

LEMMA LastOff ==
  ASSUME NEW s \in Seq(Cell), NEW q \in Nat, Len(s) = q + 1
  PROVE  /\ s = Append(SubSeq(s, 1, q), s[q + 1]) /\ SubSeq(s, 1, q) \in Seq(Cell)
         /\ Len(SubSeq(s, 1, q)) = q /\ \A k \in 1 .. q : SubSeq(s, 1, q)[k] = s[k]
         /\ s[q + 1] \in Cell
OBVIOUS

LEMMA SignatureIs ==
  ASSUME Static, Name = "CALL_INDIRECT"
  PROVE  /\ sig \in Seq(Types) /\ Arity \in Nat /\ DOMAIN sig = 1 .. Arity
         /\ helpers \in MakingOrders /\ Has("i32", 0) /\ \A k \in 1 .. Arity : sig[k] \in Types /\ Has(sig[k], k)
<1>1. sig \in Signatures /\ helpers \in MakingOrders
  BY DEF Static
<1>2. sig \in Seq(Types)
  BY <1>1, SignaturesAssumption
<1>3. Arity \in Nat /\ DOMAIN sig = 1 .. Arity /\ \A k \in 1 .. Arity : sig[k] \in Types
  BY <1>2 DEF Arity
<1>4. Has("i32", 0) /\ \A k \in 1 .. Arity : Has(sig[k], k)
  <2>1. Asked = {<<"i32", 0>>} \cup {<<sig[k], k>> : k \in DOMAIN sig} /\ Asked \subseteq Range(helpers)
    BY AskedIs DEF Static
  <2>2. <<"i32", 0>> \in Asked /\ \A k \in 1 .. Arity : <<sig[k], k>> \in Asked
    BY <1>3, <2>1
  <2> QED BY <2>1, <2>2, AskedFor
<1> QED BY <1>1, <1>2, <1>3, <1>4

LEMMA CallOperands ==
  ASSUME Static, Name = "CALL_INDIRECT"
  PROVE  /\ operands \in Seq(Cell) /\ Len(operands) = Arity + 1
         /\ Index \in Cell /\ Index.type = "i32"
         /\ \A k \in 1 .. Arity : operands[k] \in Cell /\ operands[k].type = sig[k]
<1>1. OperandTypes = Append(sig, "i32")
  BY Zenon DEF OperandTypes, Conversions
<1>2. sig \in Seq(Types) /\ Arity \in Nat /\ Arity = Len(sig)
  BY SignatureIs DEF Arity
<1>3. /\ OperandTypes \in Seq(Types) /\ Len(OperandTypes) = Arity + 1
      /\ OperandTypes[Arity + 1] = "i32" /\ \A k \in 1 .. Arity : OperandTypes[k] = sig[k]
  BY <1>1, <1>2, TypesAre
<1>4. /\ operands \in Seq(Cell) /\ Len(operands) = Arity + 1
      /\ \A i \in 1 .. Arity + 1 : operands[i] \in Cell /\ operands[i].type = OperandTypes[i]
  BY <1>3, OperandsOf
<1>5. Arity + 1 \in 1 .. Arity + 1 /\ \A k \in 1 .. Arity : k \in 1 .. Arity + 1
  BY <1>2
<1>6. Index \in Cell /\ Index.type = "i32"
  BY <1>3, <1>4, <1>5 DEF Index
<1> QED BY <1>3, <1>4, <1>5, <1>6

\* The scratch variables of a call differ.
LEMMA CallScratch ==
  ASSUME Static, Name = "CALL_INDIRECT"
  PROVE  /\ Slot \in Indices /\ \A k \in 1 .. Arity : Parameter(k) \in Indices /\ Parameter(k) # Slot
         /\ \A j, k \in 1 .. Arity : j # k => Parameter(j) # Parameter(k)
<1>0. PICK zero \in Nat : zero = 0
  OBVIOUS
<1>1. /\ helpers \in MakingOrders /\ Has("i32", zero) /\ "i32" \in Types /\ Slot = getVariable("i32", zero)
      /\ Arity \in Nat
  BY <1>0, SignatureIs, TypesAre DEF Slot
<1>2. ASSUME NEW k \in 1 .. Arity
      PROVE  k \in Nat /\ sig[k] \in Types /\ Has(sig[k], k) /\ k # zero /\ Parameter(k) = getVariable(sig[k], k)
  BY <1>0, <1>1, SignatureIs DEF Parameter
<1>3. Slot \in Indices
  BY <1>1, Scratch
<1>4. ASSUME NEW k \in 1 .. Arity
      PROVE  Parameter(k) \in Indices /\ Parameter(k) # Slot
  <2>1. k \in Nat /\ sig[k] \in Types /\ Has(sig[k], k) /\ k # zero /\ Parameter(k) = getVariable(sig[k], k)
    BY <1>2
  <2>2. getVariable(sig[k], k) \in Indices
    BY <1>1, <2>1, Scratch
  <2>3. getVariable(sig[k], k) # getVariable("i32", zero)
    BY <1>1, <2>1, ScratchDiffer
  <2> QED BY <1>1, <2>1, <2>2, <2>3
<1>5. ASSUME NEW j \in 1 .. Arity, NEW k \in 1 .. Arity, j # k
      PROVE  Parameter(j) # Parameter(k)
  BY <1>1, <1>2, <1>5, ScratchDiffer
<1> QED BY <1>3, <1>4, <1>5

LEMMA CallCode ==
  ASSUME Static, Name = "CALL_INDIRECT"
  PROVE  /\ Len(Code) = 2 * Arity + 4
         /\ Code[1] = <<"stloc", Slot>>
         /\ \A q \in 1 .. Arity : Code[Arity + 2 - q] = <<"stloc", Parameter(q)>>
         /\ Code[Arity + 2] = <<"ldloc", Slot>> /\ Code[Arity + 3] = <<"ldelem", Table>>
         /\ \A q \in 1 .. Arity : Code[Arity + 3 + q] = <<"ldloc", Parameter(q)>>
         /\ Code[2 * Arity + 4] = <<"callvirt", Arity>>
<1> DEFINE n == Arity
           takes == [j \in 1 .. n |-> <<"stloc", Parameter(n - j + 1)>>]
           gives == [j \in 1 .. n |-> <<"ldloc", Parameter(j)>>]
           first == <<<<"stloc", Slot>>>>
           find == <<<<"ldloc", Slot>>, <<"ldelem", Table>>>>
           call == <<<<"callvirt", n>>>>
           X == {<<"stloc", Slot>>, <<"ldloc", Slot>>, <<"ldelem", Table>>, <<"callvirt", n>>}
                  \cup {takes[j] : j \in 1 .. n} \cup {gives[j] : j \in 1 .. n}
<1>1. Code = EmitCALL_INDIRECT
  BY DirectNames, Zenon DEF Code, Orders, Conversions
<1>2. n \in Nat /\ DOMAIN sig = 1 .. n
  BY SignatureIs
<1>3. Code = first \o takes \o find \o gives \o call
  BY <1>1, <1>2, Zenon DEF EmitCALL_INDIRECT, Slot, Arity
<1>4. \A q \in 1 .. n : takes[n - q + 1] = <<"stloc", Parameter(q)>>
  <2> TAKE q \in 1 .. n
  <2>1. n - q + 1 \in 1 .. n /\ n - (n - q + 1) + 1 = q
    BY <1>2
  <2>2. takes[n - q + 1] = <<"stloc", Parameter(n - (n - q + 1) + 1)>>
    BY <2>1
  <2> QED BY <2>1, <2>2
<1>5. \A q \in 1 .. n : gives[q] = <<"ldloc", Parameter(q)>>
  OBVIOUS
<1>6. takes \in [1 .. n -> X] /\ gives \in [1 .. n -> X]
  OBVIOUS
<1>7. /\ first \in Seq(X) /\ find \in Seq(X) /\ call \in Seq(X)
      /\ Len(first) = 1 /\ Len(find) = 2 /\ Len(call) = 1
      /\ first[1] = <<"stloc", Slot>> /\ find[1] = <<"ldloc", Slot>> /\ find[2] = <<"ldelem", Table>>
      /\ call[1] = <<"callvirt", n>>
  OBVIOUS
<1> HIDE DEF X, takes, gives, first, find, call
<1>8. takes \in Seq(X) /\ gives \in Seq(X) /\ Len(takes) = n /\ Len(gives) = n
  BY <1>2, <1>6
<1> DEFINE c2 == first \o takes  c3 == c2 \o find  c4 == c3 \o gives  c5 == c4 \o call
<1> HIDE DEF n
<1>9. /\ c2 \in Seq(X) /\ Len(c2) = n + 1 /\ c2[1] = <<"stloc", Slot>>
      /\ \A i \in 1 .. n : c2[i + 1] = takes[i]
  <2>4. first \in Seq(X) /\ takes \in Seq(X)
    BY <1>7, <1>8
  <2>0. /\ c2 \in Seq(X) /\ Len(c2) = Len(first) + Len(takes)
        /\ \A i \in 1 .. Len(first) : c2[i] = first[i]
        /\ \A i \in 1 .. Len(takes) : c2[Len(first) + i] = takes[i]
    BY <2>4
  <2> HIDE DEF c2
  <2>1. /\ c2 \in Seq(X) /\ Len(c2) = 1 + n /\ \A i \in 1 .. 1 : c2[i] = first[i]
        /\ \A i \in 1 .. n : c2[1 + i] = takes[i]
    BY <1>7, <1>8, <2>0
  <2>2. \A i \in 1 .. n : i + 1 = 1 + i
    BY <1>2
  <2>3. c2[1] = first[1]
    BY <2>1
  <2> QED BY <1>2, <1>7, <2>1, <2>2, <2>3
<1> HIDE DEF c2
<1>10. /\ c3 \in Seq(X) /\ Len(c3) = n + 3 /\ \A i \in 1 .. n + 1 : c3[i] = c2[i]
       /\ c3[n + 2] = <<"ldloc", Slot>> /\ c3[n + 3] = <<"ldelem", Table>>
  <2>4. c2 \in Seq(X) /\ find \in Seq(X)
    BY <1>7, <1>9
  <2>0. /\ c3 \in Seq(X) /\ Len(c3) = Len(c2) + Len(find)
        /\ \A i \in 1 .. Len(c2) : c3[i] = c2[i]
        /\ \A i \in 1 .. Len(find) : c3[Len(c2) + i] = find[i]
    BY <2>4
  <2> HIDE DEF c3
  <2>1. /\ c3 \in Seq(X) /\ Len(c3) = n + 1 + 2 /\ \A i \in 1 .. n + 1 : c3[i] = c2[i]
        /\ \A i \in 1 .. 2 : c3[n + 1 + i] = find[i]
    BY <1>7, <1>9, <2>0
  <2>2. c3[n + 1 + 1] = find[1] /\ c3[n + 1 + 2] = find[2]
    BY <2>1
  <2>3. n + 1 + 1 = n + 2 /\ n + 1 + 2 = n + 3
    BY <1>2
  <2> QED BY <1>7, <2>1, <2>2, <2>3
<1> HIDE DEF c3
<1>11. /\ c4 \in Seq(X) /\ Len(c4) = 2 * n + 3 /\ \A i \in 1 .. n + 3 : c4[i] = c3[i]
       /\ \A i \in 1 .. n : c4[n + 3 + i] = gives[i]
  <2>1. c3 \in Seq(X) /\ gives \in Seq(X)
    BY <1>8, <1>10
  <2>2. /\ c4 \in Seq(X) /\ Len(c4) = Len(c3) + Len(gives)
        /\ \A i \in 1 .. Len(c3) : c4[i] = c3[i]
        /\ \A i \in 1 .. Len(gives) : c4[Len(c3) + i] = gives[i]
    BY <2>1
  <2> HIDE DEF c4
  <2> QED BY <1>2, <1>8, <1>10, <2>2
<1> HIDE DEF c4
<1>12. /\ c5 \in Seq(X) /\ Len(c5) = 2 * n + 4 /\ \A i \in 1 .. 2 * n + 3 : c5[i] = c4[i]
       /\ c5[2 * n + 4] = <<"callvirt", n>>
  <2>4. c4 \in Seq(X) /\ call \in Seq(X)
    BY <1>7, <1>11
  <2>0. /\ c5 \in Seq(X) /\ Len(c5) = Len(c4) + Len(call)
        /\ \A i \in 1 .. Len(c4) : c5[i] = c4[i]
        /\ \A i \in 1 .. Len(call) : c5[Len(c4) + i] = call[i]
    BY <2>4
  <2> HIDE DEF c5
  <2>1. /\ c5 \in Seq(X) /\ Len(c5) = 2 * n + 3 + 1 /\ \A i \in 1 .. 2 * n + 3 : c5[i] = c4[i]
        /\ \A i \in 1 .. 1 : c5[2 * n + 3 + i] = call[i]
    BY <1>7, <1>11, <2>0
  <2>2. c5[2 * n + 3 + 1] = call[1]
    BY <2>1
  <2>3. 2 * n + 3 + 1 = 2 * n + 4
    BY <1>2
  <2> QED BY <1>7, <2>1, <2>2, <2>3
<1> HIDE DEF c5
<1>13. Code = c5
  BY <1>3 DEF c5, c4, c3, c2
<1>14. \A i \in 1 .. n + 3 : c5[i] = c3[i]
  BY <1>2, <1>11, <1>12
<1>15. c5[1] = <<"stloc", Slot>> /\ c5[n + 2] = <<"ldloc", Slot>> /\ c5[n + 3] = <<"ldelem", Table>>
  BY <1>2, <1>9, <1>10, <1>14
<1>16. ASSUME NEW q \in 1 .. n
       PROVE  c5[n + 2 - q] = <<"stloc", Parameter(q)>> /\ c5[n + 3 + q] = <<"ldloc", Parameter(q)>>
  <2> DEFINE i == n - q + 1
  <2>1. i \in 1 .. n /\ i + 1 = n + 2 - q /\ i + 1 \in 1 .. n + 1 /\ i + 1 \in 1 .. n + 3 /\ n + 3 + q \in 1 .. 2 * n + 3
    BY <1>2
  <2>2. takes[i] = <<"stloc", Parameter(q)>>
    BY <1>4 DEF n
  <2> HIDE DEF i
  <2>3. c5[i + 1] = takes[i]
    BY <2>1, <1>9, <1>10, <1>14
  <2>4. c5[n + 3 + q] = gives[q]
    BY <2>1, <1>11, <1>12
  <2>5. gives[q] = <<"ldloc", Parameter(q)>>
    BY <1>5 DEF n
  <2> QED BY <2>1, <2>2, <2>3, <2>4, <2>5
<1> QED BY <1>12, <1>13, <1>15, <1>16 DEF n

\* A step that calls, with c, and leaves the stack s.
Calls(M, N, s, c) == N = [M EXCEPT !.stack = s, !.pc = M.pc + 1, !.called = c]

LEMMA CalledFacts ==
  ASSUME NEW M \in Machine, NEW N, NEW s \in Seq(Cell), NEW c \in Seq(Cell), Calls(M, N, s, c)
  PROVE  /\ N \in Machine /\ N.stack = s /\ N.pc = M.pc + 1 /\ N.thrown = M.thrown
         /\ N.called = c /\ N.args = M.args /\ N.vars = M.vars
<1> DEFINE M1 == [M EXCEPT !.stack = s]
<1>0. M1 = [stack |-> s, pc |-> M.pc, thrown |-> M.thrown, called |-> M.called, args |-> M.args, vars |-> M.vars]
  BY MachineIs
<1>1. N = [[M1 EXCEPT !.pc = M.pc + 1] EXCEPT !.called = c]
  BY DEF Calls
<1> DEFINE M2 == [M1 EXCEPT !.pc = M.pc + 1]
<1> HIDE DEF M1
<1>2. M2 = [stack |-> s, pc |-> M.pc + 1, thrown |-> M.thrown, called |-> M.called, args |-> M.args, vars |-> M.vars]
  BY <1>0
<1>3. N = [M2 EXCEPT !.called = c]
  BY <1>1
<1> HIDE DEF M2
<1>4. N = [stack |-> s, pc |-> M.pc + 1, thrown |-> M.thrown, called |-> c, args |-> M.args, vars |-> M.vars]
  BY <1>2, <1>3
<1> QED BY <1>4 DEF Machine

\* The first instruction: the index goes into its variable.
LEMMA CallTakesIndex ==
  ASSUME Static, Name = "CALL_INDIRECT", NEW M, Kept(M), M.pc = 1, M.stack = S0 \o operands, ~M.thrown,
         NEW N \in Step(Code[M.pc], M)
  PROVE  Kept(N) /\ CallAt(N)
<1>1. /\ operands \in Seq(Cell) /\ Len(operands) = Arity + 1 /\ Index \in Cell /\ Index.type = "i32"
      /\ Index = operands[Arity + 1]
  BY CallOperands DEF Index
<1>2. /\ Arity \in Nat /\ helpers \in MakingOrders /\ Has("i32", 0) /\ "i32" \in Types
  BY SignatureIs, TypesAre
<1>3. S0 \in Seq(Cell) /\ Len(S0) = 1 /\ S0[1] = Bottom
  BY BottomIs DEF S0
<1> DEFINE st == S0 \o operands  q == Arity + 1
<1>4. /\ st \in Seq(Cell) /\ Len(st) = q + 1 /\ st[1] = Bottom /\ st[q + 1] = Index
      /\ \A k \in 1 .. Arity : st[k + 1] = operands[k]
  <2>1. S0 \in Seq(Cell) /\ operands \in Seq(Cell)
    BY <1>1, <1>3
  <2>2. /\ st \in Seq(Cell) /\ Len(st) = Len(S0) + Len(operands)
        /\ \A k \in 1 .. Len(S0) : st[k] = S0[k]
        /\ \A k \in 1 .. Len(operands) : st[Len(S0) + k] = operands[k]
    BY <2>1
  <2> HIDE DEF st
  <2>3. st \in Seq(Cell) /\ Len(st) = q + 1 /\ st[1] = Bottom
    BY <1>1, <1>2, <1>3, <2>2
  <2>4. \A k \in 1 .. Arity + 1 : st[k + 1] = operands[k]
    BY <1>1, <1>2, <1>3, <2>2
  <2>5. st[q + 1] = operands[Arity + 1]
    BY <1>2, <2>4
  <2> QED BY <1>1, <1>2, <2>3, <2>4, <2>5
<1>5. M.stack = st
  OBVIOUS
<1> HIDE DEF st
<1> DEFINE s == SubSeq(st, 1, q)
<1>6. /\ M.stack = Append(s, Index) /\ s \in Seq(Cell) /\ Len(s) = q /\ \A k \in 1 .. q : s[k] = st[k]
  BY <1>2, <1>4, <1>5, LastOff
<1> HIDE DEF s
<1>7. PICK zero \in Nat : zero = 0
  OBVIOUS
<1>8. N \in Step(<<"stloc", Slot>>, M)
  BY CallCode
<1>9. Has("i32", zero) /\ Slot = getVariable("i32", zero)
  BY <1>2, <1>7 DEF Slot
<1>10. Took(M, N, s, Slot, Index)
  BY <1>1, <1>2, <1>6, <1>8, <1>9, ToStloc
<1>11. Kept(N) /\ N.stack = s /\ N.pc = 2 /\ ~N.thrown /\ N.vars[Slot] = Index
  BY <1>10 DEF Took
<1>12. Over(N, S0, Arity)
  <2>1. Len(N.stack) = Len(S0) + Arity
    BY <1>2, <1>3, <1>6, <1>11
  <2>2. \A k \in 1 .. Len(S0) : N.stack[k] = S0[k]
    BY <1>2, <1>3, <1>4, <1>6, <1>11
  <2>3. \A k \in 1 .. Arity : N.stack[Len(S0) + k] = operands[k]
    BY <1>2, <1>3, <1>4, <1>6, <1>11
  <2> QED BY <2>1, <2>2, <2>3 DEF Over
<1>13. Arity + 2 - N.pc = Arity /\ N.pc \in 1 .. 2 * Arity + 5
  BY <1>2, <1>11
<1> QED BY <1>2, <1>11, <1>12, <1>13 DEF CallAt

\* The next ones: the last parameter on the stack goes into its variable.
LEMMA CallTakesParameter ==
  ASSUME Static, Name = "CALL_INDIRECT", NEW M, Kept(M), NEW q \in 1 .. Arity, M.pc = Arity + 2 - q, ~M.thrown,
         M.vars[Slot] = Index, Over(M, S0, q), \A k \in 1 .. Arity : k > q => Saved(M, k),
         NEW N \in Step(Code[M.pc], M)
  PROVE  Kept(N) /\ CallAt(N)
<1>1. operands[q] \in Cell /\ operands[q].type = sig[q]
  BY CallOperands
<1>2. Arity \in Nat /\ helpers \in MakingOrders /\ sig[q] \in Types /\ Has(sig[q], q) /\ q \in Nat
  BY SignatureIs
<1>3. Parameter(q) = getVariable(sig[q], q)
  BY DEF Parameter
<1>4. S0 \in Seq(Cell) /\ Len(S0) = 1 /\ S0[1] = Bottom
  BY BottomIs DEF S0
<1>5. /\ M.stack \in Seq(Cell) /\ Len(M.stack) = q + 1 /\ M.stack[1] = Bottom
      /\ \A k \in 1 .. q : M.stack[1 + k] = operands[k]
  BY <1>4, MachineOf DEF Over
<1> DEFINE s == SubSeq(M.stack, 1, q)
<1>6. /\ M.stack = Append(s, M.stack[q + 1]) /\ s \in Seq(Cell) /\ Len(s) = q /\ \A k \in 1 .. q : s[k] = M.stack[k]
  BY <1>2, <1>5, LastOff
<1>7. M.stack[q + 1] = operands[q]
  BY <1>2, <1>5
<1> HIDE DEF s
<1>8. N \in Step(<<"stloc", Parameter(q)>>, M)
  BY CallCode
<1>9. M.stack = Append(s, operands[q])
  BY <1>6, <1>7
<1>10. Took(M, N, s, Parameter(q), operands[q])
  BY <1>1, <1>2, <1>3, <1>6, <1>8, <1>9, ToStloc
<1>11. /\ Kept(N) /\ N.stack = s /\ N.pc = M.pc + 1 /\ N.thrown = M.thrown
       /\ N.vars[Parameter(q)] = operands[q] /\ \A v \in Indices : v # Parameter(q) => N.vars[v] = M.vars[v]
  BY <1>10 DEF Took
<1>12. N.vars[Slot] = Index
  BY <1>11, CallScratch
<1>13. \A k \in 1 .. Arity : k > q - 1 => Saved(N, k)
  <2> SUFFICES ASSUME NEW k \in 1 .. Arity, k > q - 1
               PROVE  Saved(N, k)
    OBVIOUS
  <2>1. CASE k = q
    BY <1>11, <2>1 DEF Saved
  <2>2. CASE k # q
    <3>1. Saved(M, k)
      BY <2>2
    <3>2. N.vars[Parameter(k)] = M.vars[Parameter(k)]
      BY <1>11, <2>2, CallScratch
    <3> QED BY <3>1, <3>2 DEF Saved
  <2> QED BY <2>1, <2>2
<1>14. Over(N, S0, q - 1)
  <2>1. Len(N.stack) = Len(S0) + (q - 1)
    BY <1>2, <1>4, <1>6, <1>11
  <2>2. \A k \in 1 .. Len(S0) : N.stack[k] = S0[k]
    BY <1>2, <1>4, <1>5, <1>6, <1>11
  <2>3. \A k \in 1 .. q - 1 : N.stack[Len(S0) + k] = operands[k]
    BY <1>2, <1>4, <1>5, <1>6, <1>11
  <2> QED BY <2>1, <2>2, <2>3 DEF Over
<1>15. /\ Arity + 2 - N.pc = q - 1 /\ N.pc \in 2 .. Arity + 2 /\ N.pc \in 1 .. 2 * Arity + 5
       /\ N.pc # 1 /\ N.pc < Arity + 3
  BY <1>2, <1>11
<1>16. ~N.thrown
  BY <1>11
<1> QED BY <1>2, <1>12, <1>11, <1>13, <1>14, <1>15, <1>16 DEF CallAt

\* With all parameters off the stack, the index comes back and the function is
\* looked for.
LEMMA CallGivesIndex ==
  ASSUME Static, Name = "CALL_INDIRECT", NEW M, Kept(M), M.pc = Arity + 2, ~M.thrown,
         M.vars[Slot] = Index, Over(M, S0, 0), \A k \in 1 .. Arity : Saved(M, k),
         NEW N \in Step(Code[M.pc], M)
  PROVE  Kept(N) /\ CallAt(N)
<1>1. Index \in Cell
  BY CallOperands
<1>2. Arity \in Nat
  BY SignatureIs
<1>3. S0 \in Seq(Cell) /\ Len(S0) = 1 /\ S0[1] = Bottom
  BY BottomIs DEF S0
<1>4. M.stack \in Seq(Cell) /\ Len(M.stack) = 1 /\ M.stack[1] = Bottom
  BY <1>3, MachineOf DEF Over
<1>5. M.stack = S0
  BY <1>4 DEF S0
<1>6. N \in Step(<<"ldloc", Slot>>, M)
  BY CallCode
<1>7. Became(M, N, Append(M.stack, Index), M.pc + 1)
  BY <1>1, <1>6, ToLdloc
<1>8. /\ Kept(N) /\ N.stack = S1(Index) /\ N.pc = Arity + 3 /\ ~N.thrown /\ N.vars = M.vars
  <2>1. S1(Index) = Append(S0, Index)
    BY <1>1, StackOf1
  <2>2. M.pc + 1 = Arity + 3
    BY <1>2
  <2> QED BY <1>5, <1>7, <2>1, <2>2 DEF Became
<1>9. N.vars[Slot] = Index /\ \A k \in 1 .. Arity : Saved(N, k)
  BY <1>8 DEF Saved
<1>10. /\ N.pc \in 1 .. 2 * Arity + 5 /\ N.pc \in Arity + 3 .. 2 * Arity + 4 /\ N.pc # 1
       /\ N.pc \notin 2 .. Arity + 2 /\ ~(N.pc > Arity + 3) /\ N.pc \notin Arity + 4 .. 2 * Arity + 4
       /\ N.pc # 2 * Arity + 5
  BY <1>2, <1>8
<1> QED BY <1>8, <1>9, <1>10 DEF CallAt

LEMMA CallFinds ==
  ASSUME Static, Name = "CALL_INDIRECT", NEW M, Kept(M), M.pc = Arity + 3, ~M.thrown,
         M.vars[Slot] = Index, M.stack = S1(Index), \A k \in 1 .. Arity : Saved(M, k),
         NEW N \in Step(Code[M.pc], M)
  PROVE  Kept(N) /\ CallAt(N)
<1>1. Index \in Cell /\ M \in Machine
  BY CallOperands, MachineOf
<1>2. Arity \in Nat
  BY SignatureIs
<1>3. M.stack = Append(S0, Index) /\ S0 \in Seq(Cell) /\ M.stack \in Seq(Cell)
  BY <1>1, StackOf1, BottomIs
<1>4. N \in Step(<<"ldelem", Table>>, M)
  BY CallCode
<1>5. \/ Index.value \in Table /\ Moves(M, N, M.stack, M.pc + 1)
      \/ Index.value \notin Table /\ N = Thrown(M)
  BY <1>1, <1>3, <1>4, LdelemStep
<1>6. CASE Index.value \in Table /\ Moves(M, N, M.stack, M.pc + 1)
  <2>1. Became(M, N, M.stack, M.pc + 1)
    BY <1>3, <1>6, MachineOf, ToMoved
  <2>2. Kept(N) /\ N.stack = S1(Index) /\ N.pc = Arity + 4 /\ ~N.thrown /\ N.vars = M.vars
    <3>1. M.pc + 1 = Arity + 4
      BY <1>2
    <3> QED BY <2>1, <3>1 DEF Became
  <2>3. N.vars[Slot] = Index /\ \A k \in 1 .. Arity : Saved(N, k)
    BY <2>2 DEF Saved
  <2>4. Over(N, S1(Index), 0)
    BY <1>1, <2>2, StackOf1 DEF Over
  <2>5. /\ N.pc \in 1 .. 2 * Arity + 5 /\ N.pc # 1 /\ N.pc - Arity - 4 = 0
        /\ N.pc \notin 2 .. Arity + 2 /\ N.pc # Arity + 3 /\ N.pc # 2 * Arity + 5
    BY <1>2, <2>2
  <2> QED BY <1>6, <2>2, <2>3, <2>4, <2>5 DEF CallAt
<1>7. CASE Index.value \notin Table /\ N = Thrown(M)
  <2>1. Kept(N) /\ N.stack = M.stack /\ N.pc = M.pc /\ N.thrown /\ N.vars = M.vars
    BY <1>7, KeptThrown
  <2>2. N.vars[Slot] = Index /\ \A k \in 1 .. Arity : Saved(N, k)
    BY <2>1 DEF Saved
  <2>3. /\ N.pc \in 1 .. 2 * Arity + 5 /\ N.pc # 1 /\ N.pc \notin 2 .. Arity + 2 /\ N.pc = Arity + 3
        /\ ~(N.pc > Arity + 3) /\ N.pc \notin Arity + 4 .. 2 * Arity + 4 /\ N.pc # 2 * Arity + 5
    BY <1>2, <2>1
  <2> QED BY <1>7, <2>1, <2>2, <2>3 DEF CallAt
<1> QED BY <1>5, <1>6, <1>7

\* The parameters come back in their order.
LEMMA CallGivesParameter ==
  ASSUME Static, Name = "CALL_INDIRECT", NEW M, Kept(M), NEW q \in 1 .. Arity, M.pc = Arity + 3 + q, ~M.thrown,
         M.vars[Slot] = Index, Index.value \in Table, Over(M, S1(Index), q - 1), \A k \in 1 .. Arity : Saved(M, k),
         NEW N \in Step(Code[M.pc], M)
  PROVE  Kept(N) /\ CallAt(N)
<1>1. operands[q] \in Cell /\ Index \in Cell
  BY CallOperands
<1>2. Arity \in Nat /\ q \in Nat
  BY SignatureIs
<1>3. Len(S1(Index)) = 2
  BY DEF S1
<1>4. N \in Step(<<"ldloc", Parameter(q)>>, M)
  BY CallCode
<1>5. M.vars[Parameter(q)] = operands[q]
  BY DEF Saved
<1>6. Became(M, N, Append(M.stack, operands[q]), M.pc + 1)
  BY <1>1, <1>4, <1>5, ToLdloc
<1>7. Kept(N) /\ N.stack = Append(M.stack, operands[q]) /\ N.pc = Arity + 4 + q /\ ~N.thrown /\ N.vars = M.vars
  <2>1. M.pc + 1 = Arity + 4 + q
    BY <1>2
  <2> QED BY <1>6, <2>1 DEF Became
<1>8. N.vars[Slot] = Index /\ \A k \in 1 .. Arity : Saved(N, k)
  BY <1>7 DEF Saved
<1> DEFINE base == S1(Index)
<1>9. /\ Len(base) = 2 /\ M.stack \in Seq(Cell) /\ Len(M.stack) = Len(base) + (q - 1)
      /\ \A k \in 1 .. Len(base) : M.stack[k] = base[k]
      /\ \A k \in 1 .. q - 1 : M.stack[Len(base) + k] = operands[k]
  BY <1>3, MachineOf DEF Over
<1> HIDE DEF base
<1>10. Over(N, base, q)
  <2>1. Len(N.stack) = Len(base) + q /\ N.stack[Len(base) + q] = operands[q]
    BY <1>1, <1>2, <1>7, <1>9
  <2>2. \A k \in 1 .. q + 1 : N.stack[k] = M.stack[k]
    BY <1>1, <1>2, <1>7, <1>9
  <2>3. \A k \in 1 .. Len(base) : N.stack[k] = base[k]
    BY <1>2, <1>9, <2>2
  <2>4. ASSUME NEW k \in 1 .. q
        PROVE  N.stack[Len(base) + k] = operands[k]
    <3>1. CASE k = q
      BY <2>1, <3>1
    <3>2. CASE k # q
      <4>1. k \in 1 .. q - 1 /\ Len(base) + k \in 1 .. q + 1
        BY <1>2, <1>9, <3>2
      <4> QED BY <1>9, <2>2, <4>1
    <3> QED BY <3>1, <3>2
  <2> QED BY <2>1, <2>3, <2>4 DEF Over
<1>11. /\ N.pc \in 1 .. 2 * Arity + 5 /\ N.pc # 1 /\ N.pc - Arity - 4 = q
       /\ N.pc \notin 2 .. Arity + 2 /\ N.pc # Arity + 3 /\ N.pc \in Arity + 4 .. 2 * Arity + 4 /\ N.pc # 2 * Arity + 5
  BY <1>2, <1>7
<1> QED BY <1>7, <1>8, <1>10, <1>11 DEF CallAt, base

\* The function is called with the index and the parameters.
LEMMA CallCalls ==
  ASSUME Static, Name = "CALL_INDIRECT", NEW M, Kept(M), M.pc = 2 * Arity + 4, ~M.thrown,
         M.vars[Slot] = Index, Index.value \in Table, Over(M, S1(Index), Arity),
         NEW N \in Step(Code[M.pc], M)
  PROVE  Kept(N) /\ CallAt(N)
<1>1. Index \in Cell /\ operands \in Seq(Cell) /\ Len(operands) = Arity + 1
  BY CallOperands
<1>2. Arity \in Nat
  BY SignatureIs
<1>3. M \in Machine /\ M.stack \in Seq(Cell)
  BY MachineOf
<1>4. /\ Len(M.stack) = Arity + 2 /\ M.stack[1] = Bottom /\ M.stack[2] = Index
      /\ \A k \in 1 .. Arity : M.stack[2 + k] = operands[k]
  BY <1>2 DEF Over, S1
<1>5. N \in Step(<<"callvirt", Arity>>, M)
  BY CallCode
<1> DEFINE s == Pop(M, Arity + 1)  c == SubSeq(M.stack, Len(M.stack) - Arity, Len(M.stack))
<1>6. Calls(M, N, s, c)
  BY <1>2, <1>3, <1>5, CallvirtStep DEF Calls
<1>7. s = S0
  <2>1. s = SubSeq(M.stack, 1, 1)
    BY <1>2, <1>4 DEF Pop
  <2>2. SubSeq(M.stack, 1, 1) = <<M.stack[1]>>
    <3>1. PICK one \in Nat : one = 1
      OBVIOUS
    <3>2. one <= Len(M.stack) /\ one \in 1 .. Len(M.stack) + 1
      BY <1>2, <1>4, <3>1
    <3> DEFINE r == SubSeq(M.stack, 1, one)
    <3>3. r \in Seq(Cell) /\ Len(r) = one /\ \A k \in 1 .. one : r[k] = M.stack[k]
      BY <1>3, <3>2
    <3> HIDE DEF r
    <3>4. r \in Seq(Cell) /\ Len(r) = 1 /\ r[1] = M.stack[1]
      BY <3>1, <3>3
    <3>5. r = <<M.stack[1]>>
      BY <3>4
    <3> QED BY <3>1, <3>5 DEF r
  <2> QED BY <1>4, <2>1, <2>2 DEF S0
<1>8. c = <<Index>> \o SubSeq(operands, 1, Arity) /\ c \in Seq(Cell)
  <2> DEFINE front == SubSeq(operands, 1, Arity)  call == <<Index>> \o front
  <2>1. front \in Seq(Cell) /\ Len(front) = Arity /\ \A k \in 1 .. Arity : front[k] = operands[k]
    BY <1>1, <1>2
  <2> HIDE DEF front
  <2>2. <<Index>> \in Seq(Cell) /\ Len(<<Index>>) = 1 /\ <<Index>>[1] = Index
    BY <1>1
  <2>3. call \in Seq(Cell) /\ Len(call) = Arity + 1 /\ call[1] = Index /\ \A k \in 1 .. Arity : call[1 + k] = front[k]
    BY <1>2, <2>1, <2>2
  <2> HIDE DEF call
  <2>4. c = SubSeq(M.stack, 2, Arity + 2)
    BY <1>2, <1>4
  <2>5. c \in Seq(Cell) /\ Len(c) = Arity + 1 /\ \A k \in 1 .. Arity + 1 : c[k] = M.stack[1 + k]
    BY <1>2, <1>3, <1>4, <2>4
  <2> HIDE DEF c
  <2>6. ASSUME NEW k \in 1 .. Arity + 1
        PROVE  c[k] = call[k]
    <3>1. CASE k = 1
      BY <1>2, <1>4, <2>3, <2>5, <3>1
    <3>2. CASE k # 1
      <4>1. k - 1 \in 1 .. Arity /\ 1 + k = 2 + (k - 1) /\ 1 + (k - 1) = k
        BY <1>2, <3>2
      <4>2. M.stack[2 + (k - 1)] = operands[k - 1] /\ call[1 + (k - 1)] = front[k - 1] /\ front[k - 1] = operands[k - 1]
        BY <1>4, <2>1, <2>3, <4>1
      <4> QED BY <2>5, <4>1, <4>2
    <3> QED BY <3>1, <3>2
  <2>7. c = call
    BY <1>2, <2>3, <2>5, <2>6
  <2> QED BY <2>3, <2>7 DEF call, front
<1>12. Calls(M, N, s, c) /\ s \in Seq(Cell) /\ c \in Seq(Cell)
  BY <1>6, <1>7, <1>8, BottomIs
<1> HIDE DEF s, c
<1>9. /\ N \in Machine /\ N.stack = S0 /\ N.pc = M.pc + 1 /\ N.thrown = M.thrown
      /\ N.called = c /\ N.args = M.args /\ N.vars = M.vars
  <2>1. /\ N \in Machine /\ N.stack = s /\ N.pc = M.pc + 1 /\ N.thrown = M.thrown
        /\ N.called = c /\ N.args = M.args /\ N.vars = M.vars
    BY <1>3, <1>12, CalledFacts
  <2> QED BY <1>7, <2>1
<1>10. Kept(N)
  BY <1>9 DEF Kept
<1>11. /\ N.pc = 2 * Arity + 5 /\ N.pc \in 1 .. 2 * Arity + 5 /\ N.pc # 1 /\ N.pc # Arity + 3
       /\ N.pc \notin 2 .. Arity + 2 /\ N.pc \notin Arity + 3 .. 2 * Arity + 4 /\ N.pc \notin Arity + 4 .. 2 * Arity + 4
  BY <1>2, <1>9
<1> QED BY <1>8, <1>9, <1>10, <1>11 DEF CallAt

LEMMA CallStep ==
  ASSUME Static, Name = "CALL_INDIRECT", NEW M, Kept(M), CallAt(M), M.pc <= Len(Code), ~M.thrown,
         NEW N \in Step(Code[M.pc], M)
  PROVE  Kept(N) /\ CallAt(N)
<1>1. Arity \in Nat /\ M.pc \in 1 .. 2 * Arity + 4
  <2>1. Arity \in Nat /\ Len(Code) = 2 * Arity + 4
    BY SignatureIs, CallCode
  <2> QED BY <2>1 DEF CallAt
<1>2. CASE M.pc = 1
  BY <1>2, CallTakesIndex DEF CallAt
<1>3. CASE M.pc \in 2 .. Arity + 1
  <2> DEFINE q == Arity + 2 - M.pc
  <2>1. q \in 1 .. Arity /\ M.pc = Arity + 2 - q
    BY <1>1, <1>3
  <2>2. M.vars[Slot] = Index /\ Over(M, S0, q) /\ \A k \in 1 .. Arity : k > q => Saved(M, k)
    BY <1>1, <1>3 DEF CallAt
  <2> HIDE DEF q
  <2> QED BY <2>1, <2>2, CallTakesParameter
<1>4. CASE M.pc = Arity + 2
  <2>1. /\ M.vars[Slot] = Index /\ Over(M, S0, Arity + 2 - M.pc)
        /\ \A k \in 1 .. Arity : k > Arity + 2 - M.pc => Saved(M, k)
    BY <1>1, <1>4 DEF CallAt
  <2>2. Arity + 2 - M.pc = 0 /\ \A k \in 1 .. Arity : k > Arity + 2 - M.pc
    BY <1>1, <1>4
  <2>3. Over(M, S0, 0) /\ \A k \in 1 .. Arity : Saved(M, k)
    BY <2>1, <2>2
  <2> QED BY <1>4, <2>1, <2>3, CallGivesIndex
<1>5. CASE M.pc = Arity + 3
  <2>1. M.vars[Slot] = Index /\ M.stack = S1(Index) /\ \A k \in 1 .. Arity : Saved(M, k)
    BY <1>1, <1>5 DEF CallAt
  <2> QED BY <1>5, <2>1, CallFinds
<1>6. CASE M.pc \in Arity + 4 .. 2 * Arity + 3
  <2> DEFINE q == M.pc - Arity - 3
  <2>1. q \in 1 .. Arity /\ M.pc = Arity + 3 + q /\ q - 1 = M.pc - Arity - 4
    BY <1>1, <1>6
  <2>2. /\ M.vars[Slot] = Index /\ Index.value \in Table /\ Over(M, S1(Index), M.pc - Arity - 4)
        /\ \A k \in 1 .. Arity : Saved(M, k)
    BY <1>1, <1>6 DEF CallAt
  <2> HIDE DEF q
  <2> QED BY <2>1, <2>2, CallGivesParameter
<1>7. CASE M.pc = 2 * Arity + 4
  <2>1. M.vars[Slot] = Index /\ Index.value \in Table /\ Over(M, S1(Index), M.pc - Arity - 4)
    BY <1>1, <1>7 DEF CallAt
  <2>2. M.pc - Arity - 4 = Arity
    BY <1>1, <1>7
  <2> QED BY <1>7, <2>1, <2>2, CallCalls
<1> QED BY <1>1, <1>2, <1>3, <1>4, <1>5, <1>6, <1>7

-------------------------------------------------------------------------------
(* Every step of every instruction. *)

LEMMA NamesAre ==
  ASSUME Static
  PROVE  \/ Name \in DOMAIN DirectOf \/ Name \in Orders \/ Name \in Conversions
         \/ Name \in {"NE", "EQZ", "ABS", "COPYSIGN", "SELECT", "LOCAL_GET", "LOCAL_SET", "LOCAL_TEE", "CALL_INDIRECT"}
<1>1. \/ Name \in IntInstrs \cup FloatInstrs \cup Conversions
      \/ Name \in {"EQZ", "NE", "SELECT", "LOCAL_GET", "LOCAL_SET", "LOCAL_TEE", "CALL_INDIRECT"}
  BY TypeIs
<1> QED BY <1>1, DirectNames DEF IntInstrs, FloatInstrs, Orders

\* The code of an instruction keeps what is known of that instruction, and the
\* others do not care.
LEMMA InsideStep ==
  ASSUME Static, NEW M, Kept(M), Inside(M), M.pc <= Len(Code), ~M.thrown, NEW N \in Step(Code[M.pc], M)
  PROVE  Kept(N) /\ Inside(N)
<1>1. CASE Name \in DOMAIN DirectOf
  <2>1. Kept(N) /\ DirectAt(N)
    BY <1>1, DirectStep DEF Inside
  <2> QED BY <1>1, <2>1, DirectNames DEF Inside, Orders, Conversions
<1>2. CASE Name \in Orders
  <2>1. Kept(N) /\ OrderAt(N)
    BY <1>2, OrderStep DEF Inside
  <2> QED BY <1>2, <2>1, DirectNames DEF Inside, Orders, Conversions
<1>3. CASE Name \in Conversions
  <2>1. Kept(N) /\ ConversionAt(N)
    BY <1>3, ConversionStep DEF Inside
  <2> QED BY <1>3, <2>1, DirectNames DEF Inside, Orders, Conversions
<1>4. CASE Name = "NE"
  <2>1. Kept(N) /\ NEAt(N)
    BY <1>4, NEStep DEF Inside
  <2> QED BY <1>4, <2>1, DirectNames DEF Inside, Orders, Conversions
<1>5. CASE Name = "EQZ"
  <2>1. Kept(N) /\ EQZAt(N)
    BY <1>5, EQZStep DEF Inside
  <2> QED BY <1>5, <2>1, DirectNames DEF Inside, Orders, Conversions
<1>6. CASE Name = "ABS"
  <2>1. Kept(N) /\ ABSAt(N)
    BY <1>6, ABSStep DEF Inside
  <2> QED BY <1>6, <2>1, DirectNames DEF Inside, Orders, Conversions
<1>7. CASE Name = "COPYSIGN"
  <2>1. Kept(N) /\ COPYSIGNAt(N)
    BY <1>7, COPYSIGNStep DEF Inside
  <2> QED BY <1>7, <2>1, DirectNames DEF Inside, Orders, Conversions
<1>8. CASE Name = "SELECT"
  <2>1. Kept(N) /\ SELECTAt(N)
    BY <1>8, SELECTStep DEF Inside
  <2> QED BY <1>8, <2>1, DirectNames DEF Inside, Orders, Conversions
<1>9. CASE Name = "LOCAL_GET"
  <2>1. Kept(N) /\ GetAt(N)
    BY <1>9, GetStep DEF Inside
  <2> QED BY <1>9, <2>1, DirectNames DEF Inside, Orders, Conversions
<1>10. CASE Name = "LOCAL_SET"
  <2>1. Kept(N) /\ SetAt(N)
    BY <1>10, SetStep DEF Inside
  <2> QED BY <1>10, <2>1, DirectNames DEF Inside, Orders, Conversions
<1>11. CASE Name = "LOCAL_TEE"
  <2>1. Kept(N) /\ TEEAt(N)
    BY <1>11, TEEStep DEF Inside
  <2> QED BY <1>11, <2>1, DirectNames DEF Inside, Orders, Conversions
<1>12. CASE Name = "CALL_INDIRECT"
  <2>1. Kept(N) /\ CallAt(N)
    BY <1>12, CallStep DEF Inside
  <2> QED BY <1>12, <2>1, DirectNames DEF Inside, Orders, Conversions
<1> QED BY NamesAre, <1>1, <1>2, <1>3, <1>4, <1>5, <1>6, <1>7, <1>8, <1>9, <1>10, <1>11, <1>12

-------------------------------------------------------------------------------
(* What is known of a step and of the state it leads to, in terms of the next  *)
(* state: only the method changes. *)

LEMMA SameVariables ==
  ASSUME UNCHANGED <<instr, sig, index, helpers, operands>>
  PROVE  /\ Static => Static'
         /\ Kept(m') => Kept(m)'
         /\ Inside(m') => Inside(m)'
<1>1. Static => Static'
  <2>1. Type' = Type /\ Name' = Name
    BY DEF Type, Name
  <2>2. Source' = Source
    BY <2>1, Zenon DEF Source
  <2>3. OperandTypes' = OperandTypes
    BY <2>1, <2>2, Zenon DEF OperandTypes
  <2>4. Operands' = Operands
    BY <2>3, SMT DEF Operands
  <2>5. OfType' = OfType
    BY <2>1, Zenon DEF OfType
  <2>6. Asked' = Asked
    BY <2>1, Zenon DEF Asked
  <2>7. Range(helpers)' = Range(helpers)
    BY Zenon DEF Range
  <2> QED BY <2>1, <2>4, <2>5, <2>6, <2>7, Zenon DEF Static
<1>2. Kept(m') => Kept(m)'
  BY Zenon DEF Kept, Machine, Indices, Variables, Sets, Name
<1>3. Type' = Type /\ Name' = Name /\ a' = a /\ b' = b /\ V0' = V0 /\ V1' = V1
  BY Zenon DEF Type, Name, a, b, V0, V1, getVariable, Place
<1>4. DirectAt(m') => DirectAt(m)'
  BY <1>3, Zenon DEF DirectAt, DirectOp
<1>5. OrderAt(m') => OrderAt(m)'
  BY <1>3, Zenon DEF OrderAt, Eq, Cmp, Ordered
<1>6. NEAt(m') => NEAt(m)'
  BY <1>3, Zenon DEF NEAt, Eq
<1>7. Zero' = Zero
  BY <1>3, Zenon DEF Zero
<1>8. EQZAt(m') => EQZAt(m)'
  BY <1>3, <1>7, Zenon DEF EQZAt
<1>9. ABSAt(m') => ABSAt(m)'
  BY <1>3, <1>7, Zenon DEF ABSAt, Lt, Below
<1>10. COPYSIGNAt(m') => COPYSIGNAt(m)'
  BY <1>3, <1>7, Zenon DEF COPYSIGNAt, Op, Opposite, Prod
<1>11. SELECTAt(m') => SELECTAt(m)'
  BY <1>3, Zenon DEF SELECTAt, Chosen
<1>12. GetAt(m') => GetAt(m)'
  BY Zenon DEF GetAt
<1>13. SetAt(m') => SetAt(m)'
  BY <1>3, Zenon DEF SetAt, At
<1>14. TEEAt(m') => TEEAt(m)'
  BY <1>3, Zenon DEF TEEAt, At
<1>15. CallAt(m') => CallAt(m)'
  BY Zenon DEF CallAt, Over, Saved, Slot, Index, Arity, Parameter, getVariable, Place
<1>16. FirstOp' = FirstOp /\ SecondOp' = SecondOp
  <2>1. ToType' = ToType /\ ToUnsignedType' = ToUnsignedType
    BY <1>3, Zenon DEF ToType, ToUnsignedType
  <2>2. SecondOp' = SecondOp
    BY <1>3, <2>1, Zenon DEF SecondOp
  <2>4. FirstOp' = FirstOp
    BY <1>3, <2>1, Zenon DEF FirstOp
  <2> QED BY <2>2, <2>4
<1>17. ConversionAt(m') => ConversionAt(m)'
  BY <1>3, <1>16, Zenon DEF ConversionAt
<1>18. Inside(m') => Inside(m)'
  BY <1>3, <1>4, <1>5, <1>6, <1>8, <1>9, <1>10, <1>11, <1>12, <1>13, <1>14, <1>15, <1>17, Zenon DEF Inside
<1> QED BY <1>1, <1>2, <1>18

-------------------------------------------------------------------------------
(* The initial states. *)

LEMMA SampleIs ==
  ASSUME NEW t \in Types, NEW n \in Int
  PROVE  Sample(t, n) \in Cell /\ Sample(t, n).type = t
<1>1. CASE t \in IntTypes
  BY <1>1, IntOfIs DEF Sample
<1>2. CASE t \notin IntTypes
  <2>1. t \in FloatTypes
    BY <1>2 DEF Types
  <2> QED BY <1>2, <2>1, FloatOfIs DEF Sample
<1> QED BY <1>1, <1>2

LEMMA TypesOfLocals ==
  /\ ParamTypes \in Seq(Types) /\ LocalTypes \in Seq(Types) /\ Len(ParamTypes) = 4 /\ Len(LocalTypes) = 4
  /\ \A k \in 0 .. 3 : ParamTypes[k + 1] \in Types /\ LocalTypes[k + 1] \in Types
<1>1. /\ ParamTypes \in Seq(Types) /\ LocalTypes \in Seq(Types) /\ Len(ParamTypes) = 4 /\ Len(LocalTypes) = 4
  BY DEF ParamTypes, LocalTypes, Types, IntTypes, FloatTypes
<1>2. \A k \in 0 .. 3 : k + 1 \in 1 .. 4
  OBVIOUS
<1> QED BY <1>1, <1>2

LEMMA LocalsAre ==
  /\ DOMAIN LocalsAtFirst = 0 .. 7
  /\ \A k \in ParamIndices : LocalsAtFirst[k] \in Cell /\ LocalsAtFirst[k].type = ParamTypes[k + 1]
  /\ \A k \in LocalIndices : LocalsAtFirst[4 + k] \in Cell /\ LocalsAtFirst[4 + k].type = LocalTypes[k + 1]
<1>1. DOMAIN LocalsAtFirst = 0 .. 7
  BY TypesOfLocals DEF LocalsAtFirst
<1>2. ASSUME NEW k \in ParamIndices
      PROVE  LocalsAtFirst[k] \in Cell /\ LocalsAtFirst[k].type = ParamTypes[k + 1]
  <2>1. LocalsAtFirst[k] = Sample(ParamTypes[k + 1], 1)
    BY TypesOfLocals DEF LocalsAtFirst, ParamIndices
  <2>2. ParamTypes[k + 1] \in Types
    BY TypesOfLocals DEF ParamIndices
  <2>3. PICK one \in Int : one = 1
    OBVIOUS
  <2>4. LocalsAtFirst[k] = Sample(ParamTypes[k + 1], one)
    BY <2>1, <2>3
  <2> QED BY <2>2, <2>4, SampleIs
<1>3. ASSUME NEW k \in LocalIndices
      PROVE  LocalsAtFirst[4 + k] \in Cell /\ LocalsAtFirst[4 + k].type = LocalTypes[k + 1]
  <2>1. LocalsAtFirst[4 + k] = Sample(LocalTypes[k + 1], -1)
    <3> DEFINE w == 4 + k
    <3>1. w \in 0 .. 7 /\ ~(w < 4) /\ w - 4 + 1 = k + 1
      BY DEF LocalIndices
    <3>2. LocalsAtFirst = [n \in 0 .. 7 |-> IF n < 4 THEN Sample(ParamTypes[n + 1], 1) ELSE Sample(LocalTypes[n - 4 + 1], -1)]
      BY TypesOfLocals DEF LocalsAtFirst
    <3> HIDE DEF w
    <3>3. LocalsAtFirst[w] = Sample(LocalTypes[w - 4 + 1], -1)
      BY <3>1, <3>2
    <3> QED BY <3>1, <3>3 DEF w
  <2>2. LocalTypes[k + 1] \in Types
    BY TypesOfLocals DEF LocalIndices
  <2>3. PICK minus \in Int : minus = -1
    OBVIOUS
  <2>4. LocalsAtFirst[4 + k] = Sample(LocalTypes[k + 1], minus)
    BY <2>1, <2>3
  <2> QED BY <2>2, <2>4, SampleIs
<1> QED BY <1>1, <1>2, <1>3

LEMMA VariablesAre ==
  ASSUME helpers \in MakingOrders
  PROVE  /\ Len(Variables) = 5 + Len(helpers) /\ Len(helpers) \in Nat /\ Indices = 0 .. Len(Variables) - 1
         /\ \A k \in Indices : Variables[k + 1] \in Types
         /\ \A k \in LocalIndices : k \in Indices /\ Variables[k + 1] = LocalTypes[k + 1]
<1> DEFINE kinds == [k \in DOMAIN helpers |-> helpers[k][1]]  first == LocalTypes \o <<"i32">>
<1>1. Len(helpers) \in Nat /\ DOMAIN helpers = 1 .. Len(helpers)
  BY HelpersAre
<1>2. kinds \in Seq(Types) /\ Len(kinds) = Len(helpers)
  <2>1. \A k \in 1 .. Len(helpers) : helpers[k][1] \in Types
    BY HelpersAre
  <2>2. kinds \in [1 .. Len(helpers) -> Types]
    BY <1>1, <2>1
  <2> QED BY <1>1, <2>2
<1>3. Variables = first \o kinds
  BY DEF Variables
<1> HIDE DEF kinds
<1>4. first \in Seq(Types) /\ Len(first) = 5 /\ \A k \in 1 .. 4 : first[k] = LocalTypes[k]
  <2> DEFINE heapaddr == <<"i32">>
  <2>1. LocalTypes \in Seq(Types) /\ heapaddr \in Seq(Types) /\ Len(LocalTypes) = 4 /\ Len(heapaddr) = 1
    BY TypesOfLocals, TypesAre
  <2>3. first = LocalTypes \o heapaddr
    OBVIOUS
  <2> HIDE DEF first, heapaddr
  <2>2. /\ first \in Seq(Types) /\ Len(first) = Len(LocalTypes) + Len(heapaddr)
        /\ \A k \in 1 .. Len(LocalTypes) : first[k] = LocalTypes[k]
    <3>1. LocalTypes \in Seq(Types) /\ heapaddr \in Seq(Types)
      BY <2>1
    <3> QED BY <3>1, <2>3
  <2> QED BY <2>1, <2>2
<1>5. Variables \in Seq(Types) /\ Len(Variables) = 5 + Len(helpers) /\ \A k \in 1 .. 5 : Variables[k] = first[k]
  <2>1. first \in Seq(Types) /\ kinds \in Seq(Types)
    BY <1>2, <1>4
  <2>2. /\ first \o kinds \in Seq(Types) /\ Len(first \o kinds) = Len(first) + Len(kinds)
        /\ \A k \in 1 .. Len(first) : (first \o kinds)[k] = first[k]
    BY <2>1
  <2> QED BY <1>2, <1>3, <1>4, <2>2
<1>6. \A k \in Indices : Variables[k + 1] \in Types
  BY <1>1, <1>5 DEF Indices
<1>7. ASSUME NEW k \in LocalIndices
      PROVE  k \in Indices /\ Variables[k + 1] = LocalTypes[k + 1]
  <2>1. k + 1 \in 1 .. 4 /\ k + 1 \in 1 .. 5 /\ k \in Indices
    BY <1>1 DEF LocalIndices, Indices
  <2> QED BY <1>4, <1>5, <2>1
<1> QED BY <1>1, <1>5, <1>6, <1>7 DEF Indices

LEMMA OperandTypesAre ==
  ASSUME Static
  PROVE  OperandTypes \in Seq(Types)
<1>1. CASE Name \in Conversions
  BY <1>1, ConvertedIs
<1>0. Type \in Types
  BY TypeIs
<1>2. CASE OneOperand
  <2>1. OperandTypes = <<Type>>
    BY <1>2, OneIs
  <2> QED BY <1>0, <2>1
<1>3. CASE TwoOperands
  <2>1. OperandTypes = <<Type, Type>>
    BY <1>3, TwoAre
  <2> QED BY <1>0, <2>1
<1>4. CASE Name = "LOCAL_GET"
  <2>1. OperandTypes = <<>>
    BY <1>4, Zenon DEF OperandTypes, Conversions
  <2> QED BY <2>1
<1>5. CASE Name = "SELECT"
  <2>1. OperandTypes = <<Type, Type, "i32">>
    BY <1>5, Zenon DEF OperandTypes, Conversions
  <2> QED BY <2>1, TypeIs, TypesAre
<1>6. CASE Name = "CALL_INDIRECT"
  <2>1. OperandTypes = Append(sig, "i32")
    BY <1>6, Zenon DEF OperandTypes, Conversions
  <2> QED BY <1>6, <2>1, SignatureIs, TypesAre
<1> QED BY NamesAre, DirectNames, <1>1, <1>2, <1>3, <1>4, <1>5, <1>6 DEF Orders, OneOperand, TwoOperands, IntInstrs

\* The operands lie over the bottom of the stack.
LEMMA FirstStack ==
  ASSUME Static
  PROVE  /\ S0 \o operands \in Seq(Cell)
         /\ operands = <<>> => S0 \o operands = S0
         /\ \A x \in Cell : operands = <<x>> => S0 \o operands = S1(x)
         /\ \A x, y \in Cell : operands = <<x, y>> => S0 \o operands = S2(x, y)
         /\ \A x, y, z \in Cell : operands = <<x, y, z>> => S0 \o operands = S3(x, y, z)
<1>1. operands \in Seq(Cell)
  BY OperandTypesAre, OperandsOf
<1> DEFINE w == S0 \o operands
<1>2. /\ w \in Seq(Cell) /\ Len(w) = Len(S0) + Len(operands)
      /\ \A k \in 1 .. Len(S0) : w[k] = S0[k]
      /\ \A k \in 1 .. Len(operands) : w[Len(S0) + k] = operands[k]
  <2>1. S0 \in Seq(Cell)
    BY BottomIs
  <2> QED BY <1>1, <2>1
<1> HIDE DEF w
<1>3. /\ w \in Seq(Cell) /\ Len(w) = 1 + Len(operands) /\ w[1] = Bottom
      /\ \A k \in 1 .. Len(operands) : w[1 + k] = operands[k]
  <2>1. Len(S0) = 1 /\ S0[1] = Bottom
    BY DEF S0
  <2> QED BY <1>2, <2>1
<1>4. operands = <<>> => w = S0
  BY <1>3 DEF S0
<1>5. ASSUME NEW x \in Cell, operands = <<x>>
      PROVE  w = S1(x)
  <2>1. Len(operands) = 1 /\ operands[1] = x
    BY <1>5
  <2>2. Len(w) = 2 /\ w[1] = Bottom /\ w[2] = x
    BY <1>3, <2>1
  <2>3. w \in Seq(Cell) /\ Len(w) = 2
    BY <1>3, <2>2
  <2>4. w = <<w[1], w[2]>>
    BY <2>3
  <2> QED BY <2>2, <2>4 DEF S1
<1>6. ASSUME NEW x \in Cell, NEW y \in Cell, operands = <<x, y>>
      PROVE  w = S2(x, y)
  <2>1. Len(operands) = 2 /\ operands[1] = x /\ operands[2] = y
    BY <1>6
  <2>2. Len(w) = 3 /\ w[1] = Bottom /\ w[2] = x /\ w[3] = y
    BY <1>3, <2>1
  <2>3. w \in Seq(Cell) /\ Len(w) = 3
    BY <1>3, <2>2
  <2>4. w = <<w[1], w[2], w[3]>>
    BY <2>3
  <2> QED BY <2>2, <2>4 DEF S2
<1>7. ASSUME NEW x \in Cell, NEW y \in Cell, NEW z \in Cell, operands = <<x, y, z>>
      PROVE  w = S3(x, y, z)
  <2>1. Len(operands) = 3 /\ operands[1] = x /\ operands[2] = y /\ operands[3] = z
    BY <1>7
  <2>2. Len(w) = 4 /\ w[1] = Bottom /\ w[2] = x /\ w[3] = y /\ w[4] = z
    BY <1>3, <2>1
  <2>3. w \in Seq(Cell) /\ Len(w) = 4
    BY <1>3, <2>2
  <2>4. w = <<w[1], w[2], w[3], w[4]>>
    BY <2>3
  <2> QED BY <2>2, <2>4 DEF S3
<1> QED BY <1>3, <1>4, <1>5, <1>6, <1>7 DEF w

LEMMA StartKept ==
  ASSUME Init
  PROVE  Static /\ Kept(m) /\ m.pc = 1 /\ m.stack = S0 \o operands /\ ~m.thrown
<1>1. Static
  BY DEF Init, Static
<1>2. PICK n \in {0, 1} :
        m = [stack |-> <<Bottom>> \o operands, pc |-> 1, thrown |-> FALSE, called |-> <<>>,
             args |-> [k \in 0 .. Len(ParamTypes) - 1 |-> LocalsAtFirst[k]],
             vars |-> [k \in 0 .. Len(Variables) - 1 |->
                         IF k < Len(LocalTypes) THEN LocalsAtFirst[Len(ParamTypes) + k]
                                                ELSE Sample(Variables[k + 1], n)]]
  BY DEF Init
<1> DEFINE args == [k \in ParamIndices |-> LocalsAtFirst[k]]
           vars0 == [k \in Indices |-> IF k < 4 THEN LocalsAtFirst[4 + k] ELSE Sample(Variables[k + 1], n)]
<1>3. helpers \in MakingOrders
  BY <1>1 DEF Static
<1>4. 0 .. Len(ParamTypes) - 1 = ParamIndices /\ 0 .. Len(Variables) - 1 = Indices
  BY <1>3, TypesOfLocals, VariablesAre DEF ParamIndices
<1>5. Len(ParamTypes) = 4 /\ Len(LocalTypes) = 4
  BY TypesOfLocals
<1>6. m = [stack |-> S0 \o operands, pc |-> 1, thrown |-> FALSE, called |-> <<>>, args |-> args, vars |-> vars0]
  BY <1>2, <1>4, <1>5, Zenon DEF S0
<1>7. \A k \in ParamIndices : args[k] = LocalsAtFirst[k] /\ args[k] \in Cell /\ args[k].type = ParamTypes[k + 1]
  BY LocalsAre
<1>8. \A k \in LocalIndices : vars0[k] = LocalsAtFirst[4 + k] /\ vars0[k] \in Cell /\ vars0[k].type = Variables[k + 1]
  <2> SUFFICES ASSUME NEW k \in LocalIndices
               PROVE  vars0[k] = LocalsAtFirst[4 + k] /\ vars0[k] \in Cell /\ vars0[k].type = Variables[k + 1]
    OBVIOUS
  <2>1. k \in Indices /\ Variables[k + 1] = LocalTypes[k + 1]
    BY <1>3, VariablesAre
  <2>2. k < 4
    BY DEF LocalIndices
  <2>3. vars0[k] = LocalsAtFirst[4 + k]
    BY <2>1, <2>2
  <2> HIDE DEF vars0
  <2> QED BY <2>1, <2>3, LocalsAre
<1>9. \A k \in Indices : vars0[k] \in Cell /\ vars0[k].type = Variables[k + 1]
  <2> SUFFICES ASSUME NEW k \in Indices
               PROVE  vars0[k] \in Cell /\ vars0[k].type = Variables[k + 1]
    OBVIOUS
  <2>1. CASE k < 4
    <3>1. k \in LocalIndices
      BY <1>3, <2>1, VariablesAre DEF LocalIndices, Indices
    <3> HIDE DEF vars0
    <3> QED BY <1>8, <3>1
  <2>2. CASE ~(k < 4)
    <3>1. vars0[k] = Sample(Variables[k + 1], n)
      BY <2>2
    <3>2. Variables[k + 1] \in Types /\ n \in Int
      BY <1>3, VariablesAre
    <3> HIDE DEF vars0
    <3> QED BY <3>1, <3>2, SampleIs
  <2> QED BY <2>1, <2>2
<1>10. args \in [ParamIndices -> Cell]
  BY <1>7
<1>11. vars0 \in [Indices -> Cell]
  BY <1>9
<1> HIDE DEF args, vars0
<1>12. m \in Machine
  <2>1. S0 \o operands \in Seq(Cell) /\ <<>> \in Seq(Cell)
    BY <1>1, FirstStack
  <2> QED BY <1>6, <1>10, <1>11, <2>1 DEF Machine
<1>13. /\ m.pc = 1 /\ m.stack = S0 \o operands /\ ~m.thrown /\ m.args = args /\ m.vars = vars0
  BY <1>6
<1>14. Kept(m)
  BY <1>7, <1>8, <1>9, <1>12, <1>13 DEF Kept
<1> QED BY <1>1, <1>13, <1>14

LEMMA Start ==
  ASSUME Init
  PROVE  IInv
<1>1. Static /\ Kept(m) /\ m.pc = 1 /\ m.stack = S0 \o operands /\ ~m.thrown
  BY StartKept
<1>2. CASE TwoOperands
  <2>1. m.stack = S2(a, b)
    BY <1>1, <1>2, TwoAre, FirstStack
  <2> QED BY <1>1, <1>2, <2>1, DirectNames
          DEF IInv, Inside, TwoOperands, IntInstrs, Conversions, Orders, DirectAt, OrderAt, NEAt, COPYSIGNAt
<1>3. CASE OneOperand
  <2>1. m.stack = S1(a)
    BY <1>1, <1>3, OneIs, FirstStack
  <2> QED BY <1>1, <1>3, <2>1, DirectNames
          DEF IInv, Inside, OneOperand, Conversions, Orders, EQZAt, ABSAt, SetAt, TEEAt
<1>4. CASE Name \in Conversions
  <2>1. m.stack = S1(a)
    BY <1>1, <1>4, ConvertedIs, FirstStack
  <2>2. ConversionAt(m)
    BY <1>1, <2>1 DEF ConversionAt
  <2> QED BY <1>1, <1>4, <2>2, DirectNames DEF IInv, Inside, Conversions, Orders
<1>5. CASE Name = "LOCAL_GET"
  <2>1. OperandTypes = <<>>
    BY <1>5, Zenon DEF OperandTypes, Conversions
  <2>2. operands = <<>>
    BY <1>1, <2>1, OperandTypesAre, OperandsOf
  <2>3. m.stack = S0
    BY <1>1, <2>2, FirstStack
  <2>4. GetAt(m)
    BY <1>1, <2>3 DEF GetAt
  <2> QED BY <1>1, <1>5, <2>4, DirectNames DEF IInv, Inside, Conversions, Orders
<1>6. CASE Name = "SELECT"
  <2>1. m.stack = S3(a, b, operands[3])
    BY <1>1, <1>6, SelectOperands, FirstStack
  <2>2. SELECTAt(m)
    BY <1>1, <2>1 DEF SELECTAt
  <2> QED BY <1>1, <1>6, <2>2, DirectNames DEF IInv, Inside, Conversions, Orders
<1>7. CASE Name = "CALL_INDIRECT"
  <2>1. Arity \in Nat
    BY <1>1, <1>7, SignatureIs
  <2>2. CallAt(m)
    BY <1>1, <2>1 DEF CallAt
  <2> QED BY <1>1, <1>7, <2>2, DirectNames DEF IInv, Inside, Conversions, Orders
<1> QED BY <1>1, NamesAre, DirectNames, <1>2, <1>3, <1>4, <1>5, <1>6, <1>7
        DEF TwoOperands, OneOperand, IntInstrs, Orders

-------------------------------------------------------------------------------
(* How long the code of an instruction is: after that many instructions it ends. *)

LEMMA AccessCode ==
  /\ Name = "LOCAL_GET" => Len(Code) = 1
  /\ Name = "LOCAL_SET" => Len(Code) = 1
  /\ Name = "LOCAL_TEE" => Len(Code) = 2
<1>1. ASSUME Name = "LOCAL_GET"
      PROVE  Len(Code) = 1
  <2>1. Name \notin DOMAIN DirectOf
    BY <1>1, DirectNames
  <2>2. Code = EmitGet
    BY <1>1, <2>1, Zenon DEF Code, Orders, Conversions
  <2> QED BY <2>2 DEF EmitGet
<1>2. ASSUME Name = "LOCAL_SET"
      PROVE  Len(Code) = 1
  <2>1. Name \notin DOMAIN DirectOf
    BY <1>2, DirectNames
  <2>2. Code = EmitSet
    BY <1>2, <2>1, Zenon DEF Code, Orders, Conversions
  <2> QED BY <2>2 DEF EmitSet
<1>3. ASSUME Name = "LOCAL_TEE"
      PROVE  Len(Code) = 2
  <2>1. Name \notin DOMAIN DirectOf
    BY <1>3, DirectNames
  <2>2. Code = EmitTEE
    BY <1>3, <2>1, Zenon DEF Code, Orders, Conversions
  <2> QED BY <2>2 DEF EmitTEE, EmitSet
<1> QED BY <1>1, <1>2, <1>3

LEMMA CodeIs ==
  ASSUME Static
  PROVE  /\ Len(Code) \in Nat
         /\ Name \in DOMAIN DirectOf => Len(Code) = 1
         /\ Name \in Orders => Len(Code) = 9
         /\ Name = "NE" => Len(Code) = 3
         /\ Name = "EQZ" => Len(Code) = 2
         /\ Name = "ABS" => Len(Code) = 6
         /\ Name = "COPYSIGN" => Len(Code) = 11
         /\ Name = "SELECT" => Len(Code) = 7
         /\ Name \in {"LOCAL_GET", "LOCAL_SET"} => Len(Code) = 1
         /\ Name = "LOCAL_TEE" => Len(Code) = 2
         /\ Name = "CALL_INDIRECT" => Len(Code) = 2 * Arity + 4 /\ Arity \in Nat
         /\ Name \in TwoConversions => Len(Code) = 2
         /\ Name \in Conversions \ TwoConversions => Len(Code) = 1
<1>1. Name \in DOMAIN DirectOf => Len(Code) = 1
  BY DirectCode
<1>2. Name \in Orders => Len(Code) = 9
  BY OrderCode
<1>3. /\ Name = "NE" => Len(Code) = 3
      /\ Name = "EQZ" => Len(Code) = 2
      /\ Name = "ABS" => Len(Code) = 6
  BY NECode, EQZCode, ABSCode
<1>4. /\ Name = "COPYSIGN" => Len(Code) = 11
      /\ Name = "SELECT" => Len(Code) = 7
  BY COPYSIGNCode, SELECTCode
<1>5. /\ Name \in {"LOCAL_GET", "LOCAL_SET"} => Len(Code) = 1
      /\ Name = "LOCAL_TEE" => Len(Code) = 2
  BY AccessCode
<1>6. Name = "CALL_INDIRECT" => Len(Code) = 2 * Arity + 4 /\ Arity \in Nat
  BY CallCode, SignatureIs
<1>7. TwoConversions \subseteq Conversions
  BY DEF TwoConversions, Conversions
<1>8. /\ Name \in TwoConversions => Len(Code) = 2
      /\ Name \in Conversions \ TwoConversions => Len(Code) = 1
  BY <1>7, ConversionCode
<1>9. Len(Code) \in Nat
  <2>1. Name = "CALL_INDIRECT" => Len(Code) \in Nat
    BY <1>6
  <2> QED BY NamesAre, <1>1, <1>2, <1>3, <1>4, <1>5, <2>1, <1>8
<1> QED BY <1>1, <1>2, <1>3, <1>4, <1>5, <1>6, <1>8, <1>9

-------------------------------------------------------------------------------
(* The invariant is one. *)

LEMMA StepKeeps ==
  ASSUME IInv, [Next]_vars
  PROVE  IInv'
<1>1. CASE Next
  <2>1. UNCHANGED <<instr, sig, index, helpers, operands>> /\ m' \in Step(Code[m.pc], m)
    BY <1>1 DEF Next, Run
  <2>2. ~m.thrown /\ m.pc <= Len(Code)
    <3>1. m.pc \in Nat
      BY DEF IInv, Kept, Machine
    <3>2. Len(Code) \in Nat
      BY CodeIs DEF IInv
    <3>3. ~m.thrown /\ ~(m.pc > Len(Code))
      BY <1>1 DEF Next, Run, Ended
    <3> QED BY <3>1, <3>2, <3>3
  <2>3. Static /\ Kept(m) /\ Inside(m)
    BY DEF IInv
  <2>4. Kept(m') /\ Inside(m')
    BY <2>1, <2>2, <2>3, InsideStep
  <2>5. Static' /\ Kept(m)' /\ Inside(m)'
    BY <2>1, <2>3, <2>4, SameVariables
  <2> QED BY <2>5 DEF IInv
<1>2. CASE UNCHANGED vars
  <2>1. UNCHANGED <<instr, sig, index, helpers, operands>> /\ m' = m
    BY <1>2 DEF vars
  <2>2. Static /\ Kept(m') /\ Inside(m')
    BY <2>1 DEF IInv
  <2>3. Static' /\ Kept(m)' /\ Inside(m)'
    BY <2>1, <2>2, SameVariables
  <2> QED BY <2>3 DEF IInv
<1> QED BY <1>1, <1>2

-------------------------------------------------------------------------------
(* What the invariant says of every state: TypeOK and NothingElseTouched. *)

LEMMA PcIs ==
  ASSUME IInv
  PROVE  m.pc \in 1 .. Len(Code) + 1 /\ m.pc \in Nat /\ Len(Code) \in Nat
<1>0. Static /\ Inside(m) /\ m.pc \in Nat
  BY DEF IInv, Kept, Machine
<1>1. CASE Name \in DOMAIN DirectOf
  <2>1. DirectAt(m)
    BY <1>0, <1>1, Zenon DEF Inside
  <2>2. Len(Code) = 1
    BY <1>1, DirectCode
  <2> QED BY <1>0, <2>1, <2>2 DEF DirectAt
<1>2. CASE Name \in Orders
  <2>1. OrderAt(m)
    BY <1>0, <1>2, Zenon DEF Inside
  <2>2. Len(Code) = 9
    BY <1>2, OrderCode
  <2> QED BY <1>0, <2>1, <2>2 DEF OrderAt
<1>3. CASE Name = "NE"
  <2>1. NEAt(m)
    BY <1>0, <1>3, Zenon DEF Inside
  <2>2. Len(Code) = 3
    BY <1>3, NECode
  <2> QED BY <1>0, <2>1, <2>2 DEF NEAt
<1>4. CASE Name = "EQZ"
  <2>1. EQZAt(m)
    BY <1>0, <1>4, Zenon DEF Inside
  <2>2. Len(Code) = 2
    BY <1>4, EQZCode
  <2> QED BY <1>0, <2>1, <2>2 DEF EQZAt
<1>5. CASE Name = "ABS"
  <2>1. ABSAt(m)
    BY <1>0, <1>5, Zenon DEF Inside
  <2>2. Len(Code) = 6
    BY <1>5, ABSCode
  <2> QED BY <1>0, <2>1, <2>2 DEF ABSAt
<1>6. CASE Name = "COPYSIGN"
  <2>1. COPYSIGNAt(m)
    BY <1>0, <1>6, Zenon DEF Inside
  <2>2. Len(Code) = 11
    BY <1>6, COPYSIGNCode
  <2> QED BY <1>0, <2>1, <2>2 DEF COPYSIGNAt
<1>7. CASE Name = "SELECT"
  <2>1. SELECTAt(m)
    BY <1>0, <1>7, Zenon DEF Inside
  <2>2. Len(Code) = 7
    BY <1>7, SELECTCode
  <2> QED BY <1>0, <2>1, <2>2 DEF SELECTAt
<1>8. CASE Name = "LOCAL_GET"
  <2>1. GetAt(m)
    BY <1>0, <1>8, Zenon DEF Inside
  <2>2. Len(Code) = 1
    BY <1>8, AccessCode
  <2> QED BY <1>0, <2>1, <2>2 DEF GetAt
<1>9. CASE Name = "LOCAL_SET"
  <2>1. SetAt(m)
    BY <1>0, <1>9, Zenon DEF Inside
  <2>2. Len(Code) = 1
    BY <1>9, AccessCode
  <2> QED BY <1>0, <2>1, <2>2 DEF SetAt
<1>10. CASE Name = "LOCAL_TEE"
  <2>1. TEEAt(m)
    BY <1>0, <1>10, Zenon DEF Inside
  <2>2. Len(Code) = 2
    BY <1>10, AccessCode
  <2> QED BY <1>0, <2>1, <2>2 DEF TEEAt
<1>11. CASE Name = "CALL_INDIRECT"
  <2>1. CallAt(m) /\ Len(Code) = 2 * Arity + 4 /\ Arity \in Nat
    BY <1>0, <1>11, CodeIs DEF Inside
  <2> QED BY <1>0, <2>1 DEF CallAt
<1>12. CASE Name \in Conversions
  <2>1. ConversionAt(m)
    BY <1>0, <1>12 DEF Inside
  <2>2. Len(Code) = IF Name \in TwoConversions THEN 2 ELSE 1
    BY <1>0, <1>12, ConversionCode
  <2> QED BY <1>0, <2>1, <2>2 DEF ConversionAt
<1> QED BY <1>0, NamesAre, <1>1, <1>2, <1>3, <1>4, <1>5, <1>6, <1>7, <1>8, <1>9, <1>10, <1>11, <1>12

LEMMA Typed ==
  ASSUME IInv
  PROVE  TypeOK
<1>1. Static /\ Kept(m) /\ m \in Machine
  BY DEF IInv, Kept
<1>2. instr \in Instrs /\ helpers \in MakingOrders
  BY <1>1 DEF Static
<1>3. ASSUME NEW i \in DOMAIN m.stack
      PROVE  m.stack[i].type \in {"none"} \cup IntTypes \cup FloatTypes
  <2>1. m.stack \in Seq(Cell)
    BY <1>1 DEF Machine
  <2>2. m.stack[i] \in Cell
    BY <2>1
  <2> QED BY <2>2 DEF Cell, Types
<1>4. DOMAIN m.args = ParamIndices /\ DOMAIN m.vars = Indices
  BY <1>1 DEF Machine
<1>5. /\ \A k \in DOMAIN m.args : m.args[k].type = ParamTypes[k + 1]
      /\ \A k \in DOMAIN m.vars : m.vars[k].type = Variables[k + 1]
  BY <1>1, <1>4 DEF Kept
<1> QED BY <1>2, <1>3, <1>5, PcIs DEF TypeOK

LEMMA OverBottom ==
  ASSUME NEW M, NEW base, NEW n, Len(base) \in Nat \ {0}, base[1] = Bottom, n \in Nat, Over(M, base, n)
  PROVE  Len(M.stack) \in Nat \ {0} /\ M.stack[1] = Bottom
BY DEF Over

LEMMA StacksAre ==
  /\ Len(S0) = 1 /\ S0[1] = Bottom
  /\ \A x : Len(S1(x)) = 2 /\ S1(x)[1] = Bottom
  /\ \A x, y : Len(S2(x, y)) = 3 /\ S2(x, y)[1] = Bottom
  /\ \A x, y, z : Len(S3(x, y, z)) = 4 /\ S3(x, y, z)[1] = Bottom
BY DEF S0, S1, S2, S3

LEMMA BottomKept ==
  ASSUME IInv
  PROVE  Len(m.stack) \in Nat \ {0} /\ m.stack[1] = Bottom
<1>0. Static /\ Inside(m) /\ m.pc \in Nat
  BY DEF IInv, Kept, Machine
<1>1. CASE Name \in DOMAIN DirectOf
  <2>1. DirectAt(m)
    BY <1>0, <1>1, Zenon DEF Inside
  <2> QED BY <1>0, <2>1, StacksAre DEF DirectAt
<1>2. CASE Name \in Orders
  <2>1. OrderAt(m)
    BY <1>0, <1>2, Zenon DEF Inside
  <2> QED BY <1>0, <2>1, StacksAre DEF OrderAt
<1>3. CASE Name = "NE"
  <2>1. NEAt(m)
    BY <1>0, <1>3, Zenon DEF Inside
  <2> QED BY <1>0, <2>1, StacksAre DEF NEAt
<1>4. CASE Name = "EQZ"
  <2>1. EQZAt(m)
    BY <1>0, <1>4, Zenon DEF Inside
  <2> QED BY <1>0, <2>1, StacksAre DEF EQZAt
<1>5. CASE Name = "ABS"
  <2>1. ABSAt(m)
    BY <1>0, <1>5, Zenon DEF Inside
  <2> QED BY <1>0, <2>1, StacksAre DEF ABSAt
<1>6. CASE Name = "COPYSIGN"
  <2>1. COPYSIGNAt(m)
    BY <1>0, <1>6, Zenon DEF Inside
  <2> QED BY <1>0, <2>1, StacksAre DEF COPYSIGNAt
<1>7. CASE Name = "SELECT"
  <2>1. SELECTAt(m)
    BY <1>0, <1>7, Zenon DEF Inside
  <2>2. \/ m.stack = S3(a, b, operands[3]) \/ m.stack = S2(a, b) \/ m.stack = S1(a) \/ m.stack = S0
        \/ m.stack = S1(IF Chosen THEN a ELSE b)
    BY <1>0, <2>1 DEF SELECTAt
  <2> QED BY <2>2, StacksAre
<1>8. CASE Name = "LOCAL_GET"
  <2>1. GetAt(m)
    BY <1>0, <1>8, Zenon DEF Inside
  <2> QED BY <1>0, <2>1, StacksAre DEF GetAt
<1>9. CASE Name = "LOCAL_SET"
  <2>1. SetAt(m)
    BY <1>0, <1>9, Zenon DEF Inside
  <2> QED BY <1>0, <2>1, StacksAre DEF SetAt
<1>10. CASE Name = "LOCAL_TEE"
  <2>1. TEEAt(m)
    BY <1>0, <1>10, Zenon DEF Inside
  <2> QED BY <1>0, <2>1, StacksAre DEF TEEAt
<1>11. CASE Name = "CALL_INDIRECT"
  <2>1. CallAt(m) /\ Arity \in Nat
    BY <1>0, <1>11, CodeIs DEF Inside
  <2>2. CASE m.pc = 1
    <3>1. m.stack = S0 \o operands /\ operands \in Seq(Cell) /\ S0 \in Seq(Cell)
      BY <1>0, <1>11, <2>1, <2>2, CallOperands, BottomIs DEF CallAt
    <3>2. Len(S0 \o operands) = Len(S0) + Len(operands) /\ \A k \in 1 .. Len(S0) : (S0 \o operands)[k] = S0[k]
      <4>1. operands \in Seq(Cell) /\ S0 \in Seq(Cell)
        BY <3>1
      <4> QED BY <4>1
    <3>3. Len(operands) \in Nat
      BY <3>1
    <3> QED BY <3>1, <3>2, <3>3, StacksAre
  <2>3. CASE m.pc \in 2 .. Arity + 2
    <3>1. Over(m, S0, Arity + 2 - m.pc) /\ Arity + 2 - m.pc \in Nat
      BY <2>1, <2>3 DEF CallAt
    <3> QED BY <3>1, StacksAre, OverBottom
  <2>4. CASE m.pc = Arity + 3
    BY <2>1, <2>4, StacksAre DEF CallAt
  <2>5. CASE m.pc \in Arity + 4 .. 2 * Arity + 4
    <3>1. Over(m, S1(Index), m.pc - Arity - 4) /\ m.pc - Arity - 4 \in Nat
      BY <2>1, <2>5 DEF CallAt
    <3> QED BY <3>1, StacksAre, OverBottom
  <2>6. CASE m.pc = 2 * Arity + 5
    <3>1. m.stack = S0
      BY <2>1, <2>6 DEF CallAt
    <3> QED BY <3>1, StacksAre
  <2>7. m.pc \in 1 .. 2 * Arity + 5
    BY <2>1 DEF CallAt
  <2> QED BY <1>0, <2>1, <2>2, <2>3, <2>4, <2>5, <2>6, <2>7
<1>12. CASE Name \in Conversions
  <2>1. ConversionAt(m)
    BY <1>0, <1>12 DEF Inside
  <2> QED BY <1>0, <2>1, StacksAre DEF ConversionAt
<1> QED BY <1>0, NamesAre, <1>1, <1>2, <1>3, <1>4, <1>5, <1>6, <1>7, <1>8, <1>9, <1>10, <1>11, <1>12

\* At the end of the code there is one result, or none.
LEMMA EndIs ==
  ASSUME IInv, Ended, ~m.thrown
  PROVE  m.pc = Len(Code) + 1
BY PcIs DEF Ended

LEMMA EndStack ==
  ASSUME IInv, Ended, ~m.thrown
  PROVE  Len(m.stack) = 1 + (IF Name \in {"CALL_INDIRECT", "LOCAL_SET"} THEN 0 ELSE 1)
<1>0. Static /\ Inside(m) /\ m.pc = Len(Code) + 1
  BY EndIs DEF IInv
<1>1. CASE Name \in DOMAIN DirectOf
  <2>1. DirectAt(m)
    BY <1>0, <1>1, Zenon DEF Inside
  <2>2. Len(Code) = 1
    BY <1>1, DirectCode
  <2>3. Len(m.stack) = 2
    BY <1>0, <2>1, <2>2, StacksAre DEF DirectAt
  <2> QED BY <1>1, <2>3, DirectNames
<1>2. CASE Name \in Orders
  <2>1. OrderAt(m)
    BY <1>0, <1>2, Zenon DEF Inside
  <2>2. Len(Code) = 9
    BY <1>2, OrderCode
  <2>3. Len(m.stack) = 2
    BY <1>0, <2>1, <2>2, StacksAre DEF OrderAt
  <2> QED BY <1>2, <2>3 DEF Orders
<1>3. CASE Name = "NE"
  <2>1. NEAt(m)
    BY <1>0, <1>3, Zenon DEF Inside
  <2>2. Len(Code) = 3
    BY <1>3, NECode
  <2>3. Len(m.stack) = 2
    BY <1>0, <2>1, <2>2, StacksAre DEF NEAt
  <2> QED BY <1>3, <2>3
<1>4. CASE Name = "EQZ"
  <2>1. EQZAt(m)
    BY <1>0, <1>4, Zenon DEF Inside
  <2>2. Len(Code) = 2
    BY <1>4, EQZCode
  <2>3. Len(m.stack) = 2
    BY <1>0, <2>1, <2>2, StacksAre DEF EQZAt
  <2> QED BY <1>4, <2>3
<1>5. CASE Name = "ABS"
  <2>1. ABSAt(m)
    BY <1>0, <1>5, Zenon DEF Inside
  <2>2. Len(Code) = 6
    BY <1>5, ABSCode
  <2>3. Len(m.stack) = 2
    BY <1>0, <2>1, <2>2, StacksAre DEF ABSAt
  <2> QED BY <1>5, <2>3
<1>6. CASE Name = "COPYSIGN"
  <2>1. COPYSIGNAt(m)
    BY <1>0, <1>6, Zenon DEF Inside
  <2>2. Len(Code) = 11
    BY <1>6, COPYSIGNCode
  <2>3. Len(m.stack) = 2
    BY <1>0, <2>1, <2>2, StacksAre DEF COPYSIGNAt
  <2> QED BY <1>6, <2>3
<1>7. CASE Name = "SELECT"
  <2>1. SELECTAt(m)
    BY <1>0, <1>7, Zenon DEF Inside
  <2>2. Len(Code) = 7
    BY <1>7, SELECTCode
  <2>3. Len(m.stack) = 2
    BY <1>0, <2>1, <2>2, StacksAre DEF SELECTAt
  <2> QED BY <1>7, <2>3
<1>8. CASE Name = "LOCAL_GET"
  <2>1. GetAt(m)
    BY <1>0, <1>8, Zenon DEF Inside
  <2>2. Len(Code) = 1
    BY <1>8, AccessCode
  <2>3. Len(m.stack) = 2
    BY <1>0, <2>1, <2>2, StacksAre DEF GetAt
  <2> QED BY <1>8, <2>3
<1>9. CASE Name = "LOCAL_SET"
  <2>1. SetAt(m)
    BY <1>0, <1>9, Zenon DEF Inside
  <2>2. Len(Code) = 1
    BY <1>9, AccessCode
  <2>3. Len(m.stack) = 1
    BY <1>0, <2>1, <2>2, StacksAre DEF SetAt
  <2> QED BY <1>9, <2>3
<1>10. CASE Name = "LOCAL_TEE"
  <2>1. TEEAt(m)
    BY <1>0, <1>10, Zenon DEF Inside
  <2>2. Len(Code) = 2
    BY <1>10, AccessCode
  <2>3. Len(m.stack) = 2
    BY <1>0, <2>1, <2>2, StacksAre DEF TEEAt
  <2> QED BY <1>10, <2>3
<1>11. CASE Name = "CALL_INDIRECT"
  <2>1. CallAt(m) /\ m.pc = 2 * Arity + 5
    BY <1>0, <1>11, CodeIs DEF Inside
  <2> QED BY <1>11, <2>1, StacksAre DEF CallAt
<1>12. CASE Name \in Conversions
  <2>0. ConversionAt(m) /\ Len(Code) = IF Name \in TwoConversions THEN 2 ELSE 1
    BY <1>0, <1>12, ConversionCode DEF Inside
  <2>1. ConversionAt(m) /\ m.pc \in {2, 3}
    BY <1>0, <2>0
  <2>2. Len(m.stack) = 2
    BY <2>1, StacksAre DEF ConversionAt
  <2> QED BY <1>12, <2>2 DEF Conversions
<1> QED BY <1>0, NamesAre, <1>1, <1>2, <1>3, <1>4, <1>5, <1>6, <1>7, <1>8, <1>9, <1>10, <1>11, <1>12

\* The parameters and locals of the program.
LEMMA LocalsNowAre ==
  /\ DOMAIN LocalsNow = 0 .. 7
  /\ \A n \in 0 .. 7 : LocalsNow[n] = At(m, n)
<1>1. DOMAIN LocalsAtFirst = 0 .. 7 /\ Len(ParamTypes) = 4
  BY LocalsAre, TypesOfLocals
<1>2. LocalsNow = [n \in 0 .. 7 |-> IF n < 4 THEN m.args[n] ELSE m.vars[n - 4]]
  BY <1>1, Zenon DEF LocalsNow
<1> QED BY <1>2 DEF At

LEMMA Untouched ==
  ASSUME IInv
  PROVE  NothingElseTouched
<1>1. m.stack # <<>> /\ m.stack[1] = Bottom
  BY BottomKept
<1>2. ASSUME NEW n \in DOMAIN LocalsNow
      PROVE  LocalsNow[n] = LocalsAtFirst[n] \/ (Name \in {"LOCAL_SET", "LOCAL_TEE"} /\ n = index)
  <2>1. n \in 0 .. 7 /\ LocalsNow[n] = At(m, n)
    BY LocalsNowAre
  <2>2. CASE n < 4
    <3>1. n \in ParamIndices /\ LocalsNow[n] = m.args[n]
      BY <2>1, <2>2 DEF ParamIndices, At
    <3> QED BY <3>1 DEF IInv, Kept, Sets
  <2>3. CASE ~(n < 4)
    <3>1. n - 4 \in LocalIndices /\ LocalsNow[n] = m.vars[n - 4] /\ 4 + (n - 4) = n
      BY <2>1, <2>3 DEF LocalIndices, At
    <3>2. m.vars[n - 4] = LocalsAtFirst[4 + (n - 4)] \/ (Sets /\ 4 + (n - 4) = index)
      BY <3>1 DEF IInv, Kept
    <3> QED BY <3>1, <3>2 DEF Sets
  <2> QED BY <2>2, <2>3
<1>3. Ended /\ ~m.thrown => Len(m.stack) = 1 + (IF Name \in {"CALL_INDIRECT", "LOCAL_SET"} THEN 0 ELSE 1)
  BY EndStack
<1> QED BY <1>1, <1>2, <1>3 DEF NothingElseTouched

-------------------------------------------------------------------------------
(* What the code leaves is what the instruction means: RightUnlessNamed, one   *)
(* instruction after the other. *)

LEMMA OverS0 ==
  ASSUME NEW x
  PROVE  <<Bottom>> \o <<x>> = S1(x) /\ <<Bottom>> \o <<>> = S0
<1> DEFINE X == {Bottom, x}  s == <<Bottom>>  t == <<x>>  e == <<>>
<1>1. s \in Seq(X) /\ t \in Seq(X) /\ e \in Seq(X) /\ Len(s) = 1 /\ Len(t) = 1 /\ Len(e) = 0
      /\ s[1] = Bottom /\ t[1] = x
  OBVIOUS
<1> HIDE DEF X, s, t, e
<1> DEFINE w == s \o t  v == s \o e
<1>2. /\ w \in Seq(X) /\ Len(w) = Len(s) + Len(t) /\ \A k \in 1 .. Len(s) : w[k] = s[k]
      /\ \A k \in 1 .. Len(t) : w[Len(s) + k] = t[k]
  <2>1. s \in Seq(X) /\ t \in Seq(X)
    BY <1>1
  <2> QED BY <2>1
<1>3. /\ v \in Seq(X) /\ Len(v) = Len(s) + Len(e) /\ \A k \in 1 .. Len(s) : v[k] = s[k]
  <2>1. s \in Seq(X) /\ e \in Seq(X)
    BY <1>1
  <2> QED BY <2>1
<1> HIDE DEF w, v
<1>4. w \in Seq(X) /\ Len(w) = 2 /\ w[1] = Bottom /\ w[2] = x
  BY <1>1, <1>2
<1>5. w = <<w[1], w[2]>>
  <2>1. w \in Seq(X) /\ Len(w) = 2
    BY <1>4
  <2> QED BY <2>1
<1>6. v \in Seq(X) /\ Len(v) = 1 /\ v[1] = Bottom
  BY <1>1, <1>3
<1>7. v = <<v[1]>>
  <2>1. v \in Seq(X) /\ Len(v) = 1
    BY <1>6
  <2> QED BY <2>1
<1>8. w = <<Bottom, x>> /\ v = <<Bottom>>
  BY <1>4, <1>5, <1>6, <1>7
<1> QED BY <1>8 DEF S1, S0, w, v, s, t, e

\* An instruction with one result that sets nothing and calls nothing.
Plain == Name \notin {"CALL_INDIRECT", "LOCAL_SET", "LOCAL_TEE"}

LEMMA OneResult ==
  ASSUME Plain, NEW x, Meaning = <<x>>, ~Traps, NEW z, m.stack = S1(z), ~m.thrown
  PROVE  Right <=> z = x
<1>1. Right <=> m.stack = <<Bottom>> \o Meaning
  BY Zenon DEF Right, Plain
<1>2. <<Bottom>> \o Meaning = S1(x)
  BY OverS0
<1>3. S1(z) = S1(x) <=> z = x
  BY DEF S1
<1> QED BY <1>1, <1>2, <1>3, Zenon

LEMMA Threw ==
  ASSUME m.thrown
  PROVE  Right <=> Traps
BY Zenon DEF Right

LEMMA DivRight ==
  ASSUME IInv, Ended, Name = "DIV_S"
  PROVE  RightUnlessNamed
<1>1. /\ Traps <=> ~Divides(a, b)
      /\ ~Departs
      /\ Meaning = <<IntOf(Type, Quotient(a.value, b.value))>>
      /\ DirectOp = "div" /\ Name \in DOMAIN DirectOf /\ Name \in IntInstrs /\ Plain
  <2>1. Traps <=> ~Divides(a, b)
    BY Zenon DEF Traps
  <2>2. ~Departs
    BY Zenon DEF Departs
  <2>3. Meaning = <<IntOf(Type, Quotient(a.value, b.value))>>
    BY Zenon DEF Meaning, Orders
  <2>4. DirectOp = "div"
    BY DEF DirectOp, DirectOf
  <2> QED BY <2>1, <2>2, <2>3, <2>4, DirectNames DEF IntInstrs, Plain
<1>2. Static /\ DirectAt(m) /\ Type \in IntTypes /\ IsInt(Type, a) /\ IsInt(Type, b)
  BY <1>1, IntOperands DEF IInv, Inside
<1>3. Binary("div", a, b) = IF Divides(a, b) THEN {IntOf(Type, Quotient(a.value, b.value))} ELSE {}
  BY <1>2, DirectResults
<1>4. CASE m.thrown
  <2>1. ~Divides(a, b)
    BY <1>1, <1>2, <1>3, <1>4 DEF DirectAt
  <2> QED BY <1>1, <1>4, <2>1, Threw DEF RightUnlessNamed
<1>5. CASE ~m.thrown
  <2>1. m.pc = 2
    <3>1. m.pc = Len(Code) + 1
      BY <1>5, EndIs
    <3>2. Len(Code) = 1
      BY <1>1, DirectCode
    <3> QED BY <3>1, <3>2
  <2>2. PICK z \in Binary("div", a, b) : m.stack = S1(z)
    BY <1>1, <1>2, <2>1 DEF DirectAt
  <2>3. Divides(a, b) /\ z = IntOf(Type, Quotient(a.value, b.value))
    BY <1>3, <2>2
  <2>4. Right
    BY <1>1, <1>5, <2>2, <2>3, OneResult
  <2> QED BY <1>1, <2>4 DEF RightUnlessNamed
<1> QED BY <1>4, <1>5

LEMMA RemRight ==
  ASSUME IInv, Ended, Name = "REM_S"
  PROVE  RightUnlessNamed
<1>1. /\ Traps <=> b.value = 0
      /\ Departs <=> b.value = -1 /\ a.value = Least(Type)
      /\ Meaning = <<IntOf(Type, Remainder(a.value, b.value))>>
      /\ DirectOp = "rem" /\ Name \in DOMAIN DirectOf /\ Name \in IntInstrs /\ Plain
  <2>1. Traps <=> b.value = 0
    BY Zenon DEF Traps
  <2>2. Departs <=> b.value = -1 /\ a.value = Least(Type)
    BY Zenon DEF Departs
  <2>3. Meaning = <<IntOf(Type, Remainder(a.value, b.value))>>
    BY Zenon DEF Meaning, Orders
  <2>4. DirectOp = "rem"
    BY DEF DirectOp, DirectOf
  <2> QED BY <2>1, <2>2, <2>3, <2>4, DirectNames DEF IntInstrs, Plain
<1>2. Static /\ DirectAt(m) /\ Type \in IntTypes /\ IsInt(Type, a) /\ IsInt(Type, b)
  BY <1>1, IntOperands DEF IInv, Inside
<1>3. Binary("rem", a, b) = IF Divides(a, b) THEN {IntOf(Type, Remainder(a.value, b.value))} ELSE {}
  BY <1>2, DirectResults
<1>4. Divides(a, b) <=> ~Traps /\ ~Departs
  BY <1>1, <1>2 DEF Divides, IsInt
<1>5. ~(Traps /\ Departs)
  BY <1>1
<1>6. CASE m.thrown
  <2>1. ~Divides(a, b)
    BY <1>1, <1>2, <1>3, <1>6 DEF DirectAt
  <2> QED BY <1>4, <1>5, <1>6, <2>1, Threw DEF RightUnlessNamed
<1>7. CASE ~m.thrown
  <2>1. m.pc = 2
    <3>1. m.pc = Len(Code) + 1
      BY <1>7, EndIs
    <3>2. Len(Code) = 1
      BY <1>1, DirectCode
    <3> QED BY <3>1, <3>2
  <2>2. PICK z \in Binary("rem", a, b) : m.stack = S1(z)
    BY <1>1, <1>2, <2>1 DEF DirectAt
  <2>3. Divides(a, b) /\ z = IntOf(Type, Remainder(a.value, b.value))
    BY <1>3, <2>2
  <2>4. Right
    BY <1>1, <1>4, <1>7, <2>2, <2>3, OneResult
  <2> QED BY <1>4, <2>3, <2>4 DEF RightUnlessNamed
<1> QED BY <1>6, <1>7

\* A shift by a count in range.
LEMMA ShiftRight ==
  ASSUME IInv, Ended, Name \in {"SHL", "SHR_S", "SHR_U"}
  PROVE  RightUnlessNamed
<1>1. ~Traps /\ ~Determined /\ Plain /\ Name \in DOMAIN DirectOf /\ Name \in IntInstrs
  <2>1. ~Traps
    BY Zenon DEF Traps
  <2> QED BY <2>1, DirectNames DEF Determined, Plain, IntInstrs
<1>2. Static /\ DirectAt(m) /\ Type \in IntTypes /\ IsInt(Type, a) /\ IsInt(Type, b) /\ a.type = Type
  BY <1>1, IntOperands DEF IInv, Inside, IsInt
<1>3. Departs <=> b.value \notin 0 .. Bits(Type) - 1
  BY Zenon DEF Departs
<1>4. CASE b.value \notin 0 .. Bits(Type) - 1
  BY <1>1, <1>3, <1>4 DEF RightUnlessNamed
<1>5. CASE b.value \in 0 .. Bits(Type) - 1
  <2>1. Count = U(b)
    BY <1>2, <1>5, CountIs DEF Count
  <2>2. \E r : Binary(DirectOp, a, b) = {IntOf(Type, r)} /\ Meaning = <<IntOf(Type, r)>>
    <3>1. CASE Name = "SHL"
      <4>1. DirectOp = "shl"
        BY <3>1 DEF DirectOp, DirectOf
      <4>2. Meaning = <<IntOf(Type, a.value * 2^Count)>>
        BY <3>1, Zenon DEF Meaning, Orders
      <4>3. Binary(DirectOp, a, b) = Shifted(a, b.value, a.value * 2^U(b))
        BY <1>2, <4>1, DirectResults
      <4>4. Shifted(a, b.value, a.value * 2^U(b)) = {IntOf(Type, a.value * 2^U(b))}
        BY <1>2, <1>5, Zenon DEF Shifted
      <4> QED BY <2>1, <4>2, <4>3, <4>4, Zenon
    <3>2. CASE Name = "SHR_S"
      <4>1. DirectOp = "shr"
        BY <3>2 DEF DirectOp, DirectOf
      <4>2. Meaning = <<IntOf(Type, a.value \div 2^Count)>>
        BY <3>2, Zenon DEF Meaning, Orders
      <4>3. Binary(DirectOp, a, b) = Shifted(a, b.value, a.value \div 2^U(b))
        BY <1>2, <4>1, DirectResults
      <4>4. Shifted(a, b.value, a.value \div 2^U(b)) = {IntOf(Type, a.value \div 2^U(b))}
        BY <1>2, <1>5, Zenon DEF Shifted
      <4> QED BY <2>1, <4>2, <4>3, <4>4, Zenon
    <3>3. CASE Name = "SHR_U"
      <4>1. DirectOp = "shr.un"
        BY <3>3 DEF DirectOp, DirectOf
      <4>2. Meaning = <<IntOf(Type, U(a) \div 2^Count)>>
        BY <3>3, Zenon DEF Meaning, Orders
      <4>3. Binary(DirectOp, a, b) = Shifted(a, b.value, U(a) \div 2^U(b))
        BY <1>2, <4>1, DirectResults
      <4>4. Shifted(a, b.value, U(a) \div 2^U(b)) = {IntOf(Type, U(a) \div 2^U(b))}
        BY <1>2, <1>5, Zenon DEF Shifted
      <4> QED BY <2>1, <4>2, <4>3, <4>4, Zenon
    <3> QED BY <3>1, <3>2, <3>3
  <2>3. PICK r : Binary(DirectOp, a, b) = {IntOf(Type, r)} /\ Meaning = <<IntOf(Type, r)>>
    BY <2>2
  <2>4. ~m.thrown
    BY <1>2, <2>3 DEF DirectAt
  <2>5. m.pc = 2
    <3>1. m.pc = Len(Code) + 1
      BY <2>4, EndIs
    <3>2. Len(Code) = 1
      BY <1>1, DirectCode
    <3> QED BY <3>1, <3>2
  <2>6. m.stack = S1(IntOf(Type, r))
    BY <1>2, <2>3, <2>5 DEF DirectAt
  <2>7. Right
    BY <1>1, <2>3, <2>4, <2>6, OneResult
  <2> QED BY <1>1, <2>7 DEF RightUnlessNamed
<1> QED BY <1>4, <1>5

\* GE and LE.
LEMMA NumberIs ==
  ASSUME NEW t \in Types, NEW x \in Values(t)
  PROVE  Number(x) \in Int
<1>1. CASE t \in IntTypes
  <2>1. x.type \in IntTypes /\ x.value \in Int
    BY <1>1, IntsAre DEF Values
  <2> QED BY <2>1 DEF Number
<1>2. CASE t \notin IntTypes
  <2>1. t \in FloatTypes /\ x \in Floats(t)
    BY <1>2 DEF Types, Values
  <2>2. x.type \notin IntTypes /\ x.value.mag \in Int
    BY <2>1, FloatsAre, TypesAre
  <2> QED BY <2>2 DEF Number, Num
<1> QED BY <1>1, <1>2

LEMMA UnsignedCompare ==
  ASSUME NEW t \in IntTypes, NEW x, IsInt(t, x), NEW y, IsInt(t, y)
  PROVE  /\ U(x) \in Int /\ U(y) \in Int /\ (U(x) = U(y) <=> x.value = y.value)
         /\ ~Unordered(x, y) /\ ~Unordered(y, x) /\ Number(x) = x.value /\ Number(y) = y.value
         /\ LessUn(x, y) <=> U(x) < U(y)
<1>1. x.type = t /\ y.type = t
  BY DEF IsInt
<1>2. PICK h \in Nat : h = Half(t)
  BY HalfFacts
<1>3. /\ x.value \in -h .. h - 1 /\ y.value \in -h .. h - 1
      /\ U(x) = (IF x.value >= 0 THEN x.value ELSE x.value + 2 * h)
      /\ U(y) = (IF y.value >= 0 THEN y.value ELSE y.value + 2 * h)
  BY <1>1, <1>2, UnsignedIs DEF IsInt
<1>4. U(x) \in Int /\ U(y) \in Int /\ (U(x) = U(y) <=> x.value = y.value)
  BY <1>2, <1>3
<1>5. ~Unordered(x, y) /\ ~Unordered(y, x)
  BY <1>1, TypesAre DEF Unordered, IsNaN
<1> QED BY <1>1, <1>4, <1>5, Zenon DEF Number, LessUn

LEMMA OrderMeaning ==
  ASSUME Static, Name \in Orders
  PROVE  Equal(a, b) \/ Ordered <=> ~Unordered(a, b) /\ AtLeast
<1>1. Type \in Types /\ a \in Values(Type) /\ b \in Values(Type)
  BY TypeIs, TwoAre DEF TwoOperands, Orders, IntInstrs
<1>2. Number(a) \in Int /\ Number(b) \in Int
  BY <1>1, NumberIs
<1>3. Unordered(a, b) <=> Unordered(b, a)
  BY DEF Unordered
<1>4. CASE Name \in {"GE", "GE_S"}
  <2>1. (Ordered <=> Less(b, a)) /\ (AtLeast <=> Number(a) >= Number(b))
    BY <1>4, Zenon DEF Ordered, AtLeast
  <2> QED BY <1>2, <1>3, <2>1 DEF Equal, Less
<1>5. CASE Name \in {"LE", "LE_S"}
  <2>1. (Ordered <=> Less(a, b)) /\ (AtLeast <=> Number(a) <= Number(b))
    BY <1>5, Zenon DEF Ordered, AtLeast
  <2> QED BY <1>2, <1>3, <2>1 DEF Equal, Less
<1>6. CASE Name \in {"GE_U", "LE_U"}
  <2>1. Type \in IntTypes /\ IsInt(Type, a) /\ IsInt(Type, b)
    BY <1>6, IntOperands DEF IntInstrs
  <2>2. /\ U(a) \in Int /\ U(b) \in Int /\ ~Unordered(a, b) /\ (Equal(a, b) <=> U(a) = U(b))
        /\ (LessUn(a, b) <=> U(a) < U(b)) /\ (LessUn(b, a) <=> U(b) < U(a))
    BY <2>1, UnsignedCompare DEF Equal
  <2>3. CASE Name = "GE_U"
    <3>1. (Ordered <=> LessUn(b, a)) /\ (AtLeast <=> U(a) >= U(b))
      BY <2>3, Zenon DEF Ordered, AtLeast
    <3> QED BY <2>2, <3>1
  <2>4. CASE Name = "LE_U"
    <3>1. (Ordered <=> LessUn(a, b)) /\ (AtLeast <=> U(a) <= U(b))
      BY <2>4, Zenon DEF Ordered, AtLeast
    <3> QED BY <2>2, <3>1
  <2> QED BY <1>6, <2>3, <2>4
<1> QED BY <1>4, <1>5, <1>6 DEF Orders

LEMMA OrderRight ==
  ASSUME IInv, Ended, Name \in Orders
  PROVE  RightUnlessNamed
<1>1. ~Traps /\ ~Departs /\ Meaning = <<Bool(~Unordered(a, b) /\ AtLeast)>>
  <2>1. ~Traps
    BY Zenon DEF Traps, Orders
  <2>2. ~Departs
    BY Zenon DEF Departs, Orders
  <2>3. Meaning = <<Bool(~Unordered(a, b) /\ AtLeast)>>
    BY Zenon DEF Meaning, Orders
  <2> QED BY <2>1, <2>2, <2>3
<1>2. Static /\ OrderAt(m) /\ ~m.thrown /\ Plain
  BY DEF IInv, Inside, OrderAt, Plain, Orders
<1>3. m.pc = 10
  <2>1. m.pc = Len(Code) + 1
    BY <1>2, EndIs
  <2>2. Len(Code) = 9
    BY OrderCode
  <2> QED BY <2>1, <2>2
<1>4. m.stack = S1(Bool(Equal(a, b) \/ Ordered))
  BY <1>2, <1>3 DEF OrderAt
<1>5. Bool(Equal(a, b) \/ Ordered) = Bool(~Unordered(a, b) /\ AtLeast)
  <2>1. Equal(a, b) \/ Ordered <=> ~Unordered(a, b) /\ AtLeast
    BY <1>2, OrderMeaning
  <2> QED BY <2>1, Zenon DEF Bool
<1>6. Right
  BY <1>1, <1>2, <1>4, <1>5, OneResult
<1> QED BY <1>1, <1>6 DEF RightUnlessNamed

\* NE and EQZ.
LEMMA NERight ==
  ASSUME IInv, Ended, Name = "NE"
  PROVE  RightUnlessNamed
<1>1. ~Traps /\ ~Departs /\ Meaning = <<Bool(Unordered(a, b) \/ Number(a) # Number(b))>>
  <2>1. ~Traps
    BY Zenon DEF Traps
  <2>2. ~Departs
    BY Zenon DEF Departs
  <2>3. Meaning = <<Bool(Unordered(a, b) \/ Number(a) # Number(b))>>
    BY Zenon DEF Meaning, Orders
  <2> QED BY <2>1, <2>2, <2>3
<1>2. Static /\ NEAt(m) /\ ~m.thrown /\ Plain
  BY DEF IInv, Inside, NEAt, Plain
<1>3. m.pc = 4
  <2>1. m.pc = Len(Code) + 1
    BY <1>2, EndIs
  <2>2. Len(Code) = 3
    BY NECode
  <2> QED BY <2>1, <2>2
<1>4. m.stack = S1(Bool(~Equal(a, b)))
  BY <1>2, <1>3 DEF NEAt
<1>5. Bool(~Equal(a, b)) = Bool(Unordered(a, b) \/ Number(a) # Number(b))
  BY Zenon DEF Equal, Bool
<1>6. Right
  BY <1>1, <1>2, <1>4, <1>5, OneResult
<1> QED BY <1>1, <1>6 DEF RightUnlessNamed

LEMMA EQZRight ==
  ASSUME IInv, Ended, Name = "EQZ"
  PROVE  RightUnlessNamed
<1>1. ~Traps /\ ~Departs /\ Meaning = <<Bool(a.value = 0)>>
  <2>1. ~Traps
    BY Zenon DEF Traps
  <2>2. ~Departs
    BY Zenon DEF Departs
  <2>3. Meaning = <<Bool(a.value = 0)>>
    BY Zenon DEF Meaning, Orders
  <2> QED BY <2>1, <2>2, <2>3
<1>2. Static /\ EQZAt(m) /\ ~m.thrown /\ Plain
  BY DEF IInv, Inside, EQZAt, Plain
<1>3. m.pc = 3
  <2>1. m.pc = Len(Code) + 1
    BY <1>2, EndIs
  <2>2. Len(Code) = 2
    BY EQZCode
  <2> QED BY <2>1, <2>2
<1>4. m.stack = S1(Bool(a.value = 0))
  BY <1>2, <1>3 DEF EQZAt
<1>6. Right
  BY <1>1, <1>2, <1>4, OneResult
<1> QED BY <1>1, <1>6 DEF RightUnlessNamed

\* ABS and COPYSIGN: the sign of a float.
LEMMA BelowZero ==
  ASSUME Type \in FloatTypes, NEW x, x.type = Type, x.value.neg \in BOOLEAN, x.value.mag \in Nat \cup {NaN}
  PROVE  Less(x, Zero) <=> x.value.neg /\ x.value.mag \notin {0, NaN}
<1>1. Zero.type = Type /\ Zero.value.neg = FALSE /\ Zero.value.mag = 0 /\ Type \notin IntTypes
  BY ZeroIs, TypesAre
<1>2. Number(Zero) = 0 /\ ~IsNaN(Zero)
  BY <1>1 DEF Number, Num, IsNaN, NaN
<1>3. Number(x) = (IF x.value.neg THEN -x.value.mag ELSE x.value.mag) /\ (IsNaN(x) <=> x.value.mag = NaN)
  BY <1>1 DEF Number, Num, IsNaN
<1>4. Less(x, Zero) <=> x.value.mag # NaN /\ Number(x) < 0
  BY <1>2, <1>3 DEF Less, Unordered
<1> QED BY <1>3, <1>4 DEF NaN

LEMMA ABSRight ==
  ASSUME IInv, Ended, Name = "ABS"
  PROVE  RightUnlessNamed
<1>1. ~Traps /\ (Departs <=> a.value.neg /\ a.value.mag \in {0, NaN}) /\ Meaning = <<[a EXCEPT !.value.neg = FALSE]>>
  <2>1. ~Traps
    BY Zenon DEF Traps
  <2>2. Departs <=> a.value.neg /\ a.value.mag \in {0, NaN}
    BY Zenon DEF Departs
  <2>3. Meaning = <<[a EXCEPT !.value.neg = FALSE]>>
    BY Zenon DEF Meaning, Orders
  <2> QED BY <2>1, <2>2, <2>3, Zenon
<1>2. Static /\ ABSAt(m) /\ ~m.thrown /\ Plain
  BY DEF IInv, Inside, ABSAt, Plain
<1>3. m.pc = 7
  <2>1. m.pc = Len(Code) + 1
    BY <1>2, EndIs
  <2>2. Len(Code) = 6
    BY ABSCode
  <2> QED BY <2>1, <2>2
<1>4. m.stack = S1(IF Below THEN Negated(a) ELSE a)
  BY <1>2, <1>3 DEF ABSAt
<1>5. Type \in FloatTypes /\ a \in Floats(Type)
  BY <1>2, TypeIs, OneIs, TypesAre DEF OneOperand, FloatInstrs, Values
<1> DEFINE p == a.value.neg  n == a.value.mag
<1>6. a = [type |-> Type, value |-> [neg |-> p, mag |-> n]] /\ p \in BOOLEAN /\ n \in Nat \cup {NaN} /\ n \in Int /\ a.type = Type
  BY <1>5, FloatsAre
<1>7. Below <=> p /\ n \notin {0, NaN}
  BY <1>5, <1>6, BelowZero DEF Below
<1>8. Departs <=> p /\ n \in {0, NaN}
  BY <1>1
<1> HIDE DEF p, n
<1>16. [a EXCEPT !.value.neg = FALSE] = [type |-> Type, value |-> [neg |-> FALSE, mag |-> n]]
  <2>1. ASSUME NEW f
        PROVE  [a EXCEPT !.value.neg = f] = [type |-> Type, value |-> [neg |-> f, mag |-> n]]
    <3>1. [a EXCEPT !.value.neg = f] = [a EXCEPT !.value = [a.value EXCEPT !.neg = f]]
      BY Zenon
    <3>2. [a.value EXCEPT !.neg = f] = [neg |-> f, mag |-> n]
      BY <1>6
    <3> QED BY <1>6, <3>1, <3>2
  <2> QED BY <2>1, Zenon
<1> DEFINE F(q) == [type |-> Type, value |-> [neg |-> q, mag |-> n]]
<1>9. Meaning = <<F(FALSE)>>
  BY <1>1, <1>16, Zenon
<1>10. Negated(a) = F(~p) /\ a = F(p)
  BY <1>5, <1>6, NegatedIs
<1>11. F(TRUE) # F(FALSE)
  <2>1. F(TRUE).value.neg = TRUE /\ F(FALSE).value.neg = FALSE
    OBVIOUS
  <2> QED BY <2>1
<1> HIDE DEF F
<1>12. ASSUME NEW z, m.stack = S1(z)
       PROVE  Right <=> z = F(FALSE)
  BY <1>1, <1>2, <1>9, <1>12, OneResult
<1>13. CASE p = TRUE /\ n \in {0, NaN}
  <2>1. ~Below /\ Departs
    BY <1>7, <1>8, <1>13
  <2>2. m.stack = S1(F(TRUE))
    BY <1>4, <1>10, <1>13, <2>1
  <2> QED BY <1>11, <1>12, <2>1, <2>2 DEF RightUnlessNamed
<1>14. CASE p = TRUE /\ n \notin {0, NaN}
  <2>1. Below /\ ~Departs
    BY <1>7, <1>8, <1>14
  <2>2. (~p) = FALSE
    BY <1>14
  <2>3. m.stack = S1(F(FALSE))
    BY <1>4, <1>10, <2>1, <2>2, Zenon
  <2> QED BY <1>12, <2>1, <2>3 DEF RightUnlessNamed
<1>15. CASE p = FALSE
  <2>1. ~Below /\ ~Departs
    BY <1>7, <1>8, <1>15
  <2>2. m.stack = S1(F(FALSE))
    BY <1>4, <1>10, <1>15, <2>1
  <2> QED BY <1>12, <2>1, <2>2 DEF RightUnlessNamed
<1> QED BY <1>6, <1>13, <1>14, <1>15

LEMMA COPYSIGNRight ==
  ASSUME IInv, Ended, Name = "COPYSIGN"
  PROVE  RightUnlessNamed
<1>1. /\ ~Traps /\ Meaning = <<[a EXCEPT !.value.neg = b.value.neg]>>
      /\ Departs <=> \/ a.value.mag # b.value.mag
                     \/ a.value.neg # b.value.neg /\ Times(a.value.mag, b.value.mag) \notin {0, NaN}
  <2>1. ~Traps
    BY Zenon DEF Traps
  <2>2. Departs <=> \/ a.value.mag # b.value.mag
                    \/ a.value.neg # b.value.neg /\ Times(a.value.mag, b.value.mag) \notin {0, NaN}
    BY Zenon DEF Departs
  <2>3. Meaning = <<[a EXCEPT !.value.neg = b.value.neg]>>
    BY Zenon DEF Meaning, Orders
  <2> QED BY <2>1, <2>2, <2>3, Zenon
<1>2. Static /\ COPYSIGNAt(m) /\ ~m.thrown /\ Plain
  BY DEF IInv, Inside, COPYSIGNAt, Plain
<1>3. m.pc = 12
  <2>1. m.pc = Len(Code) + 1
    BY <1>2, EndIs
  <2>2. Len(Code) = 11
    BY COPYSIGNCode
  <2> QED BY <2>1, <2>2
<1>4. m.stack = S1(IF Opposite THEN Negated(b) ELSE b)
  BY <1>2, <1>3 DEF COPYSIGNAt
<1>5. Type \in FloatTypes /\ a \in Floats(Type) /\ b \in Floats(Type)
  BY <1>2, FloatOperands
<1> DEFINE p == a.value.neg  n == a.value.mag  q == b.value.neg  k == b.value.mag
           F(s, r) == [type |-> Type, value |-> [neg |-> s, mag |-> r]]
<1>6. a = F(p, n) /\ p \in BOOLEAN /\ n \in Nat \cup {NaN} /\ n \in Int
  BY <1>5, FloatsAre
<1>7. b = F(q, k) /\ q \in BOOLEAN /\ k \in Nat \cup {NaN} /\ k \in Int
  BY <1>5, FloatsAre
<1>8. Opposite <=> p # q /\ Times(n, k) \notin {0, NaN}
  <2>1. Prod = [type |-> Type, value |-> [neg |-> p # q, mag |-> Times(n, k)]]
    BY <1>5, ProdIs DEF Prod
  <2>2. Times(n, k) \in Nat \cup {NaN}
    BY <1>6, <1>7, TimesIs
  <2>3. PICK s \in BOOLEAN : s = (p # q)
    BY Zenon
  <2>4. PICK r : r = Times(n, k)
    OBVIOUS
  <2>5. Prod = [type |-> Type, value |-> [neg |-> s, mag |-> r]]
    BY <2>1, <2>3, <2>4, Zenon
  <2>6. Prod.type = Type /\ Prod.value.neg = s /\ Prod.value.mag = r /\ r \in Nat \cup {NaN}
    BY <2>2, <2>4, <2>5
  <2>7. Opposite <=> s /\ r \notin {0, NaN}
    BY <1>5, <2>6, BelowZero DEF Opposite
  <2> QED BY <2>3, <2>4, <2>7, Zenon
<1>9. Departs <=> n # k \/ (p # q /\ Times(n, k) \notin {0, NaN})
  BY <1>1
<1>10. Meaning = <<F(q, n)>>
  <2>1. [a EXCEPT !.value.neg = b.value.neg] = [a EXCEPT !.value = [a.value EXCEPT !.neg = b.value.neg]]
    BY Zenon
  <2>2. [a.value EXCEPT !.neg = b.value.neg] = [neg |-> q, mag |-> n]
    BY <1>6
  <2>3. [a EXCEPT !.value.neg = b.value.neg] = F(q, n)
    BY <1>6, <2>1, <2>2
  <2> QED BY <1>1, <2>3, Zenon
<1>11. Negated(b) = F(~q, k)
  BY <1>5, <1>7, NegatedIs
<1> HIDE DEF p, n, q, k
<1>12. ASSUME NEW s, NEW r, NEW t, NEW u
       PROVE  F(s, r) = F(t, u) <=> s = t /\ r = u
  <2>1. /\ F(s, r).value.neg = s /\ F(s, r).value.mag = r
        /\ F(t, u).value.neg = t /\ F(t, u).value.mag = u
    OBVIOUS
  <2> QED BY <2>1
<1> HIDE DEF F
<1>13. ASSUME NEW z, m.stack = S1(z)
       PROVE  Right <=> z = F(q, n)
  BY <1>1, <1>2, <1>10, <1>13, OneResult
<1>14. CASE Opposite
  <2>1. PICK s \in BOOLEAN : s = ~q
    BY Zenon
  <2>2. m.stack = S1(F(s, k))
    BY <1>4, <1>11, <1>14, <2>1, Zenon
  <2>3. F(s, k) # F(q, n)
    BY <1>7, <1>12, <2>1
  <2>4. ~Right /\ Departs
    BY <1>8, <1>9, <1>13, <1>14, <2>2, <2>3
  <2> QED BY <2>4 DEF RightUnlessNamed
<1>15. CASE ~Opposite
  <2>1. m.stack = S1(F(q, k))
    BY <1>4, <1>7, <1>15
  <2>2. Right <=> k = n
    BY <1>12, <1>13, <2>1
  <2>3. Departs <=> n # k
    BY <1>8, <1>9, <1>15
  <2> QED BY <2>2, <2>3 DEF RightUnlessNamed
<1> QED BY <1>14, <1>15

LEMMA SELECTRight ==
  ASSUME IInv, Ended, Name = "SELECT"
  PROVE  RightUnlessNamed
<1>1. ~Traps /\ ~Departs /\ Meaning = <<IF operands[3].value # 0 THEN a ELSE b>>
  <2>1. ~Traps
    BY Zenon DEF Traps
  <2>2. ~Departs
    BY Zenon DEF Departs
  <2>3. Meaning = <<IF operands[3].value # 0 THEN a ELSE b>>
    BY Zenon DEF Meaning, Orders
  <2> QED BY <2>1, <2>2, <2>3, Zenon
<1>2. Static /\ SELECTAt(m) /\ ~m.thrown /\ Plain
  BY DEF IInv, Inside, SELECTAt, Plain
<1>3. m.pc = 8
  <2>1. m.pc = Len(Code) + 1
    BY <1>2, EndIs
  <2>2. Len(Code) = 7
    BY SELECTCode
  <2> QED BY <2>1, <2>2
<1>4. m.stack = S1(IF Chosen THEN a ELSE b)
  BY <1>2, <1>3 DEF SELECTAt
<1>5. (IF Chosen THEN a ELSE b) = IF operands[3].value # 0 THEN a ELSE b
  BY Zenon DEF Chosen
<1>6. Right
  BY <1>1, <1>2, <1>4, <1>5, OneResult
<1> QED BY <1>1, <1>6 DEF RightUnlessNamed

\* Locals.
LEMMA GetRight ==
  ASSUME IInv, Ended, Name = "LOCAL_GET"
  PROVE  RightUnlessNamed
<1>1. ~Traps /\ ~Departs /\ Meaning = <<LocalsAtFirst[index]>>
  <2>1. ~Traps
    BY Zenon DEF Traps
  <2>2. ~Departs
    BY Zenon DEF Departs
  <2>3. Meaning = <<LocalsAtFirst[index]>>
    BY Zenon DEF Meaning, Orders
  <2> QED BY <2>1, <2>2, <2>3
<1>2. Static /\ GetAt(m) /\ ~m.thrown /\ Plain
  BY DEF IInv, Inside, GetAt, Plain
<1>3. m.pc = 2
  <2>1. m.pc = Len(Code) + 1
    BY <1>2, EndIs
  <2>2. Len(Code) = 1
    BY AccessCode
  <2> QED BY <2>1, <2>2
<1>4. m.stack = S1(LocalsAtFirst[index])
  BY <1>2, <1>3 DEF GetAt
<1>5. Right
  BY <1>1, <1>2, <1>4, OneResult
<1> QED BY <1>1, <1>5 DEF RightUnlessNamed

LEMMA IndexNow ==
  ASSUME Static, Name \in LocalAccesses
  PROVE  LocalsNow[index] = At(m, index)
<1>1. index \in 0 .. 7
  <2>1. index \in OfType
    BY DEF Static
  <2> QED BY <2>1, TypesOfLocals DEF OfType
<1> QED BY <1>1, LocalsNowAre

LEMMA SetRight ==
  ASSUME IInv, Ended, Name = "LOCAL_SET"
  PROVE  RightUnlessNamed
<1>1. ~Traps /\ ~Departs /\ Meaning = <<>>
  <2>1. ~Traps
    BY Zenon DEF Traps
  <2>2. ~Departs
    BY Zenon DEF Departs
  <2>3. Meaning = <<>>
    BY Zenon DEF Meaning, Orders
  <2> QED BY <2>1, <2>2, <2>3
<1>2. Static /\ SetAt(m) /\ ~m.thrown /\ Name \in LocalAccesses
  BY DEF IInv, Inside, SetAt, LocalAccesses
<1>3. m.pc = 2
  <2>1. m.pc = Len(Code) + 1
    BY <1>2, EndIs
  <2>2. Len(Code) = 1
    BY AccessCode
  <2> QED BY <2>1, <2>2
<1>4. m.stack = S0 /\ At(m, index) = a
  BY <1>2, <1>3 DEF SetAt
<1>5. m.stack = <<Bottom>> \o Meaning
  BY <1>1, <1>4, OverS0, Zenon
<1>6. LocalsNow[index] = a
  BY <1>2, <1>4, IndexNow
<1>7. Right
  BY <1>1, <1>2, <1>5, <1>6, Zenon DEF Right
<1> QED BY <1>1, <1>7 DEF RightUnlessNamed

LEMMA TEERight ==
  ASSUME IInv, Ended, Name = "LOCAL_TEE"
  PROVE  RightUnlessNamed
<1>1. ~Traps /\ ~Departs /\ Meaning = <<a>>
  <2>1. ~Traps
    BY Zenon DEF Traps
  <2>2. ~Departs
    BY Zenon DEF Departs
  <2>3. Meaning = <<a>>
    BY Zenon DEF Meaning, Orders
  <2> QED BY <2>1, <2>2, <2>3
<1>2. Static /\ TEEAt(m) /\ ~m.thrown /\ Name \in LocalAccesses
  BY DEF IInv, Inside, TEEAt, LocalAccesses
<1>3. m.pc = 3
  <2>1. m.pc = Len(Code) + 1
    BY <1>2, EndIs
  <2>2. Len(Code) = 2
    BY AccessCode
  <2> QED BY <2>1, <2>2
<1>4. m.stack = S1(a) /\ At(m, index) = a
  BY <1>2, <1>3 DEF TEEAt
<1>5. m.stack = <<Bottom>> \o Meaning
  BY <1>1, <1>4, OverS0
<1>6. LocalsNow[index] = a
  BY <1>2, <1>4, IndexNow
<1>7. Right
  BY <1>1, <1>2, <1>5, <1>6, Zenon DEF Right
<1> QED BY <1>1, <1>7 DEF RightUnlessNamed

\* An indirect call.
LEMMA CallRight ==
  ASSUME IInv, Ended, Name = "CALL_INDIRECT"
  PROVE  RightUnlessNamed
<1>1. Static /\ CallAt(m) /\ Arity \in Nat
  BY SignatureIs DEF IInv, Inside
<1>2. operands[Len(operands)] = Index
  <2>1. Len(operands) = Arity + 1
    BY <1>1, CallOperands
  <2> QED BY <2>1 DEF Index
<1>3. (Traps <=> Index.value \notin Table) /\ ~Departs /\ Meaning = <<>>
  <2>1. Traps <=> operands[Len(operands)].value \notin Table
    BY Zenon DEF Traps
  <2>2. ~Departs
    BY Zenon DEF Departs
  <2>3. Meaning = <<>>
    BY Zenon DEF Meaning, Orders
  <2> QED BY <1>2, <2>1, <2>2, <2>3
<1>4. CASE m.thrown
  <2>1. Traps
    BY <1>1, <1>3, <1>4 DEF CallAt
  <2> QED BY <1>3, <1>4, <2>1, Threw DEF RightUnlessNamed
<1>5. CASE ~m.thrown
  <2>1. m.pc = 2 * Arity + 5
    <3>1. m.pc = Len(Code) + 1
      BY <1>5, EndIs
    <3>2. Len(Code) = 2 * Arity + 4
      BY <1>1, CallCode
    <3> QED BY <1>1, <3>1, <3>2
  <2>2. m.stack = S0 /\ m.called = <<Index>> \o SubSeq(operands, 1, Arity) /\ Index.value \in Table
    BY <1>1, <2>1 DEF CallAt
  <2>3. m.stack = <<Bottom>> \o Meaning
    BY <1>3, <2>2, OverS0, Zenon
  <2>4. m.called = <<operands[Len(operands)]>> \o SubSeq(operands, 1, Len(sig))
    BY <1>2, <2>2, Zenon DEF Arity
  <2>5. Right
    BY <1>3, <1>5, <2>2, <2>3, <2>4, Zenon DEF Right
  <2> QED BY <1>3, <2>5 DEF RightUnlessNamed
<1> QED BY <1>4, <1>5

\* Conversions.
LEMMA ConversionEnd ==
  ASSUME IInv, Ended, Name \in Conversions
  PROVE  /\ Static /\ ConversionAt(m) /\ ~m.thrown /\ Plain
         /\ Name \in TwoConversions =>
              \E z \in Unary(FirstOp, a) : \E y \in Unary(SecondOp, z) : m.stack = S1(y)
         /\ Name \notin TwoConversions => \E z \in Unary(FirstOp, a) : m.stack = S1(z)
<1>1. Static /\ ConversionAt(m)
  BY DEF IInv, Inside
<1>2. ~m.thrown
  BY <1>1 DEF ConversionAt
<1>3. m.pc = Len(Code) + 1 /\ Len(Code) = IF Name \in TwoConversions THEN 2 ELSE 1
  BY <1>1, <1>2, EndIs, ConversionCode
<1>4. Name \in TwoConversions => m.pc = 3
  BY <1>3
<1>5. Name \notin TwoConversions => m.pc = 2
  BY <1>3
<1>6. Plain
  BY DEF Plain, Conversions
<1> QED BY <1>1, <1>2, <1>4, <1>5, <1>6 DEF ConversionAt

\* An unsigned number of fewer bits is the same number of more bits.
LEMMA Widened ==
  ASSUME NEW x, IsInt("i32", x)
  PROVE  Int2(U(x), "i64") = U(x) /\ U(x) \in Int
<1>1. PICK h \in Nat, k \in Nat : h = Half("i32") /\ k = Half("i64") /\ k >= 2 * h /\ h >= 2
  BY HalfFacts, TypesAre
<1>2. U(x) = IF x.value >= 0 THEN x.value ELSE x.value + 2 * h
  BY <1>1, UnsignedIs, TypesAre DEF IsInt
<1>3. U(x) \in Int /\ U(x) >= 0 /\ U(x) < k
  BY <1>1, <1>2 DEF IsInt
<1>4. Int2(U(x), "i64") = IF U(x) >= k THEN U(x) - 2 * k ELSE U(x)
  <2>1. U(x) >= -Half("i64") /\ U(x) < 2 * Half("i64")
    BY <1>1, <1>3
  <2> QED BY <1>1, <1>3, <2>1, Int2Small, TypesAre
<1> QED BY <1>1, <1>3, <1>4

\* A number of the width is itself.
LEMMA Int2Same ==
  ASSUME NEW t \in IntTypes, NEW n \in Int, n \in -Half(t) .. Half(t) - 1
  PROVE  Int2(n, t) = n
<1>1. PICK h \in Nat : h = Half(t) /\ h >= 2
  BY HalfFacts
<1>2. n >= -Half(t) /\ n < 2 * Half(t) /\ ~(n >= Half(t))
  BY <1>1
<1> QED BY <1>2, Int2Small

LEMMA Int2Unsigned ==
  ASSUME NEW t \in IntTypes, NEW x, IsInt(t, x)
  PROVE  Int2(U(x), t) = x.value
<1>1. PICK h \in Nat : h = Half(t) /\ h >= 2
  BY HalfFacts
<1>2. U(x) = IF x.value >= 0 THEN x.value ELSE x.value + 2 * h
  BY <1>1, UnsignedIs DEF IsInt
<1>3. x.value \in Int /\ x.value >= -h /\ x.value < h /\ U(x) \in Int
  BY <1>1, <1>2 DEF IsInt
<1>4. U(x) >= -Half(t) /\ U(x) < 2 * Half(t)
  BY <1>1, <1>2, <1>3
<1>5. Int2(U(x), t) = IF U(x) >= h THEN U(x) - 2 * h ELSE U(x)
  BY <1>1, <1>3, <1>4, Int2Small
<1> QED BY <1>1, <1>2, <1>3, <1>5

LEMMA SignRight ==
  ASSUME IInv, Ended, Name \in {"EXTEND_I32_S", "WRAP_I64"}
  PROVE  RightUnlessNamed
<1>1. ~Traps /\ ~Departs /\ Meaning = <<IntOf(Type, a.value)>>
  <2>1. ~Traps
    BY Zenon DEF Traps
  <2>2. ~Departs
    BY Zenon DEF Departs
  <2>3. Meaning = <<IntOf(Type, a.value)>>
    BY Zenon DEF Meaning, Orders
  <2> QED BY <2>1, <2>2, <2>3
<1>2. Name \in Conversions /\ Name \notin TwoConversions
  BY DEF Conversions, TwoConversions
<1>3. Static /\ ~m.thrown /\ Plain /\ \E z \in Unary(FirstOp, a) : m.stack = S1(z)
  BY <1>2, ConversionEnd
<1>4. FirstOp = ToType
  BY Zenon DEF FirstOp
<1>5. Type \in IntTypes /\ Type \in {"i32", "i64"}
  BY <1>3, TypeIs DEF IntTypes
<1>6. Unary(FirstOp, a) = ToSigned(Type, a)
  BY <1>4, <1>5, ToTypeIs, UnaryIs
<1>7. ToSigned(Type, a) = {IntOf(Type, a.value)}
  <2>1. PICK s \in IntTypes : IsInt(s, a)
    BY <1>2, <1>3, SourceIs, TypesAre
  <2> QED BY <1>5, <2>1, OfInt
<1>8. m.stack = S1(IntOf(Type, a.value))
  BY <1>3, <1>6, <1>7
<1>9. Right
  BY <1>1, <1>3, <1>8, OneResult
<1> QED BY <1>1, <1>9 DEF RightUnlessNamed

LEMMA ExtendRight ==
  ASSUME IInv, Ended, Name = "EXTEND_I32_U"
  PROVE  RightUnlessNamed
<1>1. ~Traps /\ (Departs <=> a.value < 0) /\ Meaning = <<IntOf(Type, U(a))>>
  <2>1. ~Traps
    BY Zenon DEF Traps
  <2>2. Departs <=> a.value < 0
    BY Zenon DEF Departs
  <2>3. Meaning = <<IntOf(Type, U(a))>>
    BY Zenon DEF Meaning, Orders
  <2> QED BY <2>1, <2>2, <2>3, Zenon
<1>2. Name \in Conversions /\ Name \in TwoConversions
  BY DEF Conversions, TwoConversions
<1>3. Static /\ ~m.thrown /\ Plain /\ \E z \in Unary(FirstOp, a) : \E y \in Unary(SecondOp, z) : m.stack = S1(y)
  BY <1>2, ConversionEnd
<1>4. FirstOp = "conv.u4" /\ SecondOp = "conv.i8"
  <2>1. FirstOp = "conv.u4"
    BY Zenon DEF FirstOp
  <2>2. SecondOp = "conv.i8"
    BY Zenon DEF SecondOp
  <2> QED BY <2>1, <2>2
<1>5. Type = "i64" /\ IsInt("i32", a) /\ "i32" \in IntTypes /\ "i64" \in IntTypes
  BY <1>2, <1>3, TypeIs, SourceIs, TypesAre
<1> DEFINE u == IntOf("i32", U(a))
<1>6. Unary(FirstOp, a) = {u} /\ IsInt("i32", u)
  <2>1. Unary(FirstOp, a) = ToUnsigned("i32", a)
    BY <1>4, UnaryIs
  <2> QED BY <1>5, <2>1, OfInt
<1>7. u.value = a.value
  <2>1. u.value = Int2(U(a), "i32")
    BY DEF IntOf
  <2> QED BY <1>5, <2>1, Int2Unsigned
<1> HIDE DEF u
<1>8. Unary(SecondOp, u) = {IntOf("i64", a.value)}
  <2>1. Unary(SecondOp, u) = ToSigned("i64", u)
    BY <1>4, UnaryIs
  <2>2. ToSigned("i64", u) = {IntOf("i64", u.value)}
    BY <1>5, <1>6, OfInt
  <2> QED BY <1>7, <2>1, <2>2
<1>9. m.stack = S1(IntOf("i64", a.value))
  BY <1>3, <1>6, <1>8
<1>10. Right <=> IntOf("i64", a.value) = IntOf("i64", U(a))
  BY <1>1, <1>3, <1>5, <1>9, OneResult
<1>11. IntOf("i64", a.value) = IntOf("i64", U(a)) <=> Int2(a.value, "i64") = Int2(U(a), "i64")
  <2>1. IntOf("i64", a.value).value = Int2(a.value, "i64") /\ IntOf("i64", U(a)).value = Int2(U(a), "i64")
    BY DEF IntOf
  <2> QED BY <2>1 DEF IntOf
<1>12. Int2(U(a), "i64") = U(a)
  BY <1>5, Widened
<1>13. PICK h \in Nat, k \in Nat : h = Half("i32") /\ k = Half("i64") /\ k >= 2 * h /\ h >= 2
  BY HalfFacts, TypesAre
<1>14. a.value \in Int /\ a.value >= -h /\ a.value < h
  BY <1>5, <1>13 DEF IsInt
<1>15. Int2(a.value, "i64") = a.value
  <2>1. a.value \in -Half("i64") .. Half("i64") - 1
    BY <1>13, <1>14
  <2> QED BY <1>5, <1>14, <2>1, Int2Same
<1>16. U(a) = IF a.value >= 0 THEN a.value ELSE a.value + 2 * h
  BY <1>5, <1>13, UnsignedIs DEF IsInt
<1>17. Right <=> a.value >= 0
  <2>1. Right <=> a.value = U(a)
    BY <1>10, <1>11, <1>12, <1>15
  <2> QED BY <1>13, <1>14, <1>16, <2>1
<1> QED BY <1>1, <1>14, <1>17 DEF RightUnlessNamed

LEMMA FromSignedRight ==
  ASSUME IInv, Ended, Name \in {"CONVERT_I32_S", "CONVERT_I64_S"}
  PROVE  RightUnlessNamed
<1>1. ~Traps /\ ~Departs /\ Meaning = <<FloatOf(Type, a.value)>>
  <2>1. ~Traps
    BY Zenon DEF Traps
  <2>2. ~Departs
    BY Zenon DEF Departs
  <2>3. Meaning = <<FloatOf(Type, a.value)>>
    BY Zenon DEF Meaning, Orders
  <2> QED BY <2>1, <2>2, <2>3
<1>2. Name \in Conversions /\ Name \notin TwoConversions
  BY DEF Conversions, TwoConversions
<1>3. Static /\ ~m.thrown /\ Plain /\ \E z \in Unary(FirstOp, a) : m.stack = S1(z)
  BY <1>2, ConversionEnd
<1>4. FirstOp = ToType
  BY Zenon DEF FirstOp
<1>5. Type \in {"f32", "f64"}
  BY <1>3, TypeIs DEF FloatTypes
<1>6. Unary(FirstOp, a) = {FloatOf(Type, a.value)}
  BY <1>4, <1>5, ToTypeIs, UnaryIs
<1>7. m.stack = S1(FloatOf(Type, a.value))
  BY <1>3, <1>6
<1>8. Right
  BY <1>1, <1>3, <1>7, OneResult
<1> QED BY <1>1, <1>8 DEF RightUnlessNamed

LEMMA FromUnsignedEnd ==
  ASSUME IInv, Ended, Name \in {"CONVERT_I32_U", "CONVERT_I64_U"}
  PROVE  /\ Static /\ ~m.thrown /\ Plain /\ Type \in FloatTypes
         /\ m.stack = S1(FloatOf(Type, Int2(U(a), "i64")))
         /\ ~Traps /\ Meaning = <<FloatOf(Type, U(a))>>
<1>1. ~Traps /\ Meaning = <<FloatOf(Type, U(a))>>
  <2>1. ~Traps
    BY Zenon DEF Traps
  <2>3. Meaning = <<FloatOf(Type, U(a))>>
    BY Zenon DEF Meaning, Orders
  <2> QED BY <2>1, <2>3
<1>2. Name \in Conversions /\ Name \in TwoConversions
  BY DEF Conversions, TwoConversions
<1>3. Static /\ ~m.thrown /\ Plain /\ \E z \in Unary(FirstOp, a) : \E y \in Unary(SecondOp, z) : m.stack = S1(y)
  BY <1>2, ConversionEnd
<1>4. FirstOp = "conv.u8" /\ SecondOp = ToType
  <2>1. FirstOp = "conv.u8"
    BY Zenon DEF FirstOp
  <2>2. SecondOp = ToType
    BY Zenon DEF SecondOp
  <2> QED BY <2>1, <2>2
<1>5. Type \in {"f32", "f64"} /\ Type \in FloatTypes
  BY <1>3, TypeIs DEF FloatTypes
<1>6. PICK s \in IntTypes : IsInt(s, a)
  BY <1>2, <1>3, SourceIs, TypesAre
<1> DEFINE u == IntOf("i64", U(a))
<1>7. Unary(FirstOp, a) = {u}
  <2>1. Unary(FirstOp, a) = ToUnsigned("i64", a)
    BY <1>4, UnaryIs
  <2> QED BY <1>6, <2>1, OfInt, TypesAre
<1>8. u.value = Int2(U(a), "i64")
  BY DEF IntOf
<1> HIDE DEF u
<1>9. Unary(SecondOp, u) = {FloatOf(Type, u.value)}
  BY <1>4, <1>5, ToTypeIs, UnaryIs
<1>10. m.stack = S1(FloatOf(Type, Int2(U(a), "i64")))
  BY <1>3, <1>7, <1>8, <1>9
<1> QED BY <1>1, <1>3, <1>5, <1>10

LEMMA FromUnsigned32Right ==
  ASSUME IInv, Ended, Name = "CONVERT_I32_U"
  PROVE  RightUnlessNamed
<1>1. /\ Static /\ ~m.thrown /\ Plain /\ ~Traps /\ Meaning = <<FloatOf(Type, U(a))>>
      /\ m.stack = S1(FloatOf(Type, Int2(U(a), "i64")))
  BY FromUnsignedEnd
<1>2. IsInt("i32", a)
  BY <1>1, SourceIs DEF Conversions
<1>3. m.stack = S1(FloatOf(Type, U(a)))
  BY <1>1, <1>2, Widened
<1>4. Right
  BY <1>1, <1>3, OneResult
<1>5. ~Departs
  BY Zenon DEF Departs
<1> QED BY <1>4, <1>5 DEF RightUnlessNamed

LEMMA FromUnsigned64Right ==
  ASSUME IInv, Ended, Name = "CONVERT_I64_U"
  PROVE  RightUnlessNamed
<1>1. /\ Static /\ ~m.thrown /\ Plain /\ ~Traps /\ Meaning = <<FloatOf(Type, U(a))>>
      /\ m.stack = S1(FloatOf(Type, Int2(U(a), "i64"))) /\ Type \in FloatTypes
  BY FromUnsignedEnd
<1>2. IsInt("i64", a) /\ a.value \in Int
  BY <1>1, SourceIs DEF Conversions, IsInt
<1>3. Int2(U(a), "i64") = a.value
  BY <1>2, Int2Unsigned, TypesAre
<1>4. Right <=> FloatOf(Type, a.value) = FloatOf(Type, U(a))
  BY <1>1, <1>3, OneResult
<1>5. Departs <=> a.value < 0
  BY Zenon DEF Departs
<1>6. PICK h \in Nat : h = Half("i64")
  BY HalfFacts, TypesAre
<1>7. U(a) = (IF a.value >= 0 THEN a.value ELSE a.value + 2 * h) /\ a.value >= -h
  BY <1>2, <1>6, UnsignedIs, TypesAre DEF IsInt
<1>8. CASE a.value >= 0
  <2>1. Right /\ ~Departs
    BY <1>2, <1>4, <1>5, <1>7, <1>8
  <2> QED BY <2>1 DEF RightUnlessNamed
<1>9. CASE a.value < 0
  <2>1. U(a) \in Int /\ ~(U(a) < 0)
    BY <1>2, <1>6, <1>7, <1>9
  <2>2. FloatOf(Type, a.value).value.neg = (a.value < 0) /\ FloatOf(Type, U(a)).value.neg = (U(a) < 0)
    BY <1>1, <1>2, <2>1, FloatOfIs
  <2>3. ~Right /\ Departs
    BY <1>4, <1>5, <1>9, <2>1, <2>2
  <2> QED BY <2>3 DEF RightUnlessNamed
<1> QED BY <1>2, <1>8, <1>9

\* A float that has a whole part of the width: TRUNC.
LEMMA TruncMeans ==
  ASSUME Name \in {"TRUNC_F32_S", "TRUNC_F32_U", "TRUNC_F64_S", "TRUNC_F64_U"}
  PROVE  /\ Traps <=> ~Finite(a) \/ Whole(a) \notin TruncRange
         /\ Meaning = <<IntOf(Type, Whole(a))>> /\ ~Determined
         /\ Name \in Conversions /\ Plain
         /\ TruncRange = IF Name \in {"TRUNC_F32_S", "TRUNC_F64_S"} THEN Least(Type) .. -Least(Type) - 1
                         ELSE 0 .. 2 * Half(Type) - 1
<1>1. Traps <=> ~Finite(a) \/ Whole(a) \notin TruncRange
  BY Zenon DEF Traps
<1>2. Meaning = <<IntOf(Type, Whole(a))>>
  BY Zenon DEF Meaning, Orders
<1> QED BY <1>1, <1>2 DEF Determined, Conversions, Plain, TruncRange

LEMMA TruncOnceRight ==
  ASSUME IInv, Ended, Name \in {"TRUNC_F32_S", "TRUNC_F64_S", "TRUNC_F32_U"}
  PROVE  RightUnlessNamed
<1>1. /\ Traps <=> ~Finite(a) \/ Whole(a) \notin TruncRange
      /\ Meaning = <<IntOf(Type, Whole(a))>> /\ ~Determined /\ Plain
      /\ TruncRange = IF Name \in {"TRUNC_F32_S", "TRUNC_F64_S"} THEN Least(Type) .. -Least(Type) - 1
                      ELSE 0 .. 2 * Half(Type) - 1
  BY TruncMeans
<1>2. Name \in Conversions /\ Name \notin TwoConversions
  BY DEF Conversions, TwoConversions
<1>3. Static /\ ~m.thrown /\ \E z \in Unary(FirstOp, a) : m.stack = S1(z)
  BY <1>2, ConversionEnd
<1>4. FirstOp = ToType
  BY Zenon DEF FirstOp
<1>5. Type \in {"i32", "i64"} /\ Type \in IntTypes
  BY <1>3, TypeIs DEF IntTypes
<1>6. PICK s \in FloatTypes : a \in Floats(s)
  BY <1>2, <1>3, SourceIs DEF FloatTypes
<1>7. Unary(FirstOp, a) = Converted(Type, a, Least(Type), -Least(Type) - 1)
  <2>1. Unary(FirstOp, a) = ToSigned(Type, a)
    BY <1>4, <1>5, ToTypeIs, UnaryIs
  <2> QED BY <1>5, <1>6, <2>1, OfFloat
<1>8. ASSUME ~Departs
      PROVE  ~Traps /\ Finite(a) /\ Whole(a) \in Least(Type) .. -Least(Type) - 1
  <2>1. CASE Name \in {"TRUNC_F32_S", "TRUNC_F64_S"}
    <3>1. ~Traps
      BY <1>8, <2>1, Zenon DEF Departs
    <3>2. TruncRange = Least(Type) .. -Least(Type) - 1
      BY <1>1, <2>1
    <3> QED BY <1>1, <3>1, <3>2
  <2>2. CASE Name = "TRUNC_F32_U"
    <3>1. ~Traps /\ ~(Whole(a) > -Least(Type) - 1)
      BY <1>8, <2>2, Zenon DEF Departs
    <3>2. TruncRange = 0 .. 2 * Half(Type) - 1
      BY <1>1, <2>2
    <3>3. PICK h \in Nat : h = Half(Type)
      BY <1>5, HalfFacts
    <3>4. Finite(a) /\ Whole(a) \in 0 .. 2 * h - 1 /\ ~(Whole(a) > -(-h) - 1)
      BY <1>1, <3>1, <3>2, <3>3 DEF Least
    <3>5. Whole(a) \in -h .. -(-h) - 1
      BY <3>4
    <3> QED BY <3>1, <3>3, <3>4, <3>5 DEF Least
  <2> QED BY <2>1, <2>2
<1>9. ASSUME ~Departs
      PROVE  Right
  <2>1. ~Traps /\ Finite(a) /\ Whole(a) \in Least(Type) .. -Least(Type) - 1
    BY <1>8, <1>9
  <2>2. Unary(FirstOp, a) = {IntOf(Type, Whole(a))}
    BY <1>7, <2>1, Zenon DEF Converted
  <2>3. m.stack = S1(IntOf(Type, Whole(a)))
    BY <1>3, <2>2
  <2> QED BY <1>1, <1>3, <2>1, <2>3, OneResult
<1> QED BY <1>1, <1>9 DEF RightUnlessNamed

LEMMA TruncTwiceRight ==
  ASSUME IInv, Ended, Name = "TRUNC_F64_U"
  PROVE  RightUnlessNamed
<1>1. /\ Traps <=> ~Finite(a) \/ Whole(a) \notin TruncRange
      /\ Meaning = <<IntOf(Type, Whole(a))>> /\ ~Determined /\ Plain
      /\ TruncRange = 0 .. 2 * Half(Type) - 1
  BY TruncMeans
<1>2. Name \in Conversions /\ Name \in TwoConversions
  BY DEF Conversions, TwoConversions
<1>3. Static /\ ~m.thrown /\ \E z \in Unary(FirstOp, a) : \E y \in Unary(SecondOp, z) : m.stack = S1(y)
  BY <1>2, ConversionEnd
<1>4. FirstOp = ToUnsignedType /\ SecondOp = ToType
  <2>1. FirstOp = ToUnsignedType
    BY Zenon DEF FirstOp
  <2>2. SecondOp = ToType
    BY Zenon DEF SecondOp
  <2> QED BY <2>1, <2>2
<1>5. Type \in {"i32", "i64"} /\ Type \in IntTypes
  BY <1>3, TypeIs DEF IntTypes
<1>6. a \in Floats("f64") /\ "f64" \in FloatTypes
  BY <1>2, <1>3, SourceIs DEF FloatTypes
<1>7. Unary(FirstOp, a) = Converted(Type, a, 0, 2 * Half(Type) - 1)
  <2>1. Unary(FirstOp, a) = ToUnsigned(Type, a)
    BY <1>4, <1>5, ToTypeIs, UnaryIs
  <2> QED BY <1>5, <1>6, <2>1, OfFloat
<1>8. CASE Traps
  <2>1. Departs
    BY <1>8, Zenon DEF Departs
  <2> QED BY <1>1, <2>1 DEF RightUnlessNamed
<1>9. CASE ~Traps
  <2>1. Finite(a) /\ Whole(a) \in 0 .. 2 * Half(Type) - 1
    BY <1>1, <1>9
  <2> DEFINE w == IntOf(Type, Whole(a))
  <2>2. Unary(FirstOp, a) = {w}
    BY <1>7, <2>1, Zenon DEF Converted
  <2>3. IsInt(Type, w) /\ w = [type |-> Type, value |-> w.value]
    BY <1>5, <1>6, <2>1, WholeIs, IntOfIsInt, IntOfIs
  <2> HIDE DEF w
  <2>4. Unary(SecondOp, w) = {IntOf(Type, w.value)}
    <3>1. Unary(SecondOp, w) = ToSigned(Type, w)
      BY <1>4, <1>5, ToTypeIs, UnaryIs
    <3> QED BY <1>5, <2>3, <3>1, OfInt
  <2>5. IntOf(Type, w.value) = w
    <3>1. Int2(w.value, Type) = w.value
      BY <1>5, <2>3, Int2Same DEF IsInt
    <3> QED BY <2>3, <3>1 DEF IntOf
  <2>6. m.stack = S1(w)
    BY <1>3, <2>2, <2>4, <2>5
  <2>7. Right
    BY <1>1, <1>3, <1>9, <2>6, OneResult DEF w
  <2> QED BY <1>1, <2>7 DEF RightUnlessNamed
<1> QED BY <1>8, <1>9

LEMMA EveryRight ==
  ASSUME IInv
  PROVE  RightUnlessNamed
<1>0. CASE ~Ended
  BY <1>0 DEF RightUnlessNamed
<1>1. CASE Ended
  <2>1. CASE Name \in DOMAIN DirectOf
    BY <1>1, <2>1, DirectNames, DivRight, RemRight, ShiftRight
  <2>2. CASE Name \in Orders
    BY <1>1, <2>2, OrderRight
  <2>3. CASE Name \in {"NE", "EQZ", "ABS", "COPYSIGN", "SELECT"}
    BY <1>1, <2>3, NERight, EQZRight, ABSRight, COPYSIGNRight, SELECTRight
  <2>4. CASE Name \in {"LOCAL_GET", "LOCAL_SET", "LOCAL_TEE", "CALL_INDIRECT"}
    BY <1>1, <2>4, GetRight, SetRight, TEERight, CallRight
  <2>5. CASE Name \in Conversions
    BY <1>1, <2>5, SignRight, ExtendRight, FromSignedRight, FromUnsigned32Right, FromUnsigned64Right,
       TruncOnceRight, TruncTwiceRight DEF Conversions
  <2>6. Static
    BY DEF IInv
  <2> QED BY <2>1, <2>2, <2>3, <2>4, <2>5, <2>6, NamesAre
<1> QED BY <1>0, <1>1

-------------------------------------------------------------------------------
(* The theorems. *)

\* At every position of the code of an instruction the stack and the scratch
\* variables are what that position has (the switch of ReadCodeSection).
THEOREM Invariance == Spec => []IInv
<1>1. Init => IInv
  BY Start
<1>2. IInv /\ [Next]_vars => IInv'
  BY StepKeeps
<1> QED BY <1>1, <1>2, PTL DEF Spec

\* Every step leaves a machine of the CLI: no argument, local or scratch variable
\* ever has a value of another type (getVariable, one variable for each type).
THEOREM TypeCorrect == Spec => []TypeOK
<1>1. IInv => TypeOK
  BY Typed
<1> QED BY <1>1, Invariance, PTL

\* The code for one instruction touches only its operands, at every step, and
\* leaves one result, or none.
THEOREM OnlyOperandsTouched == Spec => []NothingElseTouched
<1>1. IInv => NothingElseTouched
  BY Untouched
<1> QED BY <1>1, Invariance, PTL

\* For all operands, of any width, whatever the scratch variables held, the code
\* does what the instruction means, except for the operands Departs names, and
\* for those, where the CLI says what happens, it does not.
THEOREM EmittedCodeIsRight == Spec => []RightUnlessNamed
<1>1. IInv => RightUnlessNamed
  BY EveryRight
<1> QED BY <1>1, Invariance, PTL

===============================================================================

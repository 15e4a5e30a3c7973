------------------------------ MODULE Translator ------------------------------
(* The loop of Transformer.ReadCodeSection that turns one WebAssembly function *)
(* body into IL, one instruction at a time.                                    *)
(*                                                                             *)
(* What the loop keeps while it reads: `top`, the types it believes are on the *)
(* operand stack ("to satisfy SELECT"), `labelStack`, the labels of the        *)
(* constructs that are still open, and the labels it has appended to the IL.   *)
(* Beside it runs the part of the WebAssembly validation algorithm that says   *)
(* which instruction may come next: `ops`, the operands really on the stack,   *)
(* and `ctrl`, the constructs really open.  The input is thus any valid body   *)
(*   - whose instructions can all be reached, END excepted: after BR, RETURN,  *)
(*     UNREACHABLE or BR_TABLE only ENDs follow, until an END that a branch    *)
(*     targets;                                                                *)
(*   - whose BR_TABLEs carry no operand to their targets;                      *)
(* which is how LLVM, the producer the repository is used with, writes code.   *)
(* A label or construct is named by the position of the instruction that       *)
(* created it; position 0 is the function itself and NoLabel, a null label.    *)
EXTENDS Integers, Sequences, FiniteSets

CONSTANTS Types,      \* the value types the body uses
          Sigs,       \* signatures of the functions it calls
          VoidPushes, \* what push leaves for the Void of an imported host method
          MaxBody     \* bound: instructions in the body, the final END included

NumTypes == {"i32", "i64", "f32", "f64"}

\* A function or block has no result or one.
Results == {<<>>} \cup {<<t>> : t \in Types}

ASSUME TypesAssumption == Types \subseteq NumTypes /\ "i32" \in Types
ASSUME SigsAssumption == Sigs \subseteq [params : Seq(Types), result : Results]
ASSUME VoidPushesAssumption == VoidPushes \subseteq {<<>>, <<"void">>}
ASSUME MaxBodyAssumption == MaxBody \in Nat

VARIABLES
  ops, ctrl, live,                       \* the valid body, as far as it is read
  pc, top, labelStack, placed, branches, \* the translator
  outcome,
  exact,                                 \* no untracked instruction met so far
  ended                                  \* where the constructs ended

vars == <<ops, ctrl, live, pc, top, labelStack, placed, branches, outcome, exact, ended>>

NoLabel == 0
Here == pc + 1

-------------------------------------------------------------------------------
(* Sequences used as stacks, the top at the end. *)

Take(s, n) == SubSeq(s, 1, n)
Cut(s, n) == SubSeq(s, 1, Len(s) - n)
Topmost(s) == s[Len(s)]
EndsWith(s, t) == Len(t) <= Len(s) /\ SubSeq(s, Len(s) - Len(t) + 1, Len(s)) = t

-------------------------------------------------------------------------------
(* The valid body. *)

Frame(kind, result) == [kind |-> kind, id |-> Here, height |-> Len(ops), result |-> result]

\* The operands `s` are on the stack, inside the innermost construct.
Has(s) == Len(ops) - Len(s) >= Topmost(ctrl).height /\ EndsWith(ops, s)

FrameAt(k) == ctrl[Len(ctrl) - k]

\* What a branch to `f` carries: to a loop nothing, since it goes to its start.
Carried(f) == IF f.kind = "loop" THEN <<>> ELSE f.result

\* Some branch goes to the end of the construct `f`.
Reached(f) == f.kind # "loop" /\ \E b \in branches : b.frame = f.id

\* Room for this instruction and, for each construct still open then (`n` of them
\* new), for an UNREACHABLE and an END: a body can always be finished.
RoomFor(n) == pc + 1 + 2 * (Len(ctrl) + n) <= MaxBody

-------------------------------------------------------------------------------
(* The instructions that neither branch nor open a construct: the operands     *)
(* they really take (`in`) and leave (`out`), and what their case does to      *)
(* `top`: how many entries it pops and which it pushes.                        *)

Instr(in, out, pops, pushes) == [in |-> in, out |-> out, pops |-> pops, pushes |-> pushes]

\* LOCAL_GET, GLOBAL_GET, the constants and MEMORY_SIZE.
Producers == {Instr(<<>>, <<t>>, 0, <<t>>) : t \in Types}

\* LOCAL_SET, GLOBAL_SET and DROP.
Consumers == {Instr(<<t>>, <<>>, 1, <<>>) : t \in Types}

\* LOCAL_TEE, and NEG, ABS, SQRT, CEIL, FLOOR, CTZ, CLZ, POPCNT: type unchanged.
Keepers == {Instr(<<t>>, <<t>>, 0, <<>>) : t \in Types}

\* Conversions; those from f32 to i64 are not in the switch.
ConversionPairs == {p \in Types \X Types : p[1] # p[2] /\ p # <<"f32", "i64">>}
Conversions == {Instr(<<p[1]>>, <<p[2]>>, 1, <<p[2]>>) : p \in ConversionPairs}

\* EQZ.
ZeroTests == {Instr(<<t>>, <<"i32">>, 1, <<"i32">>) : t \in Types \cap {"i32", "i64"}}

\* MEMORY_GROW takes a number of pages and leaves one.
Growths == {Instr(<<"i32">>, <<"i32">>, 1, <<"i32">>)}

\* Arithmetic, MIN, MAX, bitwise, shift and rotate: the first operand's entry
\* stands for the result.
ArithmeticPopsBoth == {Instr(<<t, t>>, <<t>>, 2, <<>>) : t \in Types}
Arithmetic == {Instr(<<t, t>>, <<t>>, 1, <<>>) : t \in Types}

\* EQ, NE, LT, GT, LE and GE.
ComparisonsKeepType == {Instr(<<t, t>>, <<"i32">>, 1, <<>>) : t \in Types}
Comparisons == {Instr(<<t, t>>, <<"i32">>, 2, <<"i32">>) : t \in Types}

\* COPYSIGN has no pop.
CopySigns == {Instr(<<t, t>>, <<t>>, 0, <<>>) : t \in Types \cap {"f32", "f64"}}

\* Loads push the value and do not pop the address; stores pop the value only.
Loads == {Instr(<<"i32">>, <<t>>, 0, <<t>>) : t \in Types}
Stores == {Instr(<<"i32", t>>, <<>>, 1, <<>>) : t \in Types}

\* CALL of a translated or stubbed function.
Calls == {Instr(s.params, s.result, Len(s.params), s.result) : s \in Sigs}

\* CALL of a method of Wasi, whose first parameter is the Context.  `push` skips
\* the type object `voidType`; whether the Void of an imported method is that
\* object is for Cecil to say: VoidPushes holds <<>> if it is, <<"void">> if not.
HostCalls ==
  UNION {{Instr(s.params, s.result, Len(s.params), IF s.result = <<>> THEN v ELSE s.result)
            : v \in VoidPushes} : s \in Sigs}

\* CALL_INDIRECT pops the arguments but not the index of the function.
IndirectCalls == {Instr(Append(s.params, "i32"), s.result, Len(s.params), s.result) : s \in Sigs}

-------------------------------------------------------------------------------
(* Translating one instruction that neither branches nor opens a construct.    *)

Reading == outcome = "reading"

Read == Reading /\ pc' = Here

\* The translation of the module ends with an exception.
Fail(reason) ==
  /\ outcome' = reason
  /\ UNCHANGED <<ops, ctrl, live, top, labelStack, placed, branches, exact, ended>>

\* pop(n) then push: Stack<T>.Pop throws when nothing is left.
PopPush(n, pushes) == IF n <= Len(top) THEN top' = Cut(top, n) \o pushes
                                       ELSE top' = <<>>

Straight(i, tracked) ==
  /\ Read /\ live /\ RoomFor(0) /\ Has(i.in)
  /\ ops' = Cut(ops, Len(i.in)) \o i.out
  /\ PopPush(i.pops, i.pushes)
  /\ outcome' = IF i.pops <= Len(top) THEN outcome ELSE "underflow"
  /\ exact' = (exact /\ tracked)
  /\ UNCHANGED <<ctrl, live, labelStack, placed, branches, ended>>

Produce == \E i \in Producers : Straight(i, TRUE)
Consume == \E i \in Consumers : Straight(i, TRUE)
Keep == \E i \in Keepers : Straight(i, TRUE)
Convert == \E i \in Conversions \cup ZeroTests \cup Growths : Straight(i, TRUE)
Arith == \E i \in Arithmetic : Straight(i, TRUE)
Compare == \E i \in Comparisons : Straight(i, TRUE)
Call == \E i \in Calls : Straight(i, TRUE)
CopySign == \E i \in CopySigns : Straight(i, FALSE)
Load == \E i \in Loads : Straight(i, FALSE)
Store == \E i \in Stores : Straight(i, FALSE)
CallIndirect == \E i \in IndirectCalls : Straight(i, FALSE)
CallHost == \E i \in HostCalls : Straight(i, i.pushes # <<"void">>)

\* SELECT takes two operands and a condition.  pop(2) drops the condition's
\* entry and takes the next one for the type of the scratch variable.
SelectType == top[Len(top) - 1]
Select ==
  /\ Read /\ live /\ RoomFor(0)
  /\ \E t \in Types : Has(<<t, t, "i32">>)
  /\ ops' = Cut(ops, 2)
  /\ PopPush(2, <<>>)
  /\ outcome' = IF 2 <= Len(top) THEN outcome ELSE "underflow"
  /\ UNCHANGED <<ctrl, live, labelStack, placed, branches, exact, ended>>

\* IF, ELSE, NEAREST, TRUNC of a float and the f32 to i64 conversions.
Unsupported == Read /\ live /\ RoomFor(0) /\ Fail("unsupported")

-------------------------------------------------------------------------------
(* Constructs. *)

\* The code after this instruction cannot be reached: its operands are dropped.
CutOff ==
  /\ live' = FALSE
  /\ ops' = Take(ops, Topmost(ctrl).height)

\* BLOCK creates its label now and appends it at its END.
Block(result) ==
  /\ Read /\ live /\ RoomFor(1)
  /\ ctrl' = Append(ctrl, Frame("block", result))
  /\ labelStack' = Append(labelStack, [start |-> Here, end |-> Here])
  /\ UNCHANGED <<ops, live, top, placed, branches, outcome, exact, ended>>

\* LOOP appends its label at once and has none for its end.
LoopEntryWithEnd == [start |-> Here, end |-> Here]
LoopEntry == [start |-> Here, end |-> NoLabel]
Loop(result) ==
  /\ Read /\ live /\ RoomFor(1)
  /\ ctrl' = Append(ctrl, Frame("loop", result))
  /\ labelStack' = Append(labelStack, LoopEntry)
  /\ placed' = placed \cup {<<Here, Here>>}
  /\ UNCHANGED <<ops, live, top, branches, outcome, exact, ended>>

\* END of a block or loop: its label is appended if it has one.
PlaceEndUnchecked(entry) == {<<entry.end, Here>>}
PlaceEnd(entry) == IF entry.end = NoLabel THEN {} ELSE {<<entry.end, Here>>}

CanEnd == LET f == Topmost(ctrl) IN live => Len(ops) = f.height + Len(f.result) /\ Has(f.result)

EndConstruct ==
  /\ Read /\ CanEnd /\ Len(labelStack) > 1
  /\ labelStack' = Cut(labelStack, 1)
  /\ placed' = placed \cup PlaceEnd(Topmost(labelStack))
  /\ LET f == Topmost(ctrl) IN
       /\ ctrl' = Cut(ctrl, 1)
       /\ ended' = ended \cup {<<f.id, Here>>}
       /\ live' = (live \/ Reached(f))
       /\ ops' = Take(ops, f.height) \o (IF live' THEN f.result ELSE <<>>)
  /\ exact' = (exact /\ live)
  /\ UNCHANGED <<top, branches, outcome>>

\* END of the function: only the base label is left.
EndFunction ==
  /\ Read /\ CanEnd /\ Len(labelStack) <= 1
  /\ labelStack' = Tail(labelStack)
  /\ ctrl' = Cut(ctrl, 1)
  /\ ended' = ended \cup {<<Topmost(ctrl).id, Here>>}
  /\ outcome' = "done"
  /\ UNCHANGED <<ops, live, top, placed, branches, exact>>

-------------------------------------------------------------------------------
(* Branches. *)

\* labelStack[labelStack.Count - brindex - 1].StartLabel
TargetOffByOne(k) == labelStack[Len(labelStack) - (IF k > 0 THEN k - 1 ELSE 0)].start
Target(k) == labelStack[Len(labelStack) - k].start

Branch(k) == [frame |-> FrameAt(k).id, kind |-> FrameAt(k).kind, label |-> Target(k)]

Depths == 0 .. Len(ctrl) - 1

\* Emit(Br, null) throws.
Br(k) ==
  /\ Read /\ live /\ RoomFor(0) /\ Has(Carried(FrameAt(k)))
  /\ IF Target(k) = NoLabel
     THEN Fail("null target")
     ELSE /\ branches' = branches \cup {Branch(k)}
          /\ CutOff
          /\ UNCHANGED <<ctrl, top, labelStack, placed, outcome, exact, ended>>

\* BR_IF takes the condition; the case has no pop.
BrIf(k) ==
  /\ Read /\ live /\ RoomFor(0) /\ Has(Append(Carried(FrameAt(k)), "i32"))
  /\ IF Target(k) = NoLabel
     THEN Fail("null target")
     ELSE /\ branches' = branches \cup {Branch(k)}
          /\ ops' = Cut(ops, 1)
          /\ exact' = FALSE
          /\ UNCHANGED <<ctrl, live, top, labelStack, placed, outcome, ended>>

\* BR_TABLE: the items may hold a null, which Emit(Switch, items) accepts; for
\* the default there is a check.
BrTable(items, default) ==
  /\ Read /\ live /\ RoomFor(0) /\ Has(<<"i32">>)
  /\ \A k \in items \cup {default} : Carried(FrameAt(k)) = <<>>
  /\ IF Target(default) = NoLabel
     THEN Fail("unexpected situation")
     ELSE /\ branches' = branches \cup {Branch(k) : k \in items \cup {default}}
          /\ PopPush(1, <<>>)
          /\ outcome' = IF 1 <= Len(top) THEN outcome ELSE "underflow"
          /\ CutOff
          /\ UNCHANGED <<ctrl, labelStack, placed, exact, ended>>

Return ==
  /\ Read /\ live /\ RoomFor(0) /\ Has(ctrl[1].result)
  /\ CutOff
  /\ UNCHANGED <<ctrl, top, labelStack, placed, branches, outcome, exact, ended>>

Unreachable ==
  /\ Read /\ live /\ pc + 2 * Len(ctrl) <= MaxBody
  /\ CutOff
  /\ UNCHANGED <<ctrl, top, labelStack, placed, branches, outcome, exact, ended>>

-------------------------------------------------------------------------------
Init ==
  /\ pc = 0 /\ outcome = "reading"
  /\ \E r \in Results : ctrl = <<[kind |-> "func", id |-> 0, height |-> 0, result |-> r]>>
  /\ labelStack = <<[start |-> NoLabel, end |-> NoLabel]>>
  /\ ops = <<>> /\ top = <<>>
  /\ live = TRUE /\ exact = TRUE
  /\ placed = {} /\ branches = {} /\ ended = {}

Finished == ~Reading /\ UNCHANGED vars

Next ==
  \/ Produce \/ Consume \/ Keep \/ Convert \/ Arith \/ Compare
  \/ Call \/ CopySign \/ Load \/ Store \/ CallIndirect \/ CallHost
  \/ Select \/ Unsupported
  \/ \E r \in Results : Block(r) \/ Loop(r)
  \/ EndConstruct \/ EndFunction
  \/ \E k \in Depths : Br(k) \/ BrIf(k)
  \/ \E items \in SUBSET Depths, default \in Depths : BrTable(items, default)
  \/ Return \/ Unreachable
  \/ Finished

Spec == Init /\ [][Next]_vars

-------------------------------------------------------------------------------
(* Properties. *)

Positions == 0 .. pc
Kinds == {"func", "block", "loop"}
Frames == [kind : Kinds, id : Positions, height : Nat, result : Results]
Entries == [start : Positions, end : Positions]
Branches == [frame : Positions, kind : Kinds, label : Positions]
Outcomes == {"reading", "done", "underflow", "unsupported", "null target", "unexpected situation"}

\* Types of the variables.  What it says beyond that: a label that is appended
\* is never null, so END never appends the missing end label of a loop.
TypeOK ==
  /\ pc \in Nat
  /\ ops \in Seq(Types)
  /\ ctrl \in Seq(Frames)
  /\ live \in BOOLEAN /\ exact \in BOOLEAN
  /\ top \in Seq(Types \cup {"void"})
  /\ labelStack \in Seq(Entries)
  /\ placed \subseteq (1 .. pc) \X (1 .. pc)
  /\ ended \subseteq Positions \X (1 .. pc)
  /\ branches \subseteq Branches
  /\ outcome \in Outcomes

\* While a body is read, labelStack has one entry per open construct, in the same
\* order, and that entry is the one made for the construct: brindex counts
\* constructs outwards and the code uses it to index labelStack.
LabelsMirrorFrames ==
  Reading =>
    /\ Len(labelStack) = Len(ctrl)
    /\ Len(ctrl) > 0
    /\ \A i \in 1 .. Len(ctrl) :
         LET f == ctrl[i] IN
         labelStack[i] = CASE f.kind = "func" -> [start |-> NoLabel, end |-> NoLabel]
                           [] f.kind = "block" -> [start |-> f.id, end |-> f.id]
                           [] f.kind = "loop" -> [start |-> f.id, end |-> NoLabel]

\* Every emitted branch lands where WebAssembly says: at the start of the loop it
\* targets, or right after the END of the block, where its label is appended
\* (exactly once); until then the label waits in the block's entry of
\* labelStack.  Only the items of a BR_TABLE can be null, for the function.
Pending(b) == \E i \in 1 .. Len(ctrl) : /\ ctrl[i].id = b.frame
                                        /\ i <= Len(labelStack)
                                        /\ labelStack[i].end = b.label
Lands(b) ==
  CASE b.kind = "func" -> b.label = NoLabel
    [] b.kind = "loop" -> <<b.label, b.frame>> \in placed
    [] b.kind = "block" -> \/ Pending(b)
                           \/ \E p \in 1 .. pc : /\ <<b.frame, p>> \in ended
                                                 /\ <<b.label, p>> \in placed
BranchesLand ==
  /\ \A b \in branches : Lands(b)
  /\ \A x, y \in placed : x[1] = y[1] => x = y

\* The type stack never runs empty: `top` has an entry for every operand, so no
\* body of the kind described above makes Stack.Pop throw.
NoUnderflow ==
  /\ outcome # "underflow"
  /\ Reading => Len(top) >= Len(ops)

\* `top` is exactly the operand stack until the first instruction that loses
\* track: a load, a store, COPYSIGN, CALL_INDIRECT, BR_IF, a call of a void host
\* function or the END of unreachable code.  All other cases are exact.
ExactUntilDrift == Reading /\ exact /\ live => top = ops

\* What SELECT reads is the type of the operands it chooses between.
SelectTypeTracked ==
  \A t \in Types : Reading /\ live /\ Has(<<t, t, "i32">>) => SelectType = t

===============================================================================

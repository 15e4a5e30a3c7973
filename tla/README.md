# wasm2il in TLA+

wasm2il translates a WebAssembly module into a .NET assembly
(`src/Wasm2Il/Transformer.cs`, through Mono.Cecil) and gives the translated
program the WASI calls it imports (`src/Wasm2Il/Wasi.cs`). The modules here say
what its parts do, TLC checks them on small instances, and TLAPS proves the
central ones for every value of their constants.

    tlc -config Translator.cfg MCTranslator.tla     # any run: see the table of runs
    tlapm TranslatorProofs.tla                      # the proofs

## The system

| Component | State | Operations | Interacts with |
| --- | --- | --- | --- |
| Command line (`Program.cs`) | none | parse arguments, `Go`, run one method | Transformer |
| Module loader (`Transformer.Go`, `Read*Section`, `resolveMethod`) | `Types`, `ImportFuncs`, `FuncDecl`, `ExportFunc`, `globals`, the class being built, its static constructor | one handler per section; then stubs, function table, code | BinReader; Wasi by reflection, by name; body translator |
| Body translator (the loop in `ReadCodeSection`) | `top` (types), `labelStack`, the emitted IL | one case per instruction | loader's `resolveMethod`; reader |
| Emitted program | the static fields `Memory`, `FunctionTable`, `globalN` | the translated methods | Wasi, through `GetContext(cls)` |
| WASI (`Wasi.cs`) | per class a `Context`: `fds`, `dirs`, `inodes`, `inodesCounter` | one static method per WASI call; overrides of libc functions that call back `..._pre` | `Memory` of the program by reflection; FileStream and the file system |
| BinReader, BinWriter (`Utils`) | position, string buffer `membuffer` | fixed-width values, LEB128, strings | loader |
| Tables (`WasmSpec`) | none | enumerations and records | all |
| Tests (`Wasm2Il.UnitTests`, `TestCCode`, `TestAssembly`) | | | `sqlite3.c` is vendored |

Everything runs on one thread, and nothing is persisted by the tool but its
output file. What is hard here is not interleaving but order and bookkeeping:

* *long sequences of legal steps.* The translator keeps two stacks beside a
  third it does not see (the operands the emitted IL has on the CLI's stack).
  A case that forgets a push, pop or label is noticed many instructions later,
  or by the CLI when it verifies the method, or never.
* *order of the sections.* Element and code sections are skipped and read
  after all others; five places edit the end of the same static constructor;
  indices count imports in some places and not in others.
* *copies of structs.* `ImportFunc` is a struct kept in a dictionary.
* *overriding by name.* A function that goes by the name of a method of Wasi is
  redirected, for direct and indirect calls, and its code must stay reachable.
* *reading past what is there.* The name section may be read into the sections
  behind it; `Stream.Read` at the end of a file delivers less and nobody looks.
* *state shared by instructions.* Every instruction of a function uses the same
  scratch variables; every string goes through one buffer; MEMORY_GROW replaces
  the array that others may hold.
* *the meaning of an instruction at its edges*, where WebAssembly and the CLI
  differ: NaN, signs of zero, widths, shift counts, addresses over 2^31.
* *stale views of files.* A FileStream buffers writes, while path calls ask the
  file system; handles and inode numbers outlive names.
* *limits.* 990 file handles, 999 directory handles (never released).

`PROJECT.json` lists the hazards with their lines and the properties for them.

## What makes each component correct

* Body translator: labels and open constructs correspond; a branch goes where
  WebAssembly says; the type stack never runs empty and is exact where SELECT
  reads it; the emitted IL computes what the instruction means.
* Loader: a call reaches the function it names, however it is called; overridden
  code is kept; the constructor can run; a valid module is refused only for what
  the code cannot translate, and never accepted with it.
* WASI files: a handle is one file until closed; nothing written is lost; sizes
  and numbers reported are right.
* Memory: growing keeps contents and returns the old size; loads see stores.
* BinReader and BinWriter: what is written is read back, whatever was read
  before; the reader stays in step; a file cut short is noticed.

## Modules

### Translator, MCTranslator, TranslatorProofs

`Translator` is the instruction loop. `pc`, `top`, `labelStack`, `placed` (labels
appended to the IL, each with the instruction it precedes or follows),
`branches` and `outcome` are the translator. Labels are named by the position of
the instruction that creates them.

The input has to be a valid body, so the module also runs the state of
WebAssembly's validation algorithm: `ops` (operand types), `ctrl` (constructs)
and `live`. An action is one instruction that validation allows next, with the
whole of its case. Instructions that do the same to the stacks share an action,
and a record `Instr(in, out, pops, pushes)` puts what they really take and leave
beside what the case does to `top`. These differ for loads (the address is not
popped), stores (likewise), COPYSIGN, CALL_INDIRECT (the index) and BR_IF (the
condition). `exact` says that none of these came yet.

Two assumptions restrict the input, both true of what LLVM writes: after BR, BR_TABLE,
RETURN or UNREACHABLE nothing but END follows until an END that some branch
targets, and BR_TABLE carries no operands. The second matters:
`pop()` of BR_TABLE removes the entry of the index from `top` and a
BR_TABLE counts for several targets, so with carried operands the type stack
could run empty after it. ENDs stay possible by reserving room (`RoomFor`):
each body can be completed within `MaxBody`, so no state is a dead end of the bound.

`push` compares its argument with the type object `voidType`. For an imported
host method whose result is Void, Cecil decides whether that is the same object;
`VoidPushes` covers both answers.

`Unsupported` is the default of the switch, which throws (IF and ELSE, NEAREST,
TRUNC of a float, i64 conversions of an f32). `Fail` ends the translation, as
the exceptions do.

| Property | Says |
| --- | --- |
| `TypeOK` | types; no null label is appended |
| `LabelsMirrorFrames` | `labelStack` has one entry per open construct, made for it |
| `BranchesLand` | a branch's label is placed at the loop's start or the block's END, once; until then it waits on `labelStack` |
| `NoUnderflow` | `top` covers the operands, `Stack.Pop` never throws |
| `ExactUntilDrift` | `top` equals the operands until the first of the cases above |
| `SelectTypeTracked` | SELECT reads the type of its operands: violated |

### Files, WasiFiles, WasiFilesProofs

`Files` is what a program is promised: handles with a file and an offset, files
with a length that everybody sees at once, names. `WasiFiles` is `Wasi.Context`
and the calls that change it, over FileStreams that keep bytes back
(`disk` against the stream's `length`) and are opened exclusively. Handles are
the lowest free ones; an open without a free handle throws but has already
opened, and perhaps created, the file (`lost`), which only the garbage collector
closes (`Collect`). Until then the file is out of reach: opening it throws, whatever
its name is by now (`LostFileRests`). How long that lasts is the collector's affair, so
there is no liveness property. `FilesAsPromised` is the refinement: `Files!Spec` with the
table, the lengths as streams know them, and the names. FileStream, File and the
collector are not in the repository; they are modelled from how `Wasi.cs` uses
them and marked external in the map. A file's bytes are abstracted to its length.
The loops of `fd_read` and `fd_write` over several buffers are one read or write of all of them.

| Property | Says |
| --- | --- |
| `TypeOK` | types; handles stay within their range |
| `FilesHeldOnce` | no two streams on one file, lost ones included |
| `NothingCut` | no stream thinks its file shorter than the file system does |
| `HandleKeepsFile` | an open handle keeps its file whatever is opened, unlinked or created elsewhere |
| `LostFileRests` | a file whose stream was lost keeps its length until the stream is collected, whatever is opened, written, closed, unlinked or created meanwhile |
| `InodesStable` | a path keeps its inode number and no other path gets it |
| `FilesAsPromised` | the refinement of `Files` |
| `PathSizeIsFileSize` | `path_filestat_get` reports the size: violated |
| `SerialNumbersDiffer` | serial numbers tell open files apart: violated |

### Loader, LoaderProofs

`Loader` is `Transformer.Go` for any module of a bounded size: one action per
section handler, in the order of the file (`left` holds the kinds still to come), then
`AddStubs`, `ReadElementSection` once per segment (`filled` counts them),
`NameMethods` (the first pass of `ReadCodeSection`) and one
`TranslateFunction` per function, `Write` at the end. A function body matters
only by its calls, so every function calls every function. `cctor` is the code
of the static constructor and `methods` the class, each method with what it does
(its code, a method of Wasi, or throwing "Not Implemented"). Functions are
numbered from 1.

Every exception Go may throw for a module that WebAssembly 1.0 allows ends a behaviour, and
`stage` says which. Three come from the combination of names and types that are modelled
(`importInTable`, `noDelegate`, `unmatched`). The others come from what a module may
contain and the code has no case for. These are the *flaws* of a module, a set with at most `MaxFlaws` members:

| Flaw | Throws at |
| --- | --- |
| `memory`: an imported memory | `ReadImportSection` (235), which takes its limits for the type of a table |
| `initializer`: a global whose initial value is not a constant | `ReadGlobalSection` (1585) |
| `elementOffset`: a segment's offset that is not `i32.const` | `ReadElementSection` (262), after all sections |
| `dataOffset`: a segment's offset by `global.get` | `ReadDataSection` (418, 426) |
| `instruction`: an instruction whose case throws | `ReadCodeSection` (1488, and what `Translator` has as `Fail`) |
| `parameter`, `result`: an eighth parameter, or a result beside seven | `typeToFunc` (316), if the function is in the table or a function is translated |

Left out are the exceptions for files that are not modules of WebAssembly 1.0 (the
header, several results, several tables, a memory section without a memory).

| Property | Says |
| --- | --- |
| `TypeOK` | types; every method has a name |
| `ConstructorRuns` | one Ret, at the end; memory before data; slots within their table |
| `CallsReachFunction` | a call reaches what it names, overrides included (`testTestWrap` in `Code1.c` tests one case) |
| `TableReachesFunction` | so does a call through the table |
| `OriginalKept` | each function's code is in the class once, overridden code as the only `_pre` of its name |
| `OneStubEach` | one stub per import that needs one, however often it is called |
| `RefusedOnlyNamed` | a module is refused only for a flaw, an imported method of Wasi in the table, an override that may not fit, or a type without a delegate that is used; and never accepted with a flaw that always throws or with a slot that cannot be made |

### Sections, SectionsProofs

`Sections` is the same loop by positions: a section is an id, a length and that
many bytes, and so is a subsection of the name section. `ReadCustomSection` always
reads three subsections. Where the section holds fewer, it takes the sections
behind it for subsections, which is harmless only because those have the
same shape, no section behind it can have the id 1 of the function names, and
`Go` returns to `next` afterwards. A position is a pair of a section and a subsection,
so the module needs no bytes. `IsFile` says which files there are: known sections
by ascending id, then the name section, if any, and custom sections around them.

| Property | Says |
| --- | --- |
| `TypeOK` | types; every position is the beginning of something, or the end |
| `Aligned` | the loop goes from each section to the one after it |
| `NamesFound` | function names come from the subsection that has them, once |
| `RefusedOnlyShort` | the reader runs into the end of the file only for a name section of fewer than three subsections with too little behind it |
| `Ends` | every file is read to its end or refused (liveness) |

### BinIO, MCBinIO, BinIOProofs

`BinIO` writes a stream with `BinWriter` and reads it with `BinReader`, item by
item; one iteration of a loop is one action, with the locals of the method in `writing`
and `method`. A byte is the set of its bits, `ChunkBits + 1` of them, and a word has
`WordBits`, so that masks and shifts are operations on sets. A number may be
padded, as linkers do to leave room (`MakesRoom`). The file may be cut anywhere. `Read` is
`Stream.Read`: it delivers what there is and leaves the rest of the buffer as it
was. `membuffer` is the one MemoryStream, with its position. The caller calls the method
for what was written (`Due`), as the loader does for a valid module. Lengths of
strings become words by `WordOf`, any encoding in which different lengths differ
(`LengthsAssumption`); `MCBinIO` takes the binary one. `(int)` of a length is then `LengthOf`.

| Property | Says |
| --- | --- |
| `TypeOK` | what is read are words and bytes, GetString takes what is in the buffer, the reader stays in the file |
| `ReadBack` | what is wholly in the file is read as it was written |
| `InStep` | the reader is at the end of the last item, or of the file |
| `CutNoticed` | only strings with a length and numbers of fixed width can go past the end unseen, and then with the length asked for |

### IL, Lowering, MCLowering, LoweringProofs

`IL` is the part of the CLI the translated code uses: one `Step` per IL
instruction on a method (stack, arguments, variables). Where ECMA-335 leaves a
result unspecified (a shift by the width or more, a float out of range), `Step` allows every
value of the type. `Lowering` has the code `ReadCodeSection` emits for an
instruction (`Emit...`), and what WebAssembly says the instruction means
(`Meaning`, `Traps`). A behaviour picks an instruction, operands, what is in the
scratch variables and the order in which they were made, and runs the code. The
scratch variables are any that earlier instructions made, with those this one asks
`getVariable` for (`Asked`).
SELECT is run with a scratch variable of the type of its operands, the case in which
`Translator` has `top` in step.
Integers wrap at their width; a float is a sign and a magnitude, with zeros of both signs,
infinity, NaN, and products that underflow or overflow.

| Property | Says |
| --- | --- |
| `TypeOK` | variables, arguments and the stack keep their types |
| `RightUnlessNamed` | the code does what the instruction means except for the operands `Departs` names, and for those (where the CLI leaves no choice) it does not |
| `NothingElseTouched` | what lies below the operands, and the locals, stay; the height of the stack is right |

`Departs` lists where the translation is not WebAssembly:

* COPYSIGN takes its operands for each other: it leaves the second with the sign
  of the first, and keeps the second's own sign where the product is 0, underflows or is NaN.
* ABS of -0 and of a negative NaN keeps the sign.
* I64_EXTEND_I32_U extends the sign.
* CONVERT_I64_U converts negative operands as negative numbers.
* I32_TRUNC_F32_U converts as signed; no TRUNC traps out of range.
* REM_S of the least integer by -1 throws.
* Shifts by the width or more are unspecified in the CLI.

### MemoryAccess, WasmMemory, Memory, MCMemory, MemoryProofs

`WasmMemory` is what a program is promised: WebAssembly's memory, with the
exceptions listed at its head. `Memory` is what there is: a `byte[]` in a static
field. `arrays` keeps every array there has been, because a reference to a
replaced one stays valid. The static constructor allocates it and stores the data
segments byte by byte (`pc`); the running program loads, stores and grows it; `fd_read` stands
for the WASI calls, which get the array through `Context.Memory` and put results
at an address. An access whose first byte is in the array but not its last reads
anything, and after a write of that kind nothing more is said (`undefined`).
The assumptions of `Memory` give the types of its constants (an int32 is not below
-2^31, a byte[] has fewer than 2^31 elements); a segment may be empty, and the limits
of a memory are any numbers. One whose `AllocatedPages` is more than an array can have
(`MaxPages`, 32767) makes Newarr throw in the static constructor, also when it is only the declared
maximum that is too large: `WasmMemory` lists this, and `Instantiate` allows a constructor to fail
for no other memory whose segments fit. `fd_read` has one buffer, whose place the caller gives; the code
takes a list of buffers from the memory and fills one after the other.
`MemoryAccess` has the values, and the tables of loads and stores.

| Property | Says |
| --- | --- |
| `TypeOK` | types; every array is a whole number of pages |
| `MemoryAsPromised` | the refinement of `WasmMemory`: initial contents, every answer, and that nothing else changes |
| `DataLoaded` | the bytes of a segment are in the memory: violated |

## Runs

| Run | Instance | Shows |
| --- | --- | --- |
| `translator` | bodies of up to 10 instructions, i32 and f64, two signatures | all properties of the translator but the last, and `IInv` of the proofs; long enough for a block in a loop with a branch out of both, calls, and SELECT after any producer |
| `select_type` | as `translator` | f64, f64, i32, i32.load, select: the type read is i32 |
| `wasi_files` | two names, two handles, three files, one directory, length 1 | every order of open, close, unlink, recreate, running out of handles, collecting |
| `wasi_file_io` | one name, two files, lengths to 4 | overlapping writes, seeks past the end, partial flushes |
| `path_size` | as `wasi_files` | open, write, ask the path for its size |
| `serial_number` | as `wasi_files` | open, unlink, open again: two files, one number |
| `loader` | an import, two functions, two exports, two segments with two functions in all, one flaw | all properties of the loader, of modules written and of modules refused |
| `bin_io` | words of 5 bits in chunks of 2, a slice of 2 bytes, strings to 3 of three kinds of bytes, two items | every value and padding after every other, cut anywhere; three chunks with a last one that is not full, strings longer than the slice |
| `sections` | ids 1, 3, 10, 11, subsections 0, 1, 2, 7, to three custom sections on either side | every file of that kind |
| `lowering` | int32 of 2 bits, int64 of 4, floats from 1/8 to 16, four orders of the scratch variables from none to twelve, four signatures | every instruction on all operands |
| `memory` | bytes of one bit, pages of 8, arrays of up to three pages, three requests | overlapping segments, segments outside, memories of four pages, growing, then accesses at every edge |
| `data_segments` | as `memory` | a segment of zeros over another |

Why the bounds are enough. Translator: the state of one construct depends on its
neighbours only through the stack positions, and the proofs remove the bound
for all properties. WasiFiles: a third name or handle adds
no new relation between two streams; three files are needed so that a file can
be created while two are held. Loader: one import shifts indices, two
functions are one before and one after the caller, two segments show that the
last counts; two flaws add no way to throw, since the first ends the reading. BinIO: what an item leaves behind is the position and the buffer, so
the item before it is enough, and the proofs remove the bounds on widths, texts and items. Sections: three subsections are read, so three
sections behind the name section are all that can be touched. Lowering: one
instruction at a time, since `NothingElseTouched` gives each the state the next
may start from; two parameters of one type, and an i32 beside the index, are what could
share a scratch variable, and the proofs remove the bounds on widths, floats and signatures.
Memory: a growth, a store into the new array and a load from it are three requests. The bounds are `MaxBody`, `FileIds`, `MaxLength`, `MaxImports`,
`MaxFuncs`, `MaxElements` (functions in all segments), `MaxFlaws`, `MaxItems`, `MaxText`, `MaxCustom`, `MaxPages` and `MaxRequests`.

Fairness is assumed in `Sections` only: one thread runs the loop and nothing in
it waits, so a step that can be taken is taken (`WF_vars(Next)`). `Ends` then says
that the loop makes progress, although it sets the position back. The other
parts are driven by their input, which may stop at any time. A finished
translation stutters (`Finished`, `Ended`), so deadlock is checked
in all runs but `lowering` (a method returns), `memory` and `data_segments` (the
requests are bounded).

## What is proved

Seven modules hold the proofs, one for each of `Translator`, `WasiFiles`, `Memory`,
`Sections`, `Loader`, `Lowering` and `BinIO`. Every theorem is about the module's `Spec`, for all values
of its constants that satisfy the module's named assumptions, so they remove every
bound of the runs. Each module has an inductive invariant `IInv`, a lemma that `Init`
establishes it, one lemma per action that the action preserves it, and
`Invariance`; the theorems follow from that. TLC checked every `IInv` before it was
proved, and the run `translator` still checks the one of `TranslatorProofs`.

| Module | Theorem | States |
| --- | --- | --- |
| `TranslatorProofs` | `TypeCorrect`, `LabelsCorrect`, `BranchesCorrect`, `StackNeverEmpty`, `TopExact` | `TypeOK`, `LabelsMirrorFrames`, `BranchesLand`, `NoUnderflow`, `ExactUntilDrift` |
| `WasiFilesProofs` | `TypeCorrect`, `FilesAreHeldOnce`, `FlushingNeverCuts` | `TypeOK`, `FilesHeldOnce`, `NothingCut` |
| | `HandlesKeepFiles`, `LostFilesRest`, `InodesAreStable` | the action properties `HandleKeepsFile`, `LostFileRests`, `InodesStable` |
| | `FilesImplemented` | the refinement `FilesAsPromised` |
| `MemoryProofs` | `TypeCorrect`, `MemoryImplemented` | `TypeOK`, the refinement `MemoryAsPromised` |
| `SectionsProofs` | `TypeCorrect`, `SectionsAligned`, `FunctionNamesFound`, `RefusedWhenShort` | `TypeOK`, `Aligned`, `NamesFound`, `RefusedOnlyShort` |
| `LoaderProofs` | `TypeCorrect`, `ConstructorAlwaysRuns`, `RefusedForAReason`, `EveryCallReaches`, `TheTableReaches`, `OneStubForEach`, `NoCodeIsLost` | every property of `Loader` |
| `LoweringProofs` | `TypeCorrect`, `OnlyOperandsTouched`, `EmittedCodeIsRight` | `TypeOK`, `NothingElseTouched`, `RightUnlessNamed` |
| `BinIOProofs` | `TypeCorrect`, `WrittenIsRead`, `ReaderInStep`, `CutsAreNoticed` | every property of `BinIO` |

### Translator

For every `Types`, `Sigs`, `VoidPushes` and `MaxBody`. `IInv` is the conjunction of

* `TypeOK`;
* `Mirrored`: `LabelsMirrorFrames` with the entry of each kind of construct, also
  for what is left of the stack after a failure;
* `Nested`: constructs have growing identities and heights, which is why the END
  of one cannot place the label of another;
* `Aimed`: branches by the state of their target (open, ended, loop, function),
  and that no label is placed before its block ends;
* `Tracked`: `Len(top) - Len(ops)` is at least the number of open constructs
  whose result a branch has carried to their end (`Owing`). `NoUnderflow` is not
  inductive alone: the END that makes code reachable again puts a result on the
  operand stack which `top` does not get, and is safe only because the branch that
  makes it reachable left an entry too many.

`ExactUntilDrift` is inductive beside `IInv`. Two arguments carry it: `Follows`, that
an instruction class does to `top` what it does to the operands, and
`EndExact`, that the END of reachable code finds exactly the construct's result
above its height. An instruction that loses track sets `exact`, and so does the END of unreachable code.

### WasiFiles

For any handles, names, files and lengths. `IInv` is `TypeOK`, `FilesHeldOnce`, `NothingCut`
and `InodesDiffer` (the numbers given are below the counter, and all
different, without which a new path could share one). `NothingCut` needs
`FilesHeldOnce`: a stream's idea of the length is right because no other stream has the
file. `LostFileRests` needs it too: only the stream of a handle passes bytes on, and none
has a lost stream's file. The refinement maps each call to the operation of `Files` of its name. Flushes and
the finalization of a lost stream become stutters, since `Files` has the
length as the one stream that may have the file knows it.

### Memory

For every even radix, page size, address space and set of programs that satisfy
the assumptions, with limits of any size. `TypeOK` is strengthened to `Types` (arrays are of whole pages,
`pc` is a place in the data), and while the constructor runs with `Loading`: the
array has the pages allocated, which are no more than there can be, holds at each place the last byte stored there that
is not zero (`Filled`), and no byte so far was outside (`NoneOutside`). From these
`PromisedReturn` gets the initial memory that `WasmMemory` allows. Each request then is
one lemma: `PromisedLoad` goes through the width and the sign of every load
(`LoadedFacts`, `TwiceExtended`: extending to an int32 and then to an int64 is extending
once, but not for I64_LOAD32_U), `PromisedStore` through bytes inside, across and
outside the end, `PromisedGrow` through the copy, `PromisedHost` through
`fd_read` after a growth.

### Sections

For files with any number of sections and subsections. `WellFormed` is what
matters of `IsFile`: nothing but custom sections follows the name section, and
ids ascend. `IInv` says that the reader is `Between` sections, with the names of all
name sections behind it, or `AmongNames`: after `n` subsections it is
where `AfterReading(k, n)` says, in the name section or as many sections
behind it. `OneComesEarly` is why the names are found: in an
ascending sequence the id 1 is the first or second, and three are read.

### Loader

For modules with any number of imports, functions, exports, segments and flaws
within the bounds, which are any numbers. `IInv` is `Built` or `Refused`. `Refused` is
what is left to say after an exception: `TypeOK`, `ConstructorRuns`, and that the reason
is one of `RefusedOnlyNamed`. `Built` follows what `Go` has read until then:

* `SectionsInOrder`: names come after functions and data after the memory, which
  is what `ReadCustomSection` and the constructor rely on; and a flaw of a section lies
  ahead as long as Go has not thrown (`FlawsAhead`), so that none is passed over;
* `ImportsRead`, `FunctionsRead`, `ExportsRead`: each table against the module,
  with `NameOf` once the methods are named and a stub's method from `AddStubs` on;
* `ConstructorWritten`, `TableFilled`: the last instruction is the only Ret, so that
  taking it off loses nothing, and the last segment stands at the end of the code,
  which no later segment can say of an earlier one;
* `MethodsMade`: the class is the stubs and the bodies of the functions translated so far,
  with all names of methods different. `Does` is a CHOOSE over methods of one name;
  it says something because there is one (`DoesFacts`);
* `CallsMade`: a call was resolved as it would be now, although `resolveMethod`
  works on a copy and nothing it finds is kept.

`MeantFacts` compares what a resolved method does with what the function should do, case
by case; `EveryCallReaches` and `TheTableReaches` both rest on it.

### Lowering

For integers of any widths (an int64 wider than an int32, which has at least two
bits), any set of floats, indirect calls of functions with any number of
parameters, any table, and any scratch variables made before in any order. The
assumptions are named in `IL` and `Lowering`: `FloatsAssumption` says that all
magnitudes are below infinity and that every integer has a float
(the largest f32 is above 2^127), `OrdersAssumption` that `getVariable` makes a variable for
a type and a number once, `InstrsAssumption` which instructions are modelled.

`IInv` is what the code has done at each position:

* `Static`: the instruction and its operands stay;
* `Kept`: the machine is one of the CLI, arguments and variables have their types, and
  parameters and locals are as at first, but for the one a LOCAL_SET or LOCAL_TEE writes;
* `Inside`: for each instruction the stack and the scratch variables at every position
  of its code. `NothingElseTouched` is not inductive without it: what a `stloc` leaves on the
  stack depends on how much was there. In CALL_INDIRECT the positions are counted from
  the number of parameters, and what has been taken off the stack is in the variable of its
  number and type (`Saved`), which no later one shares (`CallScratch`).

`InsideStep` goes through the instructions, each with lemmas for its code and its steps.
At the end of the code the stack holds a term of the CLI's operators, and `EveryRight`
compares it with `Meaning`, in both directions: the operands that `Departs` names are
those for which the two differ. Only for the instructions with unspecified results
(those not `Determined`) is it one direction, since such a result may happen to be
right. The arithmetic of wrapping needs only that `Half`
is at least 2, and that it is at least twice as large for an int64 (`Halves`). These
are facts about powers of two, which the provers do not know; `PowersCount` and
`PowersDouble` prove them by counting subsets.

### BinIO

For words of any width in chunks of any smaller width, a buffer of any size, strings of any
bytes and length, and any number of items; 64, 7 and 100 are instances. The
assumptions ask for no more than that, and that different lengths are different words.
Since an iteration of a loop is a step, no induction over words or strings is needed. `IInv` says

* `FileWritten`: the items lie one behind the other in the stream, each with its chunks and text
  as far as the file goes. Chunk k of a word has its bits from `At(k)` on
  (`Chunk`), and what lies behind the last chunk repeats its sign, or is 0 (`Fits`);
* `BeingWritten`: the loop of `WriteLeb` has `Remaining` of the word, its bits behind those
  written. `FitsU` and `FitsI` say that the chunks written when the
  loop stops are enough, and `EndsInTime` that it stops within `MaxChunks`, padding or not;
* `BeingRead`: the reader is between two items, or in a method. There `AtNumber` has
  the bits below `At(k)` in `value`, `AtByte` and `AtSlice` have the beginning of the text
  in `membuffer`. The position is where the text says or, in a cut file, the end.
  Before the first item `membuffer` is at 0, which is why `ReadStrl`, which does
  not seek, reads the magic bytes and may read nothing else;
* `BeenRead`: `ReadBack` and `CutNoticed` for what was read.

`WholeU` and `WholeI` put the word together again: after the last chunk what is missing
is 0, or the sign that `Extended` adds when the shift is still inside the word.
`ReadChunkUKeeps` needs that a chunk is last when it lacks the bit, whether it is 0 or not.

### Only model-checked

* `Ends` of `Sections`: the prover does not reach liveness under fairness.
* The four disagreements below, which are counterexamples.

## Disagreements found

* SELECT can use the wrong type after a load, store, COPYSIGN, CALL_INDIRECT
  or BR_IF (`select_type`), although the stack is kept "to satisfy SELECT".
* The size of a path leaves out bytes an open stream buffers (`path_size`).
* The serial number belongs to the path and not the file (`serial_number`).
* A zero in a data segment is not stored over what an earlier segment put there
  (`data_segments`), although the segment is loaded "one byte at a time".

Where the code differs from WebAssembly without the repository saying otherwise
(the lists at `Departs` and in `WasmMemory`), the model states the difference exactly.

## Not modelled

* Imported tables and globals: read and printed only. (Globals are numbered without the
  imported ones, so a program that imports any is translated wrongly or refused.)
* Files that are not modules of WebAssembly 1.0, beyond what `BinIO` and `Sections` say of short ones.
* Instructions whose translation is one IL instruction, or one call of
  `System.Math` or `BitOperations`, with the same meaning: their effect on the
  stacks is in `Translator`, and there is nothing to compare.
* The standard streams, file times, and errors of the file system.
* WASI calls that throw `NotImplementedException` or return a constant;
  `abort`, `fcntl` and `__wasilibc_open_nomode`, which call back into the
  program's C library.
* The command line (one call of `Go`), the enumerations of `WasmSpec`, the tests.
* `TestCCode`: SQLite is vendored, and with `Code1.c` it is an input of the
  translator, not part of it.

## Plan

Done: all modules of the plan, and the proofs above. What is left is what the provers do
not reach (`Ends`) and what "Not modelled" lists.

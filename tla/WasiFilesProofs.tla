---------------------------- MODULE WasiFilesProofs ----------------------------
(* Proofs, for any numbers of handles, names and files and files of any length, *)
(* about the file handles of a translated program: two handles never share a    *)
(* file, nothing a stream holds back can be cut off or seen by others, and the  *)
(* program has the files Files promises.                                        *)
EXTENDS WasiFiles, WellFoundedInduction, TLAPS

-------------------------------------------------------------------------------
(* Numbers. *)

\* Min of a set of natural numbers is its least element.
LEMMA MinFacts ==
  ASSUME NEW S \in SUBSET Nat, S # {}
  PROVE  Min(S) \in S /\ \A y \in S : Min(S) <= y
  <1>1. PICK x \in S : \A y \in S : ~(<<y, x>> \in OpToRel(<, Nat))
    BY NatLessThanWellFounded, WFMin
  <1>2. ASSUME NEW y \in S, y < x
        PROVE  FALSE
    <2>1. <<y, x>> \in Nat \X Nat /\ <<y, x>>[1] = y /\ <<y, x>>[2] = x
      OBVIOUS
    <2>2. <<y, x>>[1] < <<y, x>>[2]
      BY <1>2
    <2>3. <<y, x>> \in OpToRel(<, Nat)
      BY <2>1, <2>2, Zenon DEF OpToRel
    <2> QED
      BY <1>1, <2>3
  <1>3. \A y \in S : x <= y
    BY <1>2
  <1> QED
    BY <1>3 DEF Min

\* Max of two numbers is one of them and not below either.
LEMMA MaxOfTwo ==
  ASSUME NEW a \in Nat, NEW b \in Nat
  PROVE  Max({a, b}) \in {a, b} /\ Max({a, b}) >= a /\ Max({a, b}) >= b
  <1>1. \E x \in {a, b} : \A y \in {a, b} : x >= y
    OBVIOUS
  <1> QED
    BY <1>1 DEF Max

-------------------------------------------------------------------------------
(* The inductive invariant. *)

\* The inode numbers given so far are below the counter, and all different.
InodesDiffer ==
  /\ \A n \in DOMAIN inodes : inodes[n] < inodesCounter
  /\ \A n, m \in DOMAIN inodes : inodes[n] = inodes[m] => n = m

IInv == TypeOK /\ FilesHeldOnce /\ NothingCut /\ InodesDiffer

\* It holds of a program without files and handles.
LEMMA InitIInv == Init => IInv
  BY BoundsAssumption DEF Init, IInv, TypeOK, FilesHeldOnce, NothingCut, InodesDiffer, FirstInode, NoFile

\* Opening a file: a stream of its own for a file nobody holds.
LEMMA OpenFileIInv ==
  ASSUME IInv, NEW n \in FileNames, NEW f \in FileIds, OpenFile(n, f)
  PROVE  IInv'
  <1>1. f \notin Held /\ disk' \in [FileIds -> 0 .. MaxLength] /\ \A g \in FileIds \ {f} : disk'[g] = disk[g]
    BY BoundsAssumption DEF OpenFile, FileOpen, Fresh, Unused, IInv, TypeOK
  <1>2. names' \in [FileNames -> FileIds \cup {NoFile}]
    BY DEF OpenFile, IInv, TypeOK
  <1>3. \A h \in DOMAIN fds : fds[h] \in Stream /\ fds[h].file \in FileIds /\ fds[h].file # f
    BY <1>1 DEF IInv, TypeOK, Held, Stream
  <1>4. CASE FreeHandles # {}
    <2> DEFINE h == Min(FreeHandles)
               new == [name |-> n, file |-> f, pos |-> 0, length |-> disk'[f]]
    <2>1. h \in FileHandles /\ h \notin DOMAIN fds
      BY <1>4, MinFacts, HandlesAssumption DEF FreeHandles
    <2>2. fds' = Bind(fds, h, new) /\ lost' = lost
      BY <1>4 DEF OpenFile
    <2>3. new \in Stream
      BY <1>1, BoundsAssumption DEF Stream
    <2>4. /\ DOMAIN fds' = DOMAIN fds \cup {h} /\ fds'[h] = new
          /\ \A k \in DOMAIN fds : fds'[k] = fds[k]
          /\ fds' \in [DOMAIN fds' -> Stream]
      BY <1>3, <2>1, <2>2, <2>3 DEF Bind
    <2> HIDE DEF h
    <2>5. TypeOK'
      BY <1>1, <1>2, <2>1, <2>2, <2>4 DEF OpenFile, IInv, TypeOK
    <2>6. FilesHeldOnce'
      BY <1>1, <1>3, <2>2, <2>4 DEF IInv, FilesHeldOnce, Held
    <2>7. NothingCut'
      BY <1>1, <1>3, <2>4 DEF IInv, NothingCut
    <2> QED
      BY <2>5, <2>6, <2>7 DEF OpenFile, IInv, InodesDiffer
  <1>5. CASE FreeHandles = {}
    <2>1. lost' = lost \cup {f} /\ fds' = fds
      BY <1>5 DEF OpenFile
    <2>2. TypeOK'
      BY <1>1, <1>2, <2>1 DEF OpenFile, IInv, TypeOK
    <2>3. FilesHeldOnce'
      BY <1>3, <2>1 DEF IInv, FilesHeldOnce
    <2>4. NothingCut'
      BY <1>1, <1>3, <2>1 DEF IInv, NothingCut
    <2> QED
      BY <2>1, <2>2, <2>3, <2>4 DEF OpenFile, IInv, InodesDiffer
  <1> QED
    BY <1>4, <1>5

\* Giving a name the next inode number, unless it has one.
LEMMA InodeFacts ==
  ASSUME IInv, NEW n \in FileNames, InodeForFile(n)
  PROVE  /\ DOMAIN inodes' \subseteq FileNames /\ inodes' \in [DOMAIN inodes' -> Nat]
         /\ inodesCounter' \in Nat /\ InodesDiffer'
         /\ \A m \in DOMAIN inodes : m \in DOMAIN inodes' /\ inodes'[m] = inodes[m]
  <1>1. CASE n \in DOMAIN inodes
    BY <1>1 DEF InodeForFile, IInv, TypeOK, InodesDiffer
  <1>2. CASE n \notin DOMAIN inodes
    <2>1. inodes' = Bind(inodes, n, inodesCounter) /\ inodesCounter' = inodesCounter + 1
      BY <1>2 DEF InodeForFile
    <2>2. /\ DOMAIN inodes' = DOMAIN inodes \cup {n} /\ inodes'[n] = inodesCounter
          /\ \A m \in DOMAIN inodes : inodes'[m] = inodes[m]
          /\ inodes' \in [DOMAIN inodes' -> Nat]
      BY <1>2, <2>1 DEF Bind, IInv, TypeOK
    <2>3. InodesDiffer'
      BY <2>1, <2>2 DEF InodesDiffer, IInv, TypeOK
    <2> QED
      BY <2>1, <2>2, <2>3 DEF IInv, TypeOK
  <1> QED
    BY <1>1, <1>2

\* Flushing the stream of h: the file system knows what the stream knows.
LEMMA FlushedFacts ==
  ASSUME IInv, NEW h \in DOMAIN fds
  PROVE  /\ fds[h] \in Stream
         /\ Flushed(h) \in [FileIds -> 0 .. MaxLength]
         /\ Flushed(h)[fds[h].file] = fds[h].length
         /\ \A g \in FileIds \ {fds[h].file} : Flushed(h)[g] = disk[g]
         /\ \A k \in DOMAIN fds : Flushed(h)[fds[k].file] <= fds[k].length
  <1>1. \A k \in DOMAIN fds : fds[k] \in Stream
    BY DEF IInv, TypeOK
  <1>2. disk \in [FileIds -> 0 .. MaxLength]
    BY DEF IInv, TypeOK
  <1>3. /\ Flushed(h) \in [FileIds -> 0 .. MaxLength]
        /\ Flushed(h)[fds[h].file] = fds[h].length
        /\ \A g \in FileIds \ {fds[h].file} : Flushed(h)[g] = disk[g]
    BY <1>1, <1>2 DEF Flushed, Stream
  <1>4. ASSUME NEW k \in DOMAIN fds
        PROVE  Flushed(h)[fds[k].file] <= fds[k].length
    <2>1. fds[k].file \in FileIds /\ fds[k].length \in Nat /\ disk[fds[k].file] <= fds[k].length
      BY <1>1, BoundsAssumption DEF IInv, NothingCut, Stream
    <2>2. CASE fds[k].file = fds[h].file
      BY <1>3, <2>1, <2>2 DEF IInv, FilesHeldOnce
    <2>3. CASE fds[k].file # fds[h].file
      BY <1>3, <2>1, <2>3
    <2> QED
      BY <2>2, <2>3
  <1> QED
    BY <1>1, <1>3, <1>4

\* Replacing the stream of one handle by one of the same file that knows at
\* least as much as before keeps the invariant, whatever it has passed on.
LEMMA SameFileIInv ==
  ASSUME IInv, NEW h \in DOMAIN fds, NEW s \in Stream,
         s.file = fds[h].file, s.name = fds[h].name,
         fds' = [fds EXCEPT ![h] = s],
         disk' \in [FileIds -> 0 .. MaxLength],
         disk'[s.file] <= s.length,
         \A g \in FileIds \ {s.file} : disk'[g] = disk[g],
         UNCHANGED <<dirs, inodes, inodesCounter, names, lost>>
  PROVE  IInv'
  <1>1. /\ DOMAIN fds' = DOMAIN fds /\ fds' \in [DOMAIN fds' -> Stream]
        /\ fds'[h] = s /\ \A k \in DOMAIN fds \ {h} : fds'[k] = fds[k]
        /\ \A k \in DOMAIN fds : fds'[k].file = fds[k].file
    BY DEF IInv, TypeOK
  <1>2. TypeOK'
    BY <1>1 DEF IInv, TypeOK
  <1>3. FilesHeldOnce'
    BY <1>1 DEF IInv, FilesHeldOnce
  <1>4. ASSUME NEW k \in DOMAIN fds'
        PROVE  disk'[fds'[k].file] <= fds'[k].length
    <2>1. CASE k = h
      BY <1>1, <2>1
    <2>2. CASE k # h
      <3>1. fds[k].file \in FileIds /\ fds[k].file # s.file /\ fds'[k] = fds[k]
        BY <1>1, <2>2 DEF IInv, FilesHeldOnce, TypeOK, Stream
      <3> QED
        BY <1>1, <3>1 DEF IInv, NothingCut
    <2> QED
      BY <2>1, <2>2
  <1> QED
    BY <1>2, <1>3, <1>4 DEF IInv, InodesDiffer, NothingCut

\* What fd_write leaves: the offset and, if need be, the length at the end of
\* what was written; the file system knows no more than the stream.
LEMMA WriteFacts ==
  ASSUME IInv, NEW h \in DOMAIN fds, NEW count \in 0 .. MaxLength, fd_write(h, count)
  PROVE  LET s == [fds[h] EXCEPT !.pos = @ + count, !.length = Reached(h, count)] IN
         /\ s \in Stream /\ s.file = fds[h].file /\ s.name = fds[h].name
         /\ s.pos = fds[h].pos + count /\ s.length = Reached(h, count)
         /\ fds' = [fds EXCEPT ![h] = s]
         /\ disk' \in [FileIds -> 0 .. MaxLength]
         /\ disk'[s.file] <= s.length
         /\ \A g \in FileIds \ {s.file} : disk'[g] = disk[g]
  <1> DEFINE end == fds[h].pos + count
             s == [fds[h] EXCEPT !.pos = @ + count, !.length = Reached(h, count)]
  <1>1. /\ fds[h] \in Stream /\ fds[h].file \in FileIds
        /\ fds[h].pos \in 0 .. MaxLength /\ fds[h].length \in 0 .. MaxLength
    BY DEF IInv, TypeOK, Stream
  <1>2. end \in 0 .. MaxLength
    BY <1>1, BoundsAssumption DEF fd_write
  <1>3. /\ Reached(h, count) \in 0 .. MaxLength /\ Reached(h, count) >= fds[h].length
        /\ count > 0 => Reached(h, count) >= end
    BY <1>1, <1>2, BoundsAssumption DEF Reached, Longer
  <1>4. /\ s \in Stream /\ s.file = fds[h].file /\ s.name = fds[h].name
        /\ s.pos = fds[h].pos + count /\ s.length = Reached(h, count)
    BY <1>1, <1>2, <1>3 DEF Stream
  <1>5. fds' = [fds EXCEPT ![h] = s]
    BY <1>1, <1>4 DEF fd_write, Stream
  <1>6. PICK sent \in Sent(h, count) : disk' = [disk EXCEPT ![fds[h].file] = Max({@, sent})]
    BY DEF fd_write
  <1>7. disk \in [FileIds -> 0 .. MaxLength] /\ disk[fds[h].file] <= fds[h].length
    BY DEF IInv, TypeOK, NothingCut
  <1>8. /\ Max({disk[fds[h].file], sent}) \in 0 .. MaxLength
        /\ Max({disk[fds[h].file], sent}) <= Reached(h, count)
    <2>1. sent \in 0 .. MaxLength /\ sent <= Reached(h, count)
      BY <1>1, <1>2, <1>3, <1>6, BoundsAssumption DEF Sent
    <2>2. disk[fds[h].file] \in 0 .. MaxLength /\ disk[fds[h].file] <= Reached(h, count)
      <3>1. disk[fds[h].file] \in 0 .. MaxLength
        BY <1>1, <1>7
      <3>2. \A d \in 0 .. MaxLength : d <= fds[h].length => d <= Reached(h, count)
        BY <1>1, <1>3, BoundsAssumption
      <3> QED
        BY <1>7, <3>1, <3>2
    <2>3. Max({disk[fds[h].file], sent}) \in {disk[fds[h].file], sent}
      BY <2>1, <2>2, BoundsAssumption, MaxOfTwo
    <2> QED
      BY <2>1, <2>2, <2>3
  <1> QED
    BY <1>1, <1>4, <1>5, <1>6, <1>7, <1>8

\* Closing a handle: its stream is flushed and gone.
LEMMA CloseIInv ==
  ASSUME IInv, NEW h \in DOMAIN fds, fd_close(h)
  PROVE  IInv'
  <1>1. /\ DOMAIN fds' = DOMAIN fds \ {h} /\ \A k \in DOMAIN fds' : fds'[k] = fds[k]
        /\ fds' \in [DOMAIN fds' -> Stream]
    BY DEF fd_close, Restrict, IInv, TypeOK
  <1>2. disk' = Flushed(h) /\ UNCHANGED <<dirs, inodes, inodesCounter, names, lost>>
    BY DEF fd_close
  <1>3. TypeOK'
    BY <1>1, <1>2, FlushedFacts DEF IInv, TypeOK
  <1>4. FilesHeldOnce' /\ NothingCut'
    BY <1>1, <1>2, FlushedFacts DEF IInv, FilesHeldOnce, NothingCut
  <1> QED
    BY <1>2, <1>3, <1>4 DEF IInv, InodesDiffer

LEMMA WriteIInv ==
  ASSUME IInv, NEW h \in DOMAIN fds, NEW count \in 0 .. MaxLength, fd_write(h, count)
  PROVE  IInv'
  <1> DEFINE s == [fds[h] EXCEPT !.pos = @ + count, !.length = Reached(h, count)]
  <1>1. /\ s \in Stream /\ s.file = fds[h].file /\ s.name = fds[h].name
        /\ fds' = [fds EXCEPT ![h] = s]
        /\ disk' \in [FileIds -> 0 .. MaxLength]
        /\ disk'[s.file] <= s.length
        /\ \A g \in FileIds \ {s.file} : disk'[g] = disk[g]
    BY WriteFacts
  <1>2. UNCHANGED <<dirs, inodes, inodesCounter, names, lost>>
    BY DEF fd_write
  <1> HIDE DEF s
  <1> QED
    BY <1>1, <1>2, SameFileIInv

\* Moving the offset of a flushed stream to another place in the file or behind it.
LEMMA MoveIInv ==
  ASSUME IInv, NEW h \in DOMAIN fds, NEW pos \in 0 .. MaxLength,
         fds' = [fds EXCEPT ![h].pos = pos], disk' = Flushed(h),
         UNCHANGED <<dirs, inodes, inodesCounter, names, lost>>
  PROVE  IInv'
  <1> DEFINE s == [fds[h] EXCEPT !.pos = pos]
  <1>1. s \in Stream /\ s.file = fds[h].file /\ s.name = fds[h].name /\ s.length = fds[h].length
    BY FlushedFacts DEF Stream
  <1>2. fds' = [fds EXCEPT ![h] = s]
    OBVIOUS
  <1>3. /\ disk' \in [FileIds -> 0 .. MaxLength] /\ disk'[s.file] <= s.length
        /\ \A g \in FileIds \ {s.file} : disk'[g] = disk[g]
    BY <1>1, FlushedFacts
  <1> HIDE DEF s
  <1> QED
    BY <1>1, <1>2, <1>3, SameFileIInv

\* Reading moves the offset, and never behind the longest file.
LEMMA ReadMoves ==
  ASSUME IInv, NEW h \in DOMAIN fds, NEW count \in 0 .. MaxLength, fd_read(h, count)
  PROVE  \E pos \in 0 .. MaxLength :
           fds' = [fds EXCEPT ![h].pos = pos] /\ disk' = Flushed(h)
           /\ UNCHANGED <<dirs, inodes, inodesCounter, names, lost>>
  <1> DEFINE left == fds[h].length - fds[h].pos
             pos == fds[h].pos + (IF left <= 0 THEN 0 ELSE IF count < left THEN count ELSE left)
  <1>1. fds[h].pos \in 0 .. MaxLength /\ fds[h].length \in 0 .. MaxLength
    BY DEF IInv, TypeOK, Stream
  <1>2. pos \in 0 .. MaxLength
    BY <1>1, BoundsAssumption
  <1>3. fds' = [fds EXCEPT ![h].pos = pos]
    BY DEF fd_read
  <1> QED
    BY <1>2, <1>3 DEF fd_read

LEMMA SyncIInv ==
  ASSUME IInv, NEW h \in DOMAIN fds, fd_sync(h)
  PROVE  IInv'
  <1>1. TypeOK' /\ NothingCut'
    BY FlushedFacts DEF fd_sync, IInv, TypeOK, NothingCut
  <1> QED
    BY <1>1 DEF fd_sync, IInv, FilesHeldOnce, InodesDiffer

LEMMA StatIInv ==
  ASSUME IInv, NEW n \in FileNames, fileStatFromString(n)
  PROVE  IInv'
  <1>1. UNCHANGED <<fds, dirs, disk, names, lost>>
    BY DEF fileStatFromString
  <1>2. CASE InodeForFile(n)
    <2>1. TypeOK'
      BY <1>1, <1>2, InodeFacts DEF IInv, TypeOK
    <2> QED
      BY <1>1, <1>2, <2>1, InodeFacts DEF IInv, FilesHeldOnce, NothingCut
  <1>3. CASE UNCHANGED <<inodes, inodesCounter>>
    BY <1>1, <1>3 DEF IInv, TypeOK, FilesHeldOnce, NothingCut, InodesDiffer
  <1> QED
    BY <1>2, <1>3 DEF fileStatFromString

LEMMA OpenDirIInv ==
  ASSUME IInv, NEW n \in DirNames, OpenDir(n)
  PROVE  IInv'
  <1> DEFINE free == DirHandles \ DOMAIN dirs
  <1>1. Min(free) \in DirHandles
    BY MinFacts, HandlesAssumption DEF OpenDir
  <1>2. DOMAIN dirs' \subseteq DirHandles /\ dirs' \in [DOMAIN dirs' -> DirNames]
    BY <1>1 DEF OpenDir, Bind, IInv, TypeOK
  <1>3. TypeOK'
    BY <1>2 DEF OpenDir, IInv, TypeOK
  <1> QED
    BY <1>3 DEF OpenDir, IInv, FilesHeldOnce, NothingCut, InodesDiffer

LEMMA UnlinkIInv ==
  ASSUME IInv, NEW n \in FileNames, path_unlink_file(n)
  PROVE  IInv'
  <1>1. TypeOK'
    BY DEF path_unlink_file, IInv, TypeOK
  <1> QED
    BY <1>1 DEF path_unlink_file, IInv, FilesHeldOnce, NothingCut, InodesDiffer

LEMMA CollectIInv ==
  ASSUME IInv, NEW f \in FileIds, Collect(f)
  PROVE  IInv'
  <1>1. TypeOK'
    BY DEF Collect, IInv, TypeOK
  <1> QED
    BY <1>1 DEF Collect, IInv, FilesHeldOnce, NothingCut, InodesDiffer

LEMMA StutterIInv == IInv /\ UNCHANGED vars => IInv'
  BY DEF vars, IInv, TypeOK, FilesHeldOnce, NothingCut, InodesDiffer

\* The calls a step may be: filestat calls in one, and opening split in two.
LEMMA StepCases ==
  ASSUME IInv, Next
  PROVE  \/ \E n \in DirNames : OpenDir(n)
         \/ \E n \in FileNames, f \in FileIds : OpenFile(n, f)
         \/ \E h \in DOMAIN fds :
              \/ fd_close(h) \/ fd_sync(h)
              \/ \E c \in 0 .. MaxLength : fd_write(h, c) \/ fd_read(h, c) \/ fd_seek(h, c)
         \/ \E n \in FileNames : fileStatFromString(n) \/ path_unlink_file(n)
         \/ \E f \in FileIds : Collect(f)
  <1>1. \A h \in DOMAIN fds : fds[h].name \in FileNames
    BY DEF IInv, TypeOK, Stream
  <1>2. CASE \E n \in FileNames \cup DirNames : path_open(n)
    BY <1>2 DEF path_open
  <1>3. CASE \E h \in DOMAIN fds : fd_filestat_get(h)
    BY <1>1, <1>3 DEF fd_filestat_get
  <1>4. CASE \E n \in FileNames : path_filestat_get(n)
    BY <1>4 DEF path_filestat_get
  <1> QED
    BY <1>2, <1>3, <1>4 DEF Next

LEMMA StepIInv == IInv /\ [Next]_vars => IInv'
  <1> SUFFICES ASSUME IInv, Next
               PROVE  IInv'
    BY StutterIInv
  <1>1. CASE \E n \in DirNames : OpenDir(n)
    BY <1>1, OpenDirIInv
  <1>2. CASE \E n \in FileNames, f \in FileIds : OpenFile(n, f)
    BY <1>2, OpenFileIInv
  <1>3. CASE \E h \in DOMAIN fds : fd_close(h) \/ fd_sync(h)
    BY <1>3, CloseIInv, SyncIInv
  <1>4. CASE \E h \in DOMAIN fds : \E c \in 0 .. MaxLength : fd_write(h, c) \/ fd_read(h, c) \/ fd_seek(h, c)
    BY <1>4, WriteIInv, ReadMoves, MoveIInv DEF fd_seek
  <1>5. CASE \E n \in FileNames : fileStatFromString(n) \/ path_unlink_file(n)
    BY <1>5, StatIInv, UnlinkIInv
  <1>6. CASE \E f \in FileIds : Collect(f)
    BY <1>6, CollectIInv
  <1> QED
    BY <1>1, <1>2, <1>3, <1>4, <1>5, <1>6, StepCases

LEMMA Invariance == Spec => []IInv
  BY InitIInv, StepIInv, PTL DEF Spec

-------------------------------------------------------------------------------
(* What the runs check, for every instance. *)

\* The tables of Wasi.Context hold handles, names and files of the right kind,
\* offsets and lengths within the longest file.
THEOREM TypeCorrect == Spec => []TypeOK
  BY Invariance, PTL DEF IInv

\* No file is behind two handles, or behind a handle and a lost stream: a file
\* that is held is never opened again, and a new one is nobody else's.
THEOREM FilesAreHeldOnce == Spec => []FilesHeldOnce
  BY Invariance, PTL DEF IInv

\* What a FileStream holds back is only ever an extension of its file.
THEOREM FlushingNeverCuts == Spec => []NothingCut
  BY Invariance, PTL DEF IInv

\* No call makes an open handle another file's: not the opening of another
\* name, nor unlinking its name and creating the name anew.
THEOREM HandlesKeepFiles == Spec => HandleKeepsFile
  <1> DEFINE Kept == \A h \in DOMAIN fds \cap DOMAIN fds' : fds'[h].file = fds[h].file /\ fds'[h].name = fds[h].name
  <1>1. ASSUME IInv, Next
        PROVE  Kept
    <2>1. CASE \E n \in FileNames, f \in FileIds : OpenFile(n, f)
      <3> PICK n \in FileNames, f \in FileIds : OpenFile(n, f)
        BY <2>1
      <3>1. CASE FreeHandles # {}
        <4>1. Min(FreeHandles) \notin DOMAIN fds
          BY <3>1, MinFacts, HandlesAssumption DEF FreeHandles
        <4> QED
          BY <3>1, <4>1 DEF OpenFile, Bind
      <3> QED
        BY <3>1 DEF OpenFile
    <2>2. CASE \E h \in DOMAIN fds : fd_close(h)
      BY <2>2 DEF fd_close, Restrict
    <2>3. CASE \E h \in DOMAIN fds : \E c \in 0 .. MaxLength : fd_write(h, c)
      <3> PICK h \in DOMAIN fds, c \in 0 .. MaxLength : fd_write(h, c)
        BY <2>3
      <3> DEFINE s == [fds[h] EXCEPT !.pos = @ + c, !.length = Reached(h, c)]
      <3>1. s.file = fds[h].file /\ s.name = fds[h].name /\ fds' = [fds EXCEPT ![h] = s]
        BY <1>1, WriteFacts
      <3> HIDE DEF s
      <3> QED
        BY <3>1
    <2>4. CASE \E h \in DOMAIN fds, pos \in 0 .. MaxLength : fds' = [fds EXCEPT ![h].pos = pos]
      <3> PICK h \in DOMAIN fds, pos \in 0 .. MaxLength : fds' = [fds EXCEPT ![h].pos = pos]
        BY <2>4
      <3>1. fds[h] \in Stream
        BY <1>1, FlushedFacts
      <3> QED
        BY <3>1 DEF Stream
    <2>5. CASE fds' = fds
      BY <2>5
    <2> QED
      BY <1>1, StepCases, ReadMoves, <2>1, <2>2, <2>3, <2>4, <2>5
         DEF OpenDir, fd_sync, fd_seek, fileStatFromString, path_unlink_file, Collect
  <1>2. IInv /\ [Next]_vars => [Kept]_vars
    BY <1>1 DEF vars
  <1> QED
    BY <1>2, Invariance, PTL DEF Spec, HandleKeepsFile

\* The file of a lost stream is out of reach until the stream is closed: no handle
\* has it, so no write, read, seek, sync or close passes bytes on to it; opening it
\* throws; and the file an open creates is another one.
THEOREM LostFilesRest == Spec => LostFileRests
  <1> DEFINE Rests == \A f \in lost \cap lost' : disk'[f] = disk[f]
  <1>1. ASSUME IInv, Next
        PROVE  Rests
    <2>1. /\ lost \subseteq FileIds
          /\ \A h \in DOMAIN fds : fds[h].file \notin lost
      BY <1>1 DEF IInv, TypeOK, FilesHeldOnce
    <2>2. ASSUME NEW n \in FileNames, NEW f \in FileIds, OpenFile(n, f)
          PROVE  \A g \in lost : disk'[g] = disk[g]
      <3>1. disk' = disk \/ (disk' = [disk EXCEPT ![f] = 0] /\ f \notin lost)
        BY <2>2 DEF OpenFile, FileOpen, Fresh, Unused, Held
      <3> QED
        BY <1>1, <2>1, <3>1 DEF IInv, TypeOK
    <2>3. ASSUME NEW h \in DOMAIN fds
          PROVE  \A g \in lost : Flushed(h)[g] = disk[g]
      BY <1>1, <2>1, FlushedFacts
    <2>4. ASSUME NEW h \in DOMAIN fds, NEW c \in 0 .. MaxLength, fd_write(h, c)
          PROVE  \A g \in lost : disk'[g] = disk[g]
      <3>1. \A g \in FileIds \ {fds[h].file} : disk'[g] = disk[g]
        BY <1>1, <2>4 DEF fd_write, IInv, TypeOK
      <3> QED
        BY <2>1, <3>1
    <2> QED
      BY <1>1, <2>2, <2>3, <2>4, StepCases
         DEF OpenDir, fd_close, fd_read, fd_seek, fd_sync, fileStatFromString, path_unlink_file, Collect
  <1>2. IInv /\ [Next]_vars => [Rests]_vars
    BY <1>1
  <1> QED
    BY <1>2, Invariance, PTL DEF Spec, LostFileRests

\* A name's inode number is its own for ever.
THEOREM InodesAreStable == Spec => InodesStable
  <1> DEFINE Stable == \A n \in DOMAIN inodes : /\ n \in DOMAIN inodes' /\ inodes'[n] = inodes[n]
                                                /\ \A m \in DOMAIN inodes' \ {n} : inodes'[m] # inodes[n]
  <1>1. ASSUME IInv, Next
        PROVE  \A n \in DOMAIN inodes : n \in DOMAIN inodes' /\ inodes'[n] = inodes[n]
    <2>1. \A n \in FileNames : fileStatFromString(n) =>
            \A m \in DOMAIN inodes : m \in DOMAIN inodes' /\ inodes'[m] = inodes[m]
      BY <1>1, InodeFacts DEF fileStatFromString
    <2> QED
      BY <1>1, <2>1, StepCases
         DEF OpenDir, OpenFile, fd_close, fd_write, fd_read, fd_seek, fd_sync, path_unlink_file, Collect
  <1>2. IInv /\ IInv' /\ [Next]_vars => [Stable]_vars
    BY <1>1 DEF IInv, InodesDiffer
  <1> QED
    BY <1>2, Invariance, PTL DEF Spec, InodesStable

-------------------------------------------------------------------------------
(* The program has the files Files promises. *)

\* The promised variables: a handle's file and offset, and the lengths.
Table == [h \in DOMAIN fds |-> [file |-> fds[h].file, pos |-> fds[h].pos]]
Length == [f \in FileIds |-> Logical(f)]

\* A held file is as long as its only stream says, another as the disk says.
LEMMA LogicalFacts ==
  ASSUME FilesHeldOnce
  PROVE  /\ \A f : \A h \in DOMAIN fds : fds[h].file = f => Logical(f) = fds[h].length
         /\ \A f : (\A h \in DOMAIN fds : fds[h].file # f) => Logical(f) = disk[f]
  <1>1. ASSUME NEW f, NEW h \in DOMAIN fds, fds[h].file = f
        PROVE  Logical(f) = fds[h].length
    <2>1. Knows(f) = {h}
      BY <1>1 DEF Knows, FilesHeldOnce
    <2> QED
      BY <2>1 DEF Logical
  <1>2. \A f : (\A h \in DOMAIN fds : fds[h].file # f) => Logical(f) = disk[f]
    BY DEF Logical, Knows
  <1> QED
    BY <1>1, <1>2

\* The same of the next state.
LEMMA LogicalFactsNext ==
  ASSUME FilesHeldOnce'
  PROVE  /\ \A f : \A h \in DOMAIN fds' : fds'[h].file = f => Logical(f)' = fds'[h].length
         /\ \A f : (\A h \in DOMAIN fds' : fds'[h].file # f) => Logical(f)' = disk'[f]
  <1>1. ASSUME NEW f, NEW h \in DOMAIN fds', fds'[h].file = f
        PROVE  Logical(f)' = fds'[h].length
    <2>1. Knows(f)' = {h}
      BY <1>1 DEF Knows, FilesHeldOnce
    <2> QED
      BY <2>1 DEF Logical
  <1>2. \A f : (\A h \in DOMAIN fds' : fds'[h].file # f) => Logical(f)' = disk'[f]
    BY DEF Logical, Knows
  <1> QED
    BY <1>1, <1>2

\* The lengths do not change when streams pass bytes on, come or go: each file
\* that is held before or after is as long as its stream says, and was before.
LEMMA SameLength ==
  ASSUME IInv, IInv',
         \A h \in DOMAIN fds : h \in DOMAIN fds' => fds'[h].file = fds[h].file /\ fds'[h].length = fds[h].length,
         \A h \in DOMAIN fds : h \notin DOMAIN fds' =>
            disk'[fds[h].file] = fds[h].length /\ \A k \in DOMAIN fds' : fds'[k].file # fds[h].file,
         DOMAIN fds' \subseteq DOMAIN fds,
         \A f \in FileIds : (\A h \in DOMAIN fds : fds[h].file # f) => disk'[f] = disk[f]
  PROVE  Length' = Length
  <1>1. FilesHeldOnce /\ FilesHeldOnce'
    BY DEF IInv
  <1>2. ASSUME NEW f \in FileIds
        PROVE  Logical(f)' = Logical(f)
    <2>1. CASE \E h \in DOMAIN fds : fds[h].file = f
      <3> PICK h \in DOMAIN fds : fds[h].file = f
        BY <2>1
      <3>1. Logical(f) = fds[h].length
        BY <1>1, LogicalFacts
      <3>2. CASE h \in DOMAIN fds'
        BY <1>1, <3>1, <3>2, LogicalFactsNext
      <3>3. CASE h \notin DOMAIN fds'
        BY <1>1, <3>1, <3>3, LogicalFactsNext
      <3> QED
        BY <3>2, <3>3
    <2>2. CASE \A h \in DOMAIN fds : fds[h].file # f
      <3>1. \A h \in DOMAIN fds' : fds'[h].file # f
        BY <2>2
      <3> QED
        BY <1>1, <2>2, <3>1, LogicalFacts, LogicalFactsNext
    <2> QED
      BY <2>1, <2>2
  <1> QED
    BY <1>2 DEF Length

LEMMA PromisedInit == Init => Promise!Init
  <1> SUFFICES ASSUME Init
               PROVE  Promise!Init
    OBVIOUS
  <1>1. DOMAIN fds = {} /\ \A f \in FileIds : disk[f] = 0
    BY DEF Init
  <1>2. \A f \in FileIds : Logical(f) = 0
    BY <1>1 DEF Logical, Knows
  <1> QED
    BY <1>1, <1>2 DEF Init, Promise!Init, Promise!NoFile, NoFile

\* Opening a file: the promised opening, or, with every handle taken, the
\* promised opening that fails.
LEMMA PromisedOpen ==
  ASSUME IInv, IInv', NEW n \in FileNames, NEW f \in FileIds, OpenFile(n, f)
  PROVE  Promise!Next
  <1>1. FilesHeldOnce /\ FilesHeldOnce' /\ TypeOK
    BY DEF IInv
  <1>2. f \notin Held /\ \A h \in DOMAIN fds : fds[h].file # f
    BY DEF OpenFile, FileOpen, Fresh, Unused, Held
  <1>3. \A g \in FileIds \ {f} : disk'[g] = disk[g]
    BY DEF OpenFile
  <1>4. /\ disk' = IF names[n] = NoFile THEN [disk EXCEPT ![f] = 0] ELSE disk
        /\ disk \in [FileIds -> 0 .. MaxLength]
    BY <1>1 DEF OpenFile, TypeOK
  <1>5. /\ \A h \in DOMAIN fds : h \in DOMAIN fds' /\ fds'[h] = fds[h]
        /\ \A h \in DOMAIN fds' \ DOMAIN fds : fds'[h].file = f /\ fds'[h].length = disk'[f]
    <2>1. CASE FreeHandles # {}
      <3>1. Min(FreeHandles) \notin DOMAIN fds
        BY <2>1, MinFacts, HandlesAssumption DEF FreeHandles
      <3> QED
        BY <2>1, <3>1 DEF OpenFile, Bind
    <2>2. CASE FreeHandles = {}
      BY <2>2 DEF OpenFile
    <2> QED
      BY <2>1, <2>2
  <1>6. Logical(f) = disk[f] /\ Logical(f)' = disk'[f]
    <2>1. Logical(f) = disk[f]
      BY <1>1, <1>2, LogicalFacts
    <2>2. CASE \E h \in DOMAIN fds' : fds'[h].file = f
      BY <1>1, <1>2, <1>5, <2>1, <2>2, LogicalFactsNext
    <2>3. CASE \A h \in DOMAIN fds' : fds'[h].file # f
      BY <1>1, <2>1, <2>3, LogicalFactsNext
    <2> QED
      BY <2>1, <2>2, <2>3
  <1>7. ASSUME NEW g \in FileIds, g # f
        PROVE  Logical(g)' = Logical(g)
    <2>1. CASE \E h \in DOMAIN fds : fds[h].file = g
      BY <1>1, <1>5, <2>1, LogicalFacts, LogicalFactsNext
    <2>2. CASE \A h \in DOMAIN fds : fds[h].file # g
      <3>1. \A h \in DOMAIN fds' : fds'[h].file # g
        BY <1>5, <1>7, <2>2
      <3> QED
        BY <1>1, <1>3, <1>7, <2>2, <3>1, LogicalFacts, LogicalFactsNext
    <2> QED
      BY <2>1, <2>2
  <1>8. Promise!Resolve(n, f)
    <2>1. CASE names[n] = NoFile
      <3>1. Promise!Unused(f)
        BY <1>2, <2>1 DEF OpenFile, FileOpen, Fresh, Unused, Promise!Unused
      <3>2. Length' = [Length EXCEPT ![f] = 0]
        BY <1>4, <1>6, <1>7, <2>1 DEF Length
      <3> QED
        BY <2>1, <3>1, <3>2 DEF OpenFile, Promise!Resolve, Promise!NoFile, NoFile, Length
    <2>2. CASE names[n] # NoFile
      <3>1. f = names[n] /\ names' = names
        BY <1>1, <2>2 DEF OpenFile, FileOpen, TypeOK
      <3>2. Length' = Length
        BY <1>4, <1>6, <1>7, <2>2 DEF Length
      <3> QED
        BY <3>1, <3>2 DEF Promise!Resolve, Length
    <2> QED
      BY <2>1, <2>2
  <1>9. CASE FreeHandles # {}
    <2> DEFINE h == Min(FreeHandles)
               new == [name |-> n, file |-> f, pos |-> 0, length |-> disk'[f]]
    <2>1. h \in FileHandles /\ h \notin DOMAIN fds
      BY <1>9, MinFacts, HandlesAssumption DEF FreeHandles
    <2>2. fds' = Bind(fds, h, new)
      BY <1>9 DEF OpenFile
    <2> HIDE DEF h
    <2>3. Table' = [x \in DOMAIN Table \cup {h} |-> IF x = h THEN [file |-> f, pos |-> 0] ELSE Table[x]]
      BY <2>1, <2>2 DEF Bind, Table
    <2>4. Promise!Open(n, h, f)
      BY <1>8, <2>1, <2>3 DEF Promise!Open, Table
    <2> QED
      BY <2>1, <2>4 DEF Promise!Next
  <1>10. CASE FreeHandles = {}
    <2>1. Promise!OpenFails(n, f)
      BY <1>8, <1>10 DEF OpenFile, Promise!OpenFails
    <2> QED
      BY <2>1 DEF Promise!Next
  <1> QED
    BY <1>9, <1>10

\* Closing, reading and seeking flush, which is not to be seen.
LEMMA PromisedClose ==
  ASSUME IInv, IInv', NEW h \in DOMAIN fds, fd_close(h)
  PROVE  Promise!Close(h)
  <1>1. DOMAIN fds' = DOMAIN fds \ {h} /\ \A k \in DOMAIN fds' : fds'[k] = fds[k]
    BY DEF fd_close, Restrict
  <1>2. disk' = Flushed(h) /\ names' = names
    BY DEF fd_close
  <1>3. /\ disk'[fds[h].file] = fds[h].length
        /\ \A f \in FileIds : (\A k \in DOMAIN fds : fds[k].file # f) => disk'[f] = disk[f]
    BY <1>2, FlushedFacts
  <1>4. Length' = Length
    BY <1>1, <1>3, SameLength DEF IInv, FilesHeldOnce
  <1>5. Table' = Restrict(Table, DOMAIN Table \ {h})
    BY <1>1 DEF Restrict, Table
  <1> QED
    BY <1>2, <1>4, <1>5 DEF Promise!Close, Promise!Restrict, Restrict, Length, Table

LEMMA PromisedMove ==
  ASSUME IInv, IInv', NEW h \in DOMAIN fds, NEW pos \in 0 .. MaxLength,
         fds' = [fds EXCEPT ![h].pos = pos], disk' = Flushed(h), names' = names
  PROVE  Promise!Move(h, pos)
  <1>1. fds[h] \in Stream /\ fds \in [DOMAIN fds -> Stream]
    BY DEF IInv, TypeOK
  <1>2. /\ DOMAIN fds' = DOMAIN fds
        /\ \A k \in DOMAIN fds : fds'[k].file = fds[k].file /\ fds'[k].length = fds[k].length
        /\ fds'[h].pos = pos /\ \A k \in DOMAIN fds \ {h} : fds'[k].pos = fds[k].pos
    BY <1>1 DEF Stream
  <1>3. \A f \in FileIds : (\A k \in DOMAIN fds : fds[k].file # f) => disk'[f] = disk[f]
    BY FlushedFacts
  <1>4. Length' = Length
    BY <1>2, <1>3, SameLength
  <1>5. Table' = [Table EXCEPT ![h].pos = pos]
    BY <1>2 DEF Table
  <1> QED
    BY <1>4, <1>5 DEF Promise!Move, Length, Table

\* Writing: the promised length is the longer one, wherever the bytes are.
LEMMA PromisedWrite ==
  ASSUME IInv, IInv', NEW h \in DOMAIN fds, NEW count \in 0 .. MaxLength, fd_write(h, count)
  PROVE  Promise!Write(h, count)
  <1>0. fds[h].file \in FileIds
    BY DEF IInv, TypeOK, Stream
  <1> PICK file \in FileIds : file = fds[h].file
    BY <1>0
  <1> PICK end : end = fds[h].pos + count
    OBVIOUS
  <1> DEFINE s == [fds[h] EXCEPT !.pos = @ + count, !.length = Reached(h, count)]
  <1>1. /\ s.file = file /\ s.pos = end /\ s.length = Reached(h, count)
        /\ fds' = [fds EXCEPT ![h] = s]
        /\ \A g \in FileIds \ {s.file} : disk'[g] = disk[g]
    BY WriteFacts
  <1>2. fds[h].length \in Nat /\ end \in Nat
    BY BoundsAssumption DEF IInv, TypeOK, Stream
  <1> HIDE DEF s
  <1>3. /\ DOMAIN fds' = DOMAIN fds /\ fds'[h] = s /\ \A k \in DOMAIN fds \ {h} : fds'[k] = fds[k]
        /\ \A k \in DOMAIN fds : fds'[k].file = fds[k].file
    BY <1>1
  <1>4. FilesHeldOnce /\ FilesHeldOnce'
    BY DEF IInv
  <1>5. Logical(file) = fds[h].length /\ Logical(file)' = Reached(h, count)
    BY <1>1, <1>3, <1>4, LogicalFacts, LogicalFactsNext
  <1>6. ASSUME NEW g \in FileIds, g # file
        PROVE  Logical(g)' = Logical(g)
    <2>1. CASE \E k \in DOMAIN fds : fds[k].file = g
      BY <1>3, <1>4, <1>6, <2>1, LogicalFacts, LogicalFactsNext
    <2>2. CASE \A k \in DOMAIN fds : fds[k].file # g
      <3>1. \A k \in DOMAIN fds' : fds'[k].file # g
        BY <1>3, <2>2
      <3> QED
        BY <1>1, <1>4, <1>6, <2>2, <3>1, LogicalFacts, LogicalFactsNext
    <2> QED
      BY <2>1, <2>2
  <1>7. Length' = [Length EXCEPT ![file] = IF count > 0 /\ end > @ THEN end ELSE @]
    <2>1. Reached(h, count) = IF count > 0 /\ end > fds[h].length THEN end ELSE fds[h].length
      BY <1>2 DEF Reached, Longer
    <2> QED
      BY <1>5, <1>6, <2>1 DEF Length
  <1>8. Table' = [Table EXCEPT ![h].pos = end] /\ Table[h].file = file /\ Table[h].pos = fds[h].pos
    BY <1>1, <1>3 DEF Table
  <1>9. end <= MaxLength /\ names' = names
    BY DEF fd_write
  <1> QED
    BY <1>7, <1>8, <1>9 DEF Promise!Write, Length, Table

\* Nothing is to be seen of the other steps.
LEMMA PromisedStutter ==
  ASSUME IInv, IInv', fds' = fds, names' = names,
         \A f \in FileIds : (\A k \in DOMAIN fds : fds[k].file # f) => disk'[f] = disk[f]
  PROVE  UNCHANGED Promise!vars
  <1>1. Length' = Length
    BY SameLength
  <1>2. Table' = Table
    BY DEF Table
  <1> QED
    BY <1>1, <1>2 DEF Promise!vars, Length, Table

LEMMA PromisedUnlink ==
  ASSUME IInv, IInv', NEW n \in FileNames, path_unlink_file(n)
  PROVE  Promise!Unlink(n)
  <1>1. fds' = fds /\ disk' = disk
    BY DEF path_unlink_file
  <1>2. Length' = Length
    BY <1>1, SameLength
  <1>3. Table' = Table
    BY <1>1 DEF Table
  <1> QED
    BY <1>2, <1>3 DEF path_unlink_file, Promise!Unlink, Promise!NoFile, NoFile, Length, Table

\* Through its handles the program has the files Files promises: every call is
\* the promised one, or nothing to be seen.
THEOREM FilesImplemented == Spec => FilesAsPromised
  <1>1. ASSUME IInv, IInv', Next
        PROVE  Promise!Next \/ UNCHANGED Promise!vars
    <2>1. CASE \E n \in FileNames, f \in FileIds : OpenFile(n, f)
      BY <1>1, <2>1, PromisedOpen
    <2>2. CASE \E h \in DOMAIN fds : fd_close(h)
      BY <1>1, <2>2, PromisedClose DEF Promise!Next
    <2>3. CASE \E h \in DOMAIN fds, c \in 0 .. MaxLength : fd_write(h, c)
      BY <1>1, <2>3, PromisedWrite DEF Promise!Next
    <2>4. CASE \E h \in DOMAIN fds, c \in 0 .. MaxLength : fd_read(h, c) \/ fd_seek(h, c)
      <3>1. \E h \in DOMAIN fds, pos \in 0 .. MaxLength :
              fds' = [fds EXCEPT ![h].pos = pos] /\ disk' = Flushed(h) /\ names' = names
        BY <1>1, <2>4, ReadMoves DEF fd_seek
      <3> QED
        BY <1>1, <3>1, PromisedMove DEF Promise!Next
    <2>5. CASE \E n \in FileNames : path_unlink_file(n)
      BY <1>1, <2>5, PromisedUnlink DEF Promise!Next
    <2>6. CASE \E h \in DOMAIN fds : fd_sync(h)
      BY <1>1, <2>6, FlushedFacts, PromisedStutter DEF fd_sync
    <2>7. CASE \/ \E n \in DirNames : OpenDir(n)
               \/ \E n \in FileNames : fileStatFromString(n)
               \/ \E f \in FileIds : Collect(f)
      BY <1>1, <2>7, PromisedStutter DEF OpenDir, fileStatFromString, Collect
    <2> QED
      BY <1>1, <2>1, <2>2, <2>3, <2>4, <2>5, <2>6, <2>7, StepCases
  <1>2. UNCHANGED vars => UNCHANGED Promise!vars
    BY DEF vars, Promise!vars, Logical, Knows
  <1>3. IInv /\ IInv' /\ [Next]_vars => [Promise!Next]_(Promise!vars)
    BY <1>1, <1>2
  <1> QED
    BY <1>3, PromisedInit, Invariance, PTL DEF Spec, FilesAsPromised, Promise!Spec

===============================================================================

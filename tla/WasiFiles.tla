------------------------------ MODULE WasiFiles -------------------------------
(* The files of a translated program: Wasi.Context, its handle tables and      *)
(* inode numbers, and the WASI calls of Wasi.cs that work on them.             *)
(*                                                                             *)
(* Each handle below 1000 owns a .NET FileStream, which keeps written bytes in *)
(* a buffer and opens its file exclusively (File.Open's default FileShare).    *)
(* A file's bytes are abstracted to its length, which is what the calls        *)
(* report; `disk` is the length the file system knows, and a FileStream knows  *)
(* a longer one while it holds written bytes back.                             *)
EXTENDS Integers, FiniteSets, Functions, FiniteSetsExt

CONSTANTS FileHandles,  \* 10 .. 999 in the code
          DirHandles,   \* 1001 .. 1999 in the code
          FileNames,    \* names of files
          DirNames,     \* names of directories, which exist all the time
          FileIds,      \* bound: the files there can be at a time
          MaxLength     \* bound: the longest file

ASSUME HandlesAssumption ==
  /\ FileHandles \subseteq Nat /\ DirHandles \subseteq Nat
  /\ FileHandles \cap DirHandles = {} /\ IsFiniteSet(FileHandles) /\ IsFiniteSet(DirHandles)
ASSUME NamesAssumption == FileNames \cap DirNames = {}
ASSUME BoundsAssumption == FileIds \subseteq Nat \ {0} /\ MaxLength \in Nat

NoFile == 0
FirstInode == 5

VARIABLES
  fds,     \* Context.fds: open handles, each with its FileStream
  dirs,    \* Context.dirs: directory handles
  inodes,  \* Context.inodes: numbers given to names
  inodesCounter,
  disk,    \* length of each file as the file system knows it
  names,   \* the file each name is linked to, or NoFile
  lost     \* files held open by FileStreams no handle refers to

vars == <<fds, dirs, inodes, inodesCounter, disk, names, lost>>

Stream == [name : FileNames, file : FileIds, pos : 0 .. MaxLength, length : 0 .. MaxLength]

TypeOK ==
  /\ DOMAIN fds \subseteq FileHandles /\ fds \in [DOMAIN fds -> Stream]
  /\ DOMAIN dirs \subseteq DirHandles /\ dirs \in [DOMAIN dirs -> DirNames]
  /\ DOMAIN inodes \subseteq FileNames /\ inodes \in [DOMAIN inodes -> Nat]
  /\ inodesCounter \in Nat
  /\ disk \in [FileIds -> 0 .. MaxLength]
  /\ names \in [FileNames -> FileIds \cup {NoFile}]
  /\ lost \subseteq FileIds

Init ==
  /\ fds = [h \in {} |-> NoFile] /\ dirs = [h \in {} |-> NoFile] /\ inodes = [n \in {} |-> NoFile]
  /\ inodesCounter = FirstInode
  /\ disk = [f \in FileIds |-> 0]
  /\ names = [n \in FileNames |-> NoFile]
  /\ lost = {}

-------------------------------------------------------------------------------
(* FileStream and the file system, as the calls use them. *)

Held == lost \cup {fds[h].file : h \in DOMAIN fds}

\* A new file is the lowest-numbered one that no name and no stream refers to.
Unused == {f \in FileIds : f \notin Held /\ \A n \in FileNames : names[n] # f}
Fresh(f) == f \in Unused /\ f = Min(Unused)

\* Flushing makes the file system know the length.
Flushed(h) == [disk EXCEPT ![fds[h].file] = fds[h].length]

Longer(a, b) == IF a > b THEN a ELSE b

-------------------------------------------------------------------------------
(* Context. *)

Bind(f, x, y) == [z \in DOMAIN f \cup {x} |-> IF z = x THEN y ELSE f[z]]

InodeAgain(n) ==
  /\ inodes' = Bind(inodes, n, inodesCounter)
  /\ inodesCounter' = inodesCounter + 1
InodeForFile(n) ==
  IF n \in DOMAIN inodes THEN UNCHANGED <<inodes, inodesCounter>>
                         ELSE /\ inodes' = Bind(inodes, n, inodesCounter)
                              /\ inodesCounter' = inodesCounter + 1

\* OpenFileOrDir of a directory: the lowest free handle.  Without one the code
\* goes on to File.Open, which throws for a directory.
OpenDir(n) ==
  LET free == DirHandles \ DOMAIN dirs IN
  /\ free # {}
  /\ dirs' = Bind(dirs, Min(free), n)
  /\ UNCHANGED <<fds, inodes, inodesCounter, disk, names, lost>>

\* FileMode.OpenOrCreate, not shared: for a file that is held the call throws and
\* changes nothing.
FileOpenShared(n, f) == IF names[n] = NoFile THEN Fresh(f) ELSE f = names[n]
FileOpen(n, f) == IF names[n] = NoFile THEN Fresh(f) ELSE f = names[n] /\ f \notin Held

\* OpenFileOrDir of a file: the lowest free handle.  Without one the call throws
\* "Out of handles" and leaves the stream it has opened to the collector.
AnyHandles == FileHandles
FreeOneMore == (FileHandles \cup {Max(FileHandles) + 1}) \ DOMAIN fds
FreeHandles == FileHandles \ DOMAIN fds
OpenFile(n, f) ==
  /\ FileOpen(n, f)
  /\ names' = [names EXCEPT ![n] = f]
  /\ disk' = IF names[n] = NoFile THEN [disk EXCEPT ![f] = 0] ELSE disk
  /\ IF FreeHandles # {}
     THEN /\ fds' = Bind(fds, Min(FreeHandles),
                         [name |-> n, file |-> f, pos |-> 0, length |-> disk'[f]])
          /\ UNCHANGED lost
     ELSE lost' = lost \cup {f} /\ UNCHANGED fds
  /\ UNCHANGED <<dirs, inodes, inodesCounter>>

\* The collector closes a FileStream nobody refers to.
Collect(f) ==
  /\ f \in lost
  /\ lost' = lost \ {f}
  /\ UNCHANGED <<fds, dirs, inodes, inodesCounter, disk, names>>

-------------------------------------------------------------------------------
(* The WASI calls. *)

\* path_open, below the directory handle 4, "/tmp/"; it ignores its o_flags.
path_open(n) == (n \in DirNames /\ OpenDir(n)) \/ \E f \in FileIds : n \in FileNames /\ OpenFile(n, f)

\* fd_close closes a file; for a directory handle it does nothing and returns 0.
fd_close_kept(h) ==
  /\ disk' = disk
  /\ fds' = Restrict(fds, DOMAIN fds \ {h})
  /\ UNCHANGED <<dirs, inodes, inodesCounter, names, lost>>
fd_close(h) ==
  /\ disk' = Flushed(h)
  /\ fds' = Restrict(fds, DOMAIN fds \ {h})
  /\ UNCHANGED <<dirs, inodes, inodesCounter, names, lost>>

\* fd_write: the buffers are written one after the other, which is a write of all
\* of them.  A write of nothing lengthens no file.  The stream keeps all back, or
\* passes on what it kept before, or that and the beginning of this.
Reached(h, count) == IF count = 0 THEN fds[h].length ELSE Longer(fds[h].length, fds[h].pos + count)
Sent(h, count) == {0, fds[h].length} \cup ((fds[h].pos + 1) .. (fds[h].pos + count))
fd_write(h, count) ==
  /\ fds[h].pos + count <= MaxLength
  /\ fds' = [fds EXCEPT ![h].pos = @ + count, ![h].length = Reached(h, count)]
  /\ \E sent \in Sent(h, count) : disk' = [disk EXCEPT ![fds[h].file] = Max({@, sent})]
  /\ UNCHANGED <<dirs, inodes, inodesCounter, names, lost>>

\* fd_read and fd_seek: a FileStream passes on what it has kept back first.
fd_read(h, count) ==
  LET left == fds[h].length - fds[h].pos IN
  /\ disk' = Flushed(h)
  /\ fds' = [fds EXCEPT ![h].pos = @ + (IF left <= 0 THEN 0 ELSE IF count < left THEN count ELSE left)]
  /\ UNCHANGED <<dirs, inodes, inodesCounter, names, lost>>

fd_seek(h, pos) ==
  /\ disk' = Flushed(h)
  /\ fds' = [fds EXCEPT ![h].pos = pos]
  /\ UNCHANGED <<dirs, inodes, inodesCounter, names, lost>>

fd_sync(h) ==
  /\ disk' = Flushed(h)
  /\ UNCHANGED <<fds, dirs, inodes, inodesCounter, names, lost>>

\* fileStatFromString: a number is given when the name has a file.
fileStatFromString(n) ==
  /\ IF names[n] # NoFile THEN InodeForFile(n) ELSE UNCHANGED <<inodes, inodesCounter>>
  /\ UNCHANGED <<fds, dirs, disk, names, lost>>

fd_filestat_get(h) == fileStatFromString(fds[h].name)
path_filestat_get(n) == fileStatFromString(n)

\* path_unlink_file: File.Delete, which accepts a missing file.
path_unlink_file(n) ==
  /\ names' = [names EXCEPT ![n] = NoFile]
  /\ UNCHANGED <<fds, dirs, inodes, inodesCounter, disk, lost>>

-------------------------------------------------------------------------------
Next ==
  \/ \E n \in FileNames \cup DirNames : path_open(n)
  \/ \E h \in DOMAIN fds :
       \/ fd_close(h) \/ fd_sync(h) \/ fd_filestat_get(h)
       \/ \E c \in 0 .. MaxLength : fd_write(h, c) \/ fd_read(h, c) \/ fd_seek(h, c)
  \/ \E n \in FileNames : path_filestat_get(n) \/ path_unlink_file(n)
  \/ \E f \in FileIds : Collect(f)

Spec == Init /\ [][Next]_vars

-------------------------------------------------------------------------------
(* Properties. *)

\* No file is behind two handles, and none both behind a handle and lost: what a
\* stream holds back is the only news of its file.
FilesHeldOnce ==
  /\ \A h, k \in DOMAIN fds : fds[h].file = fds[k].file => h = k
  /\ \A h \in DOMAIN fds : fds[h].file \notin lost

\* No stream knows its file to be shorter than the file system does: nothing is
\* cut off when it is flushed.
NothingCut == \A h \in DOMAIN fds : disk[fds[h].file] <= fds[h].length

\* An open handle keeps its file: no opening, unlinking, creating or closing
\* elsewhere, in any order, makes it another one.
HandleKeepsFile ==
  [][\A h \in DOMAIN fds \cap DOMAIN fds' : fds'[h].file = fds[h].file
                                         /\ fds'[h].name = fds[h].name]_vars

\* A file whose FileStream was lost is out of reach until the collector closes
\* the stream: whatever is opened, written, closed, unlinked or made again,
\* nobody changes its length.
LostFileRests == [][\A f \in lost \cap lost' : disk'[f] = disk[f]]_vars

\* A name keeps its inode number, however often its file is unlinked and made
\* again, and no other name is ever given that number.
InodesStable ==
  [][\A n \in DOMAIN inodes : /\ n \in DOMAIN inodes' /\ inodes'[n] = inodes[n]
                              /\ \A m \in DOMAIN inodes' \ {n} : inodes'[m] # inodes[n]]_vars

\* Through its handles the program has the files Files promises: buffering is
\* not to be seen.  A file's length is the one its stream knows.
Knows(f) == {h \in DOMAIN fds : fds[h].file = f}
Logical(f) == IF Knows(f) = {} THEN disk[f] ELSE fds[CHOOSE h \in Knows(f) : TRUE].length

Promise == INSTANCE Files WITH
  Handles <- FileHandles,
  table <- [h \in DOMAIN fds |-> [file |-> fds[h].file, pos |-> fds[h].pos]],
  length <- [f \in FileIds |-> Logical(f)]
FilesAsPromised == Promise!Spec

\* What path_filestat_get and fd_filestat_get report.
PathStatSize(n) == disk[names[n]]
FdStatIno(h) == IF names[fds[h].name] = NoFile THEN 0 ELSE inodes[fds[h].name]

\* The size path_filestat_get reports is the file's size in bytes.
PathSizeIsFileSize == \A n \in FileNames : names[n] # NoFile => PathStatSize(n) = Logical(names[n])

\* The serial number fd_filestat_get reports tells two open files apart.
SerialNumbersDiffer ==
  \A h, k \in DOMAIN fds :
    fds[h].name \in DOMAIN inodes /\ fds[k].name \in DOMAIN inodes /\ FdStatIno(h) = FdStatIno(k)
      => fds[h].file = fds[k].file
===============================================================================

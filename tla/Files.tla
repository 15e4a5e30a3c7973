-------------------------------- MODULE Files ---------------------------------
(* What a guest program is promised of its files: a table of handles, each     *)
(* with a file and an offset, and the length of every file.  A write is seen   *)
(* at once by whoever asks for the length; closing and unlinking never change  *)
(* a file's bytes; an open handle keeps its file although the name is gone.    *)
EXTENDS Integers, Functions

CONSTANTS Handles,   \* the numbers a handle may have
          FileNames, \* the names of files
          FileIds,   \* the files there can be at a time, NoFile not among them
          MaxLength  \* bound: the longest file

NoFile == 0

VARIABLES table,   \* open handles, each with its file and offset
          length,  \* the length of each file
          names    \* the file of each name, or NoFile

vars == <<table, length, names>>

Init ==
  /\ table = [h \in {} |-> [file |-> 0, pos |-> 0]]
  /\ length = [f \in FileIds |-> 0]
  /\ names = [n \in FileNames |-> NoFile]

\* A name without a file gets an empty one that is nobody else's.
Unused(f) == /\ \A n \in FileNames : names[n] # f
             /\ \A h \in DOMAIN table : table[h].file # f
Resolve(n, f) ==
  \/ /\ names[n] = NoFile /\ Unused(f)
     /\ names' = [names EXCEPT ![n] = f]
     /\ length' = [length EXCEPT ![f] = 0]
  \/ f = names[n] /\ UNCHANGED <<names, length>>

Open(n, h, f) ==
  /\ h \in Handles \ DOMAIN table
  /\ Resolve(n, f)
  /\ table' = [x \in DOMAIN table \cup {h} |-> IF x = h THEN [file |-> f, pos |-> 0] ELSE table[x]]

\* An open that finds no free handle may still have created the file.
OpenFails(n, f) == Resolve(n, f) /\ UNCHANGED table

Close(h) ==
  /\ table' = Restrict(table, DOMAIN table \ {h})
  /\ UNCHANGED <<length, names>>

\* Writing nothing lengthens no file.
Write(h, count) ==
  LET f == table[h].file  end == table[h].pos + count IN
  /\ end <= MaxLength
  /\ table' = [table EXCEPT ![h].pos = end]
  /\ length' = [length EXCEPT ![f] = IF count > 0 /\ end > @ THEN end ELSE @]
  /\ UNCHANGED names

\* Reading and seeking move the offset of this handle only.
Move(h, pos) ==
  /\ table' = [table EXCEPT ![h].pos = pos]
  /\ UNCHANGED <<length, names>>

Unlink(n) ==
  /\ names' = [names EXCEPT ![n] = NoFile]
  /\ UNCHANGED <<table, length>>

Next ==
  \/ \E n \in FileNames, f \in FileIds : OpenFails(n, f) \/ \E h \in Handles : Open(n, h, f)
  \/ \E h \in DOMAIN table :
       \/ Close(h)
       \/ \E p \in 0 .. MaxLength : Write(h, p) \/ Move(h, p)
  \/ \E n \in FileNames : Unlink(n)

Spec == Init /\ [][Next]_vars
===============================================================================

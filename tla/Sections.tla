------------------------------- MODULE Sections -------------------------------
(* How Transformer.Go walks through a file: a section is an id, a length and   *)
(* that many bytes, and so is a subsection of the name section.  Here only ids *)
(* and lengths matter; what handlers do with the bytes is in Loader.           *)
(*                                                                             *)
(* A position is <<k, 0>>, where section k begins, or <<k, j>>, where the      *)
(* subsection j of section k begins.  The end of the last subsection is the    *)
(* beginning of the next section.                                              *)
EXTENDS Integers, Sequences, FiniteSets, SequencesExt

CONSTANTS Known,      \* ids of the sections the file may have, TYPE (1) to DATA
          Subsections,\* ids of the subsections the name section may have
          MaxCustom   \* bound: other custom sections before and after it

CUSTOM == 0
TYPE == 1
FunctionNames == 1
OneSubsection == 1
NamesRead == 3        \* subsections the code reads

ASSUME IdsAssumption ==
  /\ Known \subseteq Nat \ {CUSTOM} /\ Subsections \subseteq Nat /\ MaxCustom \in Nat
  /\ IsFiniteSet(Known) /\ IsFiniteSet(Subsections)

VARIABLES
  file,     \* the sections: id, whether it is the name section, its subsections
  position, \* reader.Position
  next,     \* where the section being read ends
  toRead,   \* subsections still to be read
  stage,    \* between sections, among names, or how it ended
  named     \* what was taken for function names

vars == <<file, position, next, toRead, stage, named>>

Section(id) == [id |-> id, name |-> FALSE, subs |-> <<>>]
NameSection(subs) == [id |-> CUSTOM, name |-> TRUE, subs |-> subs]
Ascending(ids) == {s \in SeqOf(ids, Cardinality(ids)) : \A i, j \in DOMAIN s : i < j => s[i] < s[j]}

\* A file: sections by ascending id, the name section after them, its subsections
\* by ascending id; other custom sections before and after it.
Customs == {[i \in 1 .. n |-> Section(CUSTOM)] : n \in 0 .. MaxCustom}
IsFile(f) ==
  \E before, after \in Customs, known \in Ascending(Known),
     names \in {<<>>} \cup {<<NameSection(subs)>> : subs \in Ascending(Subsections)} :
       f = before \o [i \in DOMAIN known |-> Section(known[i])] \o names \o after

Init ==
  /\ IsFile(file)
  /\ position = <<1, 0>> /\ next = <<1, 0>>
  /\ toRead = 0 /\ stage = "sections" /\ named = {}

-------------------------------------------------------------------------------
AtLast(p) == p[1] >= Len(file)
AtEnd(p) == p[1] > Len(file)
Id(p) == IF p[2] = 0 THEN file[p[1]].id ELSE file[p[1]].subs[p[2]]
Subsection(k, j) == IF j > Len(file[k].subs) THEN <<k + 1, 0>> ELSE <<k, j>>

\* An id and a length have been read: where the bytes end.
BehindUnnested(p) == IF p[2] = 0 THEN <<p[1] + 1, 0>> ELSE <<p[1], p[2] + 1>>
Behind(p) == IF p[2] = 0 THEN <<p[1] + 1, 0>> ELSE Subsection(p[1], p[2] + 1)

\* Go: the handler of a section reads all of it, or it is skipped.
ReadSection ==
  /\ stage = "sections" /\ ~AtEnd(position) /\ ~file[position[1]].name
  /\ position' = Behind(position) /\ next' = Behind(position)
  /\ UNCHANGED <<file, toRead, stage, named>>

\* ReadCustomSection of the section "name": three subsections are read.
ReadNameSection ==
  /\ stage = "sections" /\ ~AtEnd(position) /\ file[position[1]].name
  /\ next' = Behind(position)
  /\ position' = Subsection(position[1], 1)
  /\ stage' = "names" /\ toRead' = NamesRead
  /\ UNCHANGED <<file, named>>

\* At the end of the file ReadU8 throws.
ReadSubsection ==
  /\ stage = "names" /\ toRead > 0
  /\ IF AtEnd(position)
     THEN stage' = "refused" /\ UNCHANGED <<position, toRead, named>>
     ELSE /\ named' = IF Id(position) = FunctionNames THEN named \cup {position} ELSE named
          /\ position' = Behind(position)
          /\ toRead' = toRead - 1
          /\ UNCHANGED stage
  /\ UNCHANGED <<file, next>>

\* Go: str.Position = next, wherever the handler of a custom section stopped.
StayBehindNames == position
BackToSection == <<next[1] - 1, 0>>
ResumeAt == next
AfterNames ==
  /\ stage = "names" /\ toRead = 0
  /\ stage' = "sections" /\ position' = ResumeAt
  /\ UNCHANGED <<file, next, toRead, named>>

ReadToEnd ==
  /\ stage = "sections" /\ AtEnd(position)
  /\ stage' = "read"
  /\ UNCHANGED <<file, position, next, toRead, named>>

Ended == stage \in {"read", "refused"} /\ UNCHANGED vars

Next == ReadSection \/ ReadNameSection \/ ReadSubsection \/ AfterNames \/ ReadToEnd \/ Ended

\* One thread runs the loop until it ends or throws.
Fairness == WF_vars(Next)
Spec == Init /\ [][Next]_vars /\ Fairness

-------------------------------------------------------------------------------
(* Properties. *)

Names == {k \in DOMAIN file : file[k].name}
NumSubs(k) == Len(file[k].subs)

\* Types of the variables; every position is one of the file or its end.
TypeOK ==
  /\ \A p \in {position, next} \cup named :
        p[1] \in 1 .. Len(file) + 1 /\ p[2] \in 0 .. IF AtEnd(p) THEN 0 ELSE NumSubs(p[1])
  /\ toRead \in 0 .. NamesRead
  /\ stage \in {"sections", "names", "read", "refused"}

\* No section is skipped or read from its middle, although the name section may
\* be read beyond its end: the loop goes from each section to the one after it.
Aligned ==
  [][stage = "sections" => /\ position = next
                           /\ stage' # "read" => next' = <<position[1] + 1, 0>>]_vars

\* Once the file is read the function names were taken from the subsection that
\* has them, once, and no section was mistaken for it.
NamesFound ==
  stage = "read" =>
    named = UNION {{<<k, j>> : j \in {j \in DOMAIN file[k].subs : file[k].subs[j] = FunctionNames}} : k \in Names}

\* A well-formed file is refused only if the name section has fewer than three
\* subsections and too few sections follow to be taken for the rest.
RefusedOnlyShort ==
  stage = "refused" => \E k \in Names : NumSubs(k) + (Len(file) - k) < NamesRead

\* Every file is read to its end, or refused.
Ends == <>(stage \in {"read", "refused"})
===============================================================================

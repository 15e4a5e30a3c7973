---------------------------- MODULE SectionsProofs -----------------------------
(* Proofs, for files of any length with any sections and subsections, that the  *)
(* walk through a file neither skips a section nor starts in the middle of one, *)
(* that it finds the function names, and which files it refuses.                *)
EXTENDS Sections, FiniteSetTheorems, SequenceTheorems, TLAPS

-------------------------------------------------------------------------------
(* The files. *)

\* What matters of a file: after the name section there are only other custom
\* sections, and the ids of its subsections ascend.
ASection == [id : Nat, name : {TRUE, FALSE}, subs : Seq(Nat)]
Ascends(s) == \A i, j \in DOMAIN s : i < j => s[i] < s[j]
WellFormed(f) ==
  /\ f \in Seq(ASection)
  /\ \A k \in DOMAIN f : f[k].name =>
       /\ Ascends(f[k].subs)
       /\ \A l \in DOMAIN f : l > k => f[l].id = CUSTOM /\ ~f[l].name

LEMMA AscendingFacts ==
  ASSUME NEW ids, ids \subseteq Nat, IsFiniteSet(ids), NEW s \in Ascending(ids)
  PROVE  s \in Seq(ids) /\ s \in Seq(Nat) /\ Ascends(s)
  <1>1. Cardinality(ids) \in Nat
    BY FS_CardinalityType
  <1>2. PICK m \in 0 .. Cardinality(ids) : s \in [1 .. m -> ids]
    BY DEF Ascending, SeqOf
  <1>3. s \in Seq(ids)
    BY <1>1, <1>2, SeqDef
  <1>4. s \in Seq(Nat)
    BY <1>3, SeqMonotonic
  <1> QED
    BY <1>3, <1>4 DEF Ascending, Ascends

\* In an ascending sequence of ids the second is the last that can be 1.
LEMMA OneComesEarly ==
  ASSUME NEW s \in Seq(Nat), Ascends(s), NEW j \in DOMAIN s, s[j] = FunctionNames
  PROVE  j < NamesRead
  <1>1. j \in Nat /\ j >= 1 /\ j <= Len(s)
    OBVIOUS
  <1>2. SUFFICES ASSUME j >= 3
                 PROVE  FALSE
    BY <1>1 DEF NamesRead
  <1>3. 1 \in DOMAIN s /\ 2 \in DOMAIN s
    BY <1>1, <1>2
  <1>4. s[1] \in Nat /\ s[1] < s[2] /\ s[2] < s[j] /\ s[2] \in Nat
    BY <1>1, <1>2, <1>3 DEF Ascends
  <1> QED
    BY <1>4 DEF FunctionNames

LEMMA CustomsFacts ==
  ASSUME NEW s \in Customs
  PROVE  /\ s \in Seq(ASection)
         /\ \A i \in DOMAIN s : s[i].id = CUSTOM /\ s[i].name = FALSE
  <1>1. PICK n \in Nat : s = [i \in 1 .. n |-> Section(CUSTOM)]
    BY IdsAssumption DEF Customs
  <1>2. Section(CUSTOM) \in ASection /\ Section(CUSTOM).id = CUSTOM /\ Section(CUSTOM).name = FALSE
    BY DEF Section, ASection, CUSTOM
  <1> HIDE DEF ASection
  <1> QED
    BY <1>1, <1>2

\* Joining sequences of sections.
LEMMA Joined ==
  ASSUME NEW S, NEW s \in Seq(S), NEW t \in Seq(S)
  PROVE  /\ s \o t \in Seq(S) /\ Len(s \o t) = Len(s) + Len(t)
         /\ \A i \in DOMAIN (s \o t) : /\ i <= Len(s) => i \in DOMAIN s /\ (s \o t)[i] = s[i]
                                       /\ i > Len(s) => i - Len(s) \in DOMAIN t /\ (s \o t)[i] = t[i - Len(s)]
  OBVIOUS

LEMMA FileFacts ==
  ASSUME NEW f, IsFile(f)
  PROVE  WellFormed(f)
  <1>1. PICK before \in Customs, known \in Ascending(Known),
             names \in {<<>>} \cup {<<NameSection(subs)>> : subs \in Ascending(Subsections)}, after \in Customs :
          f = before \o [i \in DOMAIN known |-> Section(known[i])] \o names \o after
    BY DEF IsFile
  <1> PICK sections : sections = [i \in DOMAIN known |-> Section(known[i])]
    OBVIOUS
  <1>2. known \in Seq(Nat)
    <2>1. Known \subseteq Nat /\ IsFiniteSet(Known)
      BY IdsAssumption
    <2> QED
      BY <2>1, AscendingFacts
  <1>3. \A i \in DOMAIN sections : sections[i] \in ASection /\ sections[i].name = FALSE
    BY <1>2 DEF Section, ASection
  <1>4. sections \in Seq(ASection)
    <2> HIDE DEF ASection
    <2> QED
      BY <1>2, <1>3
  <1>5. /\ names \in Seq(ASection) /\ Len(names) <= 1
        /\ \A i \in DOMAIN names : Ascends(names[i].subs)
    <2>1. CASE names = <<>>
      BY <2>1
    <2>2. CASE names # <<>>
      <3>1. PICK subs \in Ascending(Subsections) : names = <<NameSection(subs)>>
        BY <2>2
      <3>2. subs \in Seq(Nat) /\ Ascends(subs)
        BY AscendingFacts, IdsAssumption
      <3>3. NameSection(subs) \in ASection /\ NameSection(subs).subs = subs
        BY <3>2 DEF NameSection, ASection, CUSTOM
      <3> HIDE DEF ASection
      <3> QED
        BY <3>1, <3>2, <3>3
    <2> QED
      BY <2>1, <2>2
  <1>6. /\ before \in Seq(ASection) /\ after \in Seq(ASection)
        /\ \A i \in DOMAIN before : before[i].name = FALSE
        /\ \A i \in DOMAIN after : after[i].id = CUSTOM /\ after[i].name = FALSE
    BY CustomsFacts
  <1>7. PICK one, two : one = before \o sections /\ two = one \o names /\ f = two \o after
    BY <1>1
  <1> HIDE DEF ASection
  <1>8. /\ one \in Seq(ASection)
        /\ \A i \in DOMAIN one : one[i].name = FALSE
    <2>1. /\ one \in Seq(ASection)
          /\ \A i \in DOMAIN one : /\ i <= Len(before) => i \in DOMAIN before /\ one[i] = before[i]
                                   /\ i > Len(before) => i - Len(before) \in DOMAIN sections
                                                         /\ one[i] = sections[i - Len(before)]
      BY <1>4, <1>6, <1>7, Joined
    <2>2. \A i \in DOMAIN one : i <= Len(before) \/ i > Len(before)
      BY <1>6, <2>1
    <2> QED
      BY <1>3, <1>6, <2>1, <2>2, Zenon
  <1>9. /\ two \in Seq(ASection) /\ Len(two) <= Len(one) + 1
        /\ \A i \in DOMAIN two : two[i].name => i = Len(one) + 1 /\ Ascends(two[i].subs)
    <2>1. /\ two \in Seq(ASection) /\ Len(two) = Len(one) + Len(names)
          /\ \A i \in DOMAIN two : /\ i <= Len(one) => i \in DOMAIN one /\ two[i] = one[i]
                                   /\ i > Len(one) => i - Len(one) \in DOMAIN names
                                                      /\ two[i] = names[i - Len(one)]
      BY <1>5, <1>7, <1>8, Joined
    <2>2. \A i \in DOMAIN two : i <= Len(one) \/ (i > Len(one) /\ (i - Len(one) \in DOMAIN names => i = Len(one) + 1))
      BY <1>5, <1>8, <2>1
    <2>3. \A i \in DOMAIN two : two[i].name => i = Len(one) + 1 /\ Ascends(two[i].subs)
      BY <1>5, <1>8, <2>1, <2>2, Zenon
    <2> QED
      BY <1>5, <1>8, <2>1, <2>3
  <1>10. /\ f \in Seq(ASection)
         /\ \A i \in DOMAIN f : /\ i <= Len(two) => i \in DOMAIN two /\ f[i] = two[i]
                                /\ i > Len(two) => f[i].id = CUSTOM /\ f[i].name = FALSE
    <2>1. /\ f \in Seq(ASection)
          /\ \A i \in DOMAIN f : /\ i <= Len(two) => i \in DOMAIN two /\ f[i] = two[i]
                                 /\ i > Len(two) => i - Len(two) \in DOMAIN after
                                                    /\ f[i] = after[i - Len(two)]
      BY <1>6, <1>7, <1>9, Joined
    <2>2. ASSUME NEW i \in DOMAIN f, i > Len(two)
          PROVE  f[i].id = CUSTOM /\ f[i].name = FALSE
      BY <1>6, <2>1, <2>2, Zenon
    <2> QED
      BY <2>1, <2>2, Zenon
  <1>11. ASSUME NEW k \in DOMAIN f, f[k].name
         PROVE  /\ Ascends(f[k].subs)
                /\ \A l \in DOMAIN f : l > k => f[l].id = CUSTOM /\ ~f[l].name
    <2>1. k <= Len(two) \/ k > Len(two)
      BY <1>9, <1>10
    <2>2. k \in DOMAIN two /\ f[k] = two[k]
      BY <1>10, <1>11, <2>1, Zenon
    <2>3. k = Len(one) + 1 /\ Ascends(f[k].subs)
      BY <1>9, <1>11, <2>2, Zenon
    <2>4. ASSUME NEW l \in DOMAIN f, l > k
          PROVE  l > Len(two)
      <3>1. l \in Nat /\ Len(two) \in Nat /\ Len(one) \in Nat /\ Len(two) <= Len(one) + 1
        BY <1>8, <1>9, <1>10
      <3> QED
        BY <2>3, <2>4, <3>1
    <2>5. ASSUME NEW l \in DOMAIN f, l > k
          PROVE  f[l].id = CUSTOM /\ ~f[l].name
      BY <1>10, <2>4, <2>5, Zenon
    <2> QED
      BY <2>3, <2>5
  <1> QED
    BY <1>10, <1>11, Zenon DEF WellFormed

-------------------------------------------------------------------------------
(* The inductive invariant. *)

\* Where the function names are in the sections before the one at k.
NamesBefore(k) == {p \in (1 .. k - 1) \X Nat : /\ p[1] \in Names /\ p[2] \in DOMAIN file[p[1]].subs
                                               /\ file[p[1]].subs[p[2]] = FunctionNames}
\* The same among the first n subsections of the section k.
NamesAmong(k, n) == {p \in {k} \X (1 .. n) : /\ p[2] \in DOMAIN file[k].subs
                                             /\ file[k].subs[p[2]] = FunctionNames}
\* Where n subsections after the beginning of the section k lead: into the
\* sections after it, when there are fewer.
AfterReading(k, n) == IF n < NumSubs(k) THEN <<k, n + 1>> ELSE <<k + 1 + n - NumSubs(k), 0>>

Between == \E k \in 1 .. Len(file) + 1 :
  /\ position = <<k, 0>> /\ next = <<k, 0>> /\ named = NamesBefore(k)
  /\ stage = "read" => k = Len(file) + 1

AmongNames == \E k \in Names :
  LET n == NamesRead - toRead IN
  /\ next = <<k + 1, 0>> /\ position = AfterReading(k, n) /\ position[1] <= Len(file) + 1
  /\ named = NamesBefore(k) \cup NamesAmong(k, n)
  /\ stage = "refused" => toRead > 0 /\ AtEnd(position)

IInv ==
  /\ WellFormed(file)
  /\ toRead \in 0 .. NamesRead
  /\ stage \in {"sections", "names", "read", "refused"}
  /\ stage \in {"sections", "read"} => Between
  /\ stage \in {"names", "refused"} => AmongNames

LEMMA FileTypes ==
  ASSUME IInv
  PROVE  /\ Len(file) \in Nat /\ DOMAIN file = 1 .. Len(file) /\ Names \subseteq 1 .. Len(file)
         /\ \A k \in DOMAIN file : /\ file[k].id \in Nat /\ file[k].subs \in Seq(Nat) /\ NumSubs(k) \in Nat
                                   /\ DOMAIN file[k].subs = 1 .. NumSubs(k)
  <1>1. file \in Seq(ASection)
    BY DEF IInv, WellFormed
  <1>2. Len(file) \in Nat /\ DOMAIN file = 1 .. Len(file)
    BY <1>1, LenProperties
  <1>3. ASSUME NEW k \in DOMAIN file
        PROVE  /\ file[k].id \in Nat /\ file[k].subs \in Seq(Nat) /\ NumSubs(k) \in Nat
               /\ DOMAIN file[k].subs = 1 .. NumSubs(k)
    <2>1. file[k] \in ASection
      BY <1>1, <1>2, ElementOfSeq
    <2>2. file[k].id \in Nat /\ file[k].subs \in Seq(Nat)
      BY <2>1 DEF ASection
    <2> QED
      BY <2>2 DEF NumSubs
  <1> QED
    BY <1>2, <1>3 DEF Names

LEMMA InitIInv == Init => IInv
  <1> SUFFICES ASSUME Init
               PROVE  IInv
    OBVIOUS
  <1>1. WellFormed(file) /\ toRead \in 0 .. NamesRead
    BY FileFacts DEF Init, NamesRead
  <1>2. Len(file) \in Nat
    BY <1>1, LenProperties DEF WellFormed
  <1>3. NamesBefore(1) = {}
    BY DEF NamesBefore
  <1>4. Between
    BY <1>2, <1>3 DEF Init, Between
  <1> QED
    BY <1>1, <1>4 DEF Init, IInv

LEMMA ReadSectionIInv ==
  ASSUME IInv, ReadSection
  PROVE  IInv'
  <1>1. PICK k \in 1 .. Len(file) + 1 : position = <<k, 0>> /\ next = <<k, 0>> /\ named = NamesBefore(k)
    BY DEF IInv, ReadSection, Between
  <1>2. k \in Nat /\ k <= Len(file) /\ k \in DOMAIN file /\ k \notin Names
    BY <1>1, FileTypes DEF ReadSection, AtEnd, Names
  <1>3. position' = <<k + 1, 0>> /\ next' = <<k + 1, 0>> /\ UNCHANGED <<file, toRead, stage, named>>
    BY <1>1 DEF ReadSection, Behind
  <1>4. NamesBefore(k + 1) = NamesBefore(k)
    BY <1>2, FileTypes DEF NamesBefore
  <1>5. Between'
    <2>1. k + 1 \in 1 .. Len(file) + 1
      BY <1>2, FileTypes
    <2>2. named' = NamesBefore(k + 1)'
      BY <1>1, <1>3, <1>4 DEF NamesBefore, Names
    <2> QED
      BY <1>3, <2>1, <2>2 DEF Between, ReadSection
  <1> QED
    BY <1>3, <1>5 DEF IInv, ReadSection

LEMMA ReadNameSectionIInv ==
  ASSUME IInv, ReadNameSection
  PROVE  IInv'
  <1>1. PICK k \in 1 .. Len(file) + 1 : position = <<k, 0>> /\ next = <<k, 0>> /\ named = NamesBefore(k)
    BY DEF IInv, ReadNameSection, Between
  <1>2. k \in Nat /\ k <= Len(file) /\ k \in DOMAIN file /\ k \in Names /\ NumSubs(k) \in Nat
    BY <1>1, FileTypes DEF ReadNameSection, AtEnd, Names
  <1>3. /\ next' = <<k + 1, 0>> /\ position' = Subsection(k, 1)
        /\ stage' = "names" /\ toRead' = NamesRead /\ UNCHANGED <<file, named>>
    BY <1>1 DEF ReadNameSection, Behind
  <1>4. Subsection(k, 1) = AfterReading(k, 0) /\ AfterReading(k, 0)[1] <= Len(file) + 1
    <2>1. CASE NumSubs(k) = 0
      BY <1>2, <2>1, FileTypes DEF Subsection, AfterReading, NumSubs
    <2>2. CASE NumSubs(k) # 0
      <3>1. NumSubs(k) >= 1 /\ Len(file[k].subs) = NumSubs(k) /\ Len(file) \in Nat
        BY <1>2, <2>2, FileTypes DEF NumSubs
      <3>2. Subsection(k, 1) = <<k, 1>> /\ AfterReading(k, 0) = <<k, 1>>
        BY <1>2, <3>1 DEF Subsection, AfterReading
      <3> QED
        BY <1>2, <3>1, <3>2
    <2> QED
      BY <2>1, <2>2
  <1>5. NamesAmong(k, 0) = {}
    BY DEF NamesAmong
  <1>6. AmongNames'
    <2>1. NamesRead - toRead' = 0
      BY <1>3 DEF NamesRead
    <2>2. position' = AfterReading(k, NamesRead - toRead)' /\ position'[1] <= Len(file)' + 1
      BY <1>3, <1>4, <2>1 DEF AfterReading, NumSubs
    <2>3. named' = NamesBefore(k)' \cup NamesAmong(k, NamesRead - toRead)'
      BY <1>1, <1>3, <1>5, <2>1 DEF NamesBefore, NamesAmong, Names
    <2> QED
      BY <1>2, <1>3, <2>2, <2>3 DEF AmongNames, Names
  <1>7. WellFormed(file)'
    BY <1>3, Zenon DEF IInv
  <1>8. toRead' \in 0 .. NamesRead
    BY <1>3 DEF NamesRead
  <1> QED
    BY <1>3, <1>6, <1>7, <1>8 DEF IInv

LEMMA ReadSubsectionIInv ==
  ASSUME IInv, ReadSubsection
  PROVE  IInv'
  <1>0. PICK n \in Nat : n = NamesRead - toRead /\ n < NamesRead /\ NamesRead - (toRead - 1) = n + 1
    <2>1. toRead \in 0 .. 3 /\ toRead > 0 /\ NamesRead = 3
      BY DEF IInv, ReadSubsection, NamesRead
    <2>2. NamesRead - toRead \in Nat
      BY <2>1
    <2> QED
      BY <2>1, <2>2
  <1>1. PICK k \in Names : /\ next = <<k + 1, 0>> /\ position = AfterReading(k, n) /\ position[1] <= Len(file) + 1
                           /\ named = NamesBefore(k) \cup NamesAmong(k, n)
    BY <1>0 DEF IInv, ReadSubsection, AmongNames
  <1>2. UNCHANGED <<file, next>> /\ stage = "names" /\ toRead > 0 /\ toRead \in Nat
    BY DEF ReadSubsection, IInv, NamesRead
  <1>3. /\ k \in Nat /\ k <= Len(file) /\ k \in DOMAIN file /\ NumSubs(k) \in Nat /\ Len(file) \in Nat
        /\ DOMAIN file[k].subs = 1 .. NumSubs(k) /\ DOMAIN file = 1 .. Len(file)
    BY <1>1, FileTypes
  <1>4. CASE AtEnd(position)
    <2>1. stage' = "refused" /\ UNCHANGED <<position, toRead, named>>
      BY <1>4 DEF ReadSubsection
    <2>2. AmongNames'
      BY <1>0, <1>1, <1>2, <1>4, <2>1
         DEF AmongNames, Names, AfterReading, NumSubs, NamesBefore, NamesAmong, AtEnd
    <2> QED
      BY <1>2, <2>1, <2>2 DEF IInv
  <1>5. CASE ~AtEnd(position)
    <2>1. /\ named' = IF Id(position) = FunctionNames THEN named \cup {position} ELSE named
          /\ position' = Behind(position) /\ toRead' = toRead - 1 /\ stage' = "names"
      BY <1>2, <1>5 DEF ReadSubsection
    <2>2. /\ Behind(position) = AfterReading(k, n + 1) /\ Behind(position)[1] <= Len(file) + 1
          /\ named' = NamesBefore(k) \cup NamesAmong(k, n + 1)
      <3>1. CASE n < NumSubs(k)
        <4>1. position = <<k, n + 1>> /\ Id(position) = file[k].subs[n + 1] /\ n + 1 \in DOMAIN file[k].subs
          BY <1>0, <1>1, <1>3, <3>1 DEF AfterReading, Id
        <4>2. Behind(position) = AfterReading(k, n + 1) /\ Behind(position)[1] <= Len(file) + 1
          <5>1. Behind(position) = Subsection(k, n + 2)
            BY <1>0, <4>1 DEF Behind
          <5>2. CASE n + 2 > NumSubs(k)
            <6>1. n + 1 = NumSubs(k) /\ n + 2 > Len(file[k].subs)
              BY <1>3, <3>1, <5>2 DEF NumSubs
            <6>2. Subsection(k, n + 2) = <<k + 1, 0>> /\ AfterReading(k, n + 1) = <<k + 1, 0>>
              <7>1. k + 1 + (n + 1) - NumSubs(k) = k + 1 /\ ~(n + 1 < NumSubs(k))
                BY <1>3, <6>1
              <7>2. AfterReading(k, n + 1) = <<k + 1 + (n + 1) - NumSubs(k), 0>>
                BY <7>1, Zenon DEF AfterReading
              <7>3. Subsection(k, n + 2) = <<k + 1, 0>>
                BY <6>1, Zenon DEF Subsection
              <7> QED
                BY <7>1, <7>2, <7>3
            <6> QED
              BY <1>3, <5>1, <6>2
          <5>3. CASE ~(n + 2 > NumSubs(k))
            BY <1>3, <5>1, <5>3 DEF Subsection, AfterReading, NumSubs
          <5> QED
            BY <5>2, <5>3
        <4>3. NamesAmong(k, n + 1) = NamesAmong(k, n) \cup
                                       (IF file[k].subs[n + 1] = FunctionNames THEN {<<k, n + 1>>} ELSE {})
          BY <1>0, <4>1 DEF NamesAmong
        <4> QED
          BY <1>1, <2>1, <4>1, <4>2, <4>3
      <3>2. CASE ~(n < NumSubs(k))
        <4> PICK l : l = k + 1 + n - NumSubs(k)
          OBVIOUS
        <4>1. position = <<l, 0>> /\ l > k /\ l \in DOMAIN file
          BY <1>0, <1>1, <1>3, <1>5, <3>2 DEF AfterReading, AtEnd
        <4>2. Id(position) # FunctionNames
          <5>1. file[l].id = CUSTOM
            BY <1>1, <4>1 DEF IInv, WellFormed, Names
          <5> QED
            BY <4>1, <5>1 DEF Id, CUSTOM, FunctionNames
        <4>3. Behind(position) = AfterReading(k, n + 1) /\ Behind(position)[1] <= Len(file) + 1
          BY <1>0, <1>3, <3>2, <4>1 DEF Behind, AfterReading
        <4>4. NamesAmong(k, n + 1) = NamesAmong(k, n)
          BY <1>0, <1>3, <3>2 DEF NamesAmong
        <4> QED
          BY <1>1, <2>1, <4>2, <4>3, <4>4
      <3> QED
        BY <3>1, <3>2
    <2>3. NamesRead - toRead' = n + 1 /\ toRead' \in 0 .. NamesRead
      BY <1>0, <1>2, <2>1 DEF IInv, NamesRead
    <2>4. AmongNames'
      BY <1>1, <1>2, <2>1, <2>2, <2>3 DEF AmongNames, Names, AfterReading, NumSubs, NamesBefore, NamesAmong
    <2> QED
      BY <1>2, <2>1, <2>3, <2>4 DEF IInv
  <1> QED
    BY <1>4, <1>5

LEMMA AfterNamesIInv ==
  ASSUME IInv, AfterNames
  PROVE  IInv'
  <1>1. PICK k \in Names : next = <<k + 1, 0>> /\ named = NamesBefore(k) \cup NamesAmong(k, NamesRead)
    BY DEF IInv, AfterNames, AmongNames, NamesRead
  <1>2. k \in Nat /\ k >= 1 /\ k <= Len(file) /\ k \in DOMAIN file /\ file[k].name /\ file[k].subs \in Seq(Nat)
        /\ Len(file) \in Nat
    BY FileTypes DEF Names
  <1>3. position' = <<k + 1, 0>> /\ stage' = "sections" /\ UNCHANGED <<file, next, toRead, named>>
    BY <1>1 DEF AfterNames, ResumeAt
  <1>4. NamesBefore(k) \cup NamesAmong(k, NamesRead) = NamesBefore(k + 1)
    <2>1. \A j \in DOMAIN file[k].subs : file[k].subs[j] = FunctionNames => j \in 1 .. NamesRead
      <3>1. Ascends(file[k].subs)
        BY <1>2 DEF IInv, WellFormed
      <3>2. \A j \in DOMAIN file[k].subs : j \in Nat /\ j >= 1
        BY <1>2
      <3> QED
        BY <1>2, <3>1, <3>2, OneComesEarly DEF NamesRead
    <2>2. NamesBefore(k) \subseteq NamesBefore(k + 1)
      BY <1>2 DEF NamesBefore
    <2>3. NamesAmong(k, NamesRead) \subseteq NamesBefore(k + 1)
      BY <1>2 DEF NamesAmong, NamesBefore, NamesRead
    <2>4. ASSUME NEW p \in NamesBefore(k + 1)
          PROVE  p \in NamesBefore(k) \cup NamesAmong(k, NamesRead)
      <3>1. CASE p[1] = k
        BY <1>2, <2>1, <3>1 DEF NamesBefore, NamesAmong
      <3>2. CASE p[1] # k
        BY <1>2, <3>2 DEF NamesBefore
      <3> QED
        BY <3>1, <3>2
    <2> QED
      BY <2>2, <2>3, <2>4
  <1>5. Between'
    <2>1. k + 1 \in 1 .. Len(file) + 1
      BY <1>2
    <2>2. named' = NamesBefore(k + 1)'
      BY <1>1, <1>3, <1>4 DEF NamesBefore, Names
    <2> QED
      BY <1>1, <1>3, <2>1, <2>2 DEF Between
  <1> QED
    BY <1>3, <1>5 DEF IInv

LEMMA ReadToEndIInv ==
  ASSUME IInv, ReadToEnd
  PROVE  IInv'
  <1>1. PICK k \in 1 .. Len(file) + 1 : position = <<k, 0>> /\ next = <<k, 0>> /\ named = NamesBefore(k)
    BY DEF IInv, ReadToEnd, Between
  <1>2. k = Len(file) + 1
    BY <1>1, FileTypes DEF ReadToEnd, AtEnd
  <1>3. stage' = "read" /\ UNCHANGED <<file, position, next, toRead, named>>
    BY DEF ReadToEnd
  <1>4. Between'
    BY <1>1, <1>2, <1>3 DEF Between, NamesBefore, Names
  <1> QED
    BY <1>3, <1>4 DEF IInv

LEMMA StepIInv == IInv /\ [Next]_vars => IInv'
  <1> SUFFICES ASSUME IInv, [Next]_vars
               PROVE  IInv'
    OBVIOUS
  <1>1. CASE UNCHANGED vars
    BY <1>1 DEF vars, IInv, Between, AmongNames, NamesBefore, NamesAmong, Names, AfterReading, NumSubs, AtEnd
  <1>2. CASE Ended
    BY <1>1, <1>2 DEF Ended
  <1> QED
    BY <1>1, <1>2, ReadSectionIInv, ReadNameSectionIInv, ReadSubsectionIInv, AfterNamesIInv, ReadToEndIInv DEF Next

LEMMA Invariance == Spec => []IInv
  BY InitIInv, StepIInv, PTL DEF Spec

-------------------------------------------------------------------------------
(* The theorems. *)

\* Where the invariant puts the reader there is a section, a subsection or the end.
LEMMA PositionsFine == IInv => TypeOK
  <1> SUFFICES ASSUME IInv
               PROVE  TypeOK
    OBVIOUS
  <1> DEFINE Fine(p) == p[1] \in 1 .. Len(file) + 1 /\ p[2] \in 0 .. IF AtEnd(p) THEN 0 ELSE NumSubs(p[1])
  <1>1. \A k \in 1 .. Len(file) + 1 : Fine(<<k, 0>>)
    BY FileTypes DEF AtEnd
  <1>2. \A k \in DOMAIN file : \A j \in DOMAIN file[k].subs : Fine(<<k, j>>)
    BY FileTypes DEF AtEnd
  <1>3. \A k \in 1 .. Len(file) + 1 : \A p \in NamesBefore(k) : Fine(p)
    <2> SUFFICES ASSUME NEW k \in 1 .. Len(file) + 1, NEW p \in NamesBefore(k)
                 PROVE  Fine(p)
      OBVIOUS
    <2>1. p = <<p[1], p[2]>> /\ p[1] \in DOMAIN file /\ p[2] \in DOMAIN file[p[1]].subs
      BY DEF NamesBefore, Names
    <2> QED
      BY <1>2, <2>1
  <1>4. CASE Between
    BY <1>1, <1>3, <1>4 DEF IInv, TypeOK, Between
  <1>5. CASE AmongNames
    <2>1. PICK k \in Names, n \in 0 .. NamesRead :
            /\ next = <<k + 1, 0>> /\ position = AfterReading(k, n) /\ position[1] <= Len(file) + 1
            /\ named = NamesBefore(k) \cup NamesAmong(k, n)
      <3>1. toRead \in 0 .. 3 /\ NamesRead = 3
        BY DEF IInv, NamesRead
      <3>2. NamesRead - toRead \in 0 .. NamesRead
        BY <3>1
      <3> QED
        BY <1>5, <3>2 DEF AmongNames
    <2>2. /\ k \in DOMAIN file /\ k \in 1 .. Len(file) /\ Len(file) \in Nat /\ NumSubs(k) \in Nat /\ n \in Nat
          /\ DOMAIN file[k].subs = 1 .. NumSubs(k)
      BY FileTypes DEF NamesRead
    <2>3. Fine(position)
      <3>1. CASE n < NumSubs(k)
        BY <1>2, <2>1, <2>2, <3>1 DEF AfterReading
      <3>2. CASE ~(n < NumSubs(k))
        BY <1>1, <2>1, <2>2, <3>2 DEF AfterReading
      <3> QED
        BY <3>1, <3>2
    <2>4. \A p \in NamesAmong(k, n) : Fine(p)
      <3> SUFFICES ASSUME NEW p \in NamesAmong(k, n)
                   PROVE  Fine(p)
        OBVIOUS
      <3>1. p = <<k, p[2]>> /\ p[2] \in DOMAIN file[k].subs
        BY DEF NamesAmong
      <3> QED
        BY <1>2, <2>2, <3>1
    <2>5. Fine(next) /\ \A p \in NamesBefore(k) : Fine(p)
      BY <1>1, <1>3, <2>1, <2>2
    <2> QED
      BY <2>1, <2>3, <2>4, <2>5 DEF IInv, TypeOK
  <1> QED
    BY <1>4, <1>5 DEF IInv

\* Every position in a file of any length is the beginning of a section or of a
\* subsection, or the end.
THEOREM TypeCorrect == Spec => []TypeOK
  BY PositionsFine, Invariance, PTL

\* Whatever the name section has, the loop goes from each section to the one
\* after it, and reads none from its middle.
THEOREM SectionsAligned == Spec => Aligned
  <1>1. IInv /\ [Next]_vars => [stage = "sections" => /\ position = next
                                                      /\ stage' # "read" => next' = <<position[1] + 1, 0>>]_vars
    <2> SUFFICES ASSUME IInv, Next, stage = "sections"
                 PROVE  position = next /\ (stage' # "read" => next' = <<position[1] + 1, 0>>)
      BY DEF vars
    <2>1. PICK k \in 1 .. Len(file) + 1 : position = <<k, 0>> /\ next = <<k, 0>>
      BY DEF IInv, Between
    <2>2. ReadSection \/ ReadNameSection \/ ReadToEnd
      BY DEF Next, ReadSubsection, AfterNames, Ended
    <2> QED
      BY <2>1, <2>2 DEF ReadSection, ReadNameSection, ReadToEnd, Behind
  <1> QED
    BY <1>1, Invariance, PTL DEF Spec, Aligned

\* At the end of the file all names have been taken, by the invariant.
LEMMA AllNamesTaken == IInv => NamesFound
  <1> SUFFICES ASSUME IInv, stage = "read"
               PROVE  named = UNION {{<<k, j>> : j \in {j \in DOMAIN file[k].subs : file[k].subs[j] = FunctionNames}}
                                       : k \in Names}
    BY DEF NamesFound
  <1>1. named = NamesBefore(Len(file) + 1)
    BY DEF IInv, Between
  <1>2. \A k \in DOMAIN file : \A j \in DOMAIN file[k].subs : j \in Nat
    BY FileTypes
  <1>3. Names \subseteq DOMAIN file /\ Names \subseteq 1 .. Len(file) + 1 - 1
    BY FileTypes DEF Names
  <1> QED
    BY <1>1, <1>2, <1>3 DEF NamesBefore

\* When the file has been read, the function names are those of the subsection
\* that has them, and nothing else was taken for it.
THEOREM FunctionNamesFound == Spec => []NamesFound
  BY AllNamesTaken, Invariance, PTL

\* Where the invariant lets the reader be refused, too few are left.
LEMMA ShortWhenRefused == IInv => RefusedOnlyShort
  <1> SUFFICES ASSUME IInv, stage = "refused"
               PROVE  \E k \in Names : NumSubs(k) + (Len(file) - k) < NamesRead
    BY DEF RefusedOnlyShort
  <1>1. PICK k \in Names : /\ position = AfterReading(k, NamesRead - toRead)
                           /\ toRead > 0 /\ AtEnd(position)
    BY DEF IInv, AmongNames
  <1>2. k \in 1 .. Len(file) /\ Len(file) \in Nat /\ NumSubs(k) \in Nat
    BY FileTypes
  <1>3. PICK n \in Int : n = NamesRead - toRead /\ n < NamesRead
    <2>1. toRead \in 0 .. 3 /\ NamesRead = 3
      BY DEF IInv, NamesRead
    <2>1a. toRead > 0
      BY <1>1
    <2>2. NamesRead - toRead \in Int /\ NamesRead - toRead < NamesRead
      BY <2>1, <2>1a DEF NamesRead
    <2> QED
      BY <2>2
  <1>4. CASE n < NumSubs(k)
    <2>1. position = <<k, n + 1>>
      BY <1>1, <1>3, <1>4 DEF AfterReading
    <2>2. k > Len(file)
      BY <1>1, <2>1 DEF AtEnd
    <2> QED
      BY <1>2, <2>2
  <1>5. CASE ~(n < NumSubs(k))
    <2>1. k + 1 + n - NumSubs(k) > Len(file)
      <3>1. position = <<k + 1 + n - NumSubs(k), 0>>
        BY <1>1, <1>3, <1>5 DEF AfterReading
      <3> QED
        BY <1>1, <3>1 DEF AtEnd
    <2>2. NamesRead \in Int
      BY DEF NamesRead
    <2> QED
      BY <1>2, <1>3, <2>1, <2>2
  <1> QED
    BY <1>4, <1>5

\* A file is refused only when the name section and what follows it are fewer
\* than the three subsections the code reads.
THEOREM RefusedWhenShort == Spec => []RefusedOnlyShort
  BY ShortWhenRefused, Invariance, PTL

===============================================================================

--------------------------- MODULE ReviewTextProofs ---------------------------
(***************************************************************************)
(* What the passes over diffs and answers give, for texts of any length,   *)
(* any rules, patterns and paths.  A text grows by one line per step, so   *)
(* what a pass has computed so far is an invariant of the growing text.    *)
(***************************************************************************)
EXTENDS ReviewText, EnumerationProofs, FiniteSetTheorems

\* Types of the texts.  A diff begins with a git line.
TextInv ==
    /\ diff \in Seq(DiffLines) /\ Len(diff) <= MaxDiff
    /\ answer \in Seq(AnswerLines) /\ Len(answer) <= MaxAnswer
    /\ diff # << >> => diff[1].kind = "git"

LEMMA LineFields ==
    ASSUME NEW l \in DiffLines
    PROVE  /\ l.kind = "git" => l \in GitLines /\ l.path \in Paths
                                /\ ExtractFilePath(l) \in STRING
                                /\ ExtractFilePath(l) # NoFile
           /\ l.kind = "hunk" => l.start \in Nat \cup {NoStart}
           /\ l.kind \in {"add", "del"} => l.text \in Texts
           /\ l.kind \in {"git", "hunk", "add", "del", "index", "---", "+++",
                          "context", "no newline"}
<1> USE DiffAssumption DEF DiffLines, GitLines, HunkLines, ChangedLines, OtherLines
<1>1. CASE l \in GitLines
  <2>1. l.kind = "git" /\ l.path \in Paths  BY <1>1
  <2>2. FirstWord[l.path] \in STRING  BY <2>1, DiffAssumption
  <2>3. FirstWord[l.path] # NoFile
    <3> HIDE DEF DiffLines, GitLines, HunkLines, ChangedLines, OtherLines
    <3> QED  BY <2>2, DiffAssumption, Zenon
  <2> QED  BY <1>1, <2>1, <2>2, <2>3 DEF ExtractFilePath
<1>2. CASE l \in HunkLines  BY <1>2
<1>3. CASE l \in ChangedLines  BY <1>3
<1>4. CASE l \in OtherLines  BY <1>4
<1> QED  BY <1>1, <1>2, <1>3, <1>4

\* A line more leaves the lines before as they are.
LEMMA AppendLine ==
    ASSUME NEW S, NEW d \in Seq(S), NEW l \in S
    PROVE  /\ Append(d, l) \in Seq(S)
           /\ Len(Append(d, l)) = Len(d) + 1
           /\ Append(d, l)[Len(d) + 1] = l
           /\ \A i \in 1 .. Len(d) : Append(d, l)[i] = d[i]
           /\ Append(d, l) # << >>
           /\ Len(d) \in Nat
  OBVIOUS

LEMMA TextInit == Init => TextInv
  BY BoundsAssumption DEF Init, TextInv

LEMMA TextNext == TextInv /\ [Next]_vars => TextInv'
<1> SUFFICES ASSUME TextInv, [Next]_vars PROVE TextInv'  OBVIOUS
<1> USE DEF TextInv
<1>1. ASSUME NEW l \in DiffLines, ReadDiffLine(l) PROVE TextInv'
  <2>1. diff' = Append(diff, l) /\ answer' = answer /\ Len(diff) < MaxDiff
    BY <1>1 DEF ReadDiffLine
  <2>2. diff' \in Seq(DiffLines) /\ Len(diff') = Len(diff) + 1 /\ Len(diff) \in Nat
        /\ diff'[Len(diff) + 1] = l /\ \A i \in 1 .. Len(diff) : diff'[i] = diff[i]
    BY <2>1, AppendLine
  <2>3. diff = << >> => l.kind = "git"
    <3>1. Follows(diff, l)  BY <1>1 DEF ReadDiffLine
    <3> QED  BY <3>1, LineFields DEF Follows, InBody
  <2>4. diff'[1].kind = "git"  BY <2>2, <2>3
  <2> QED  BY <2>1, <2>2, <2>4, BoundsAssumption
<1>2. ASSUME NEW l \in AnswerLines, ReadAnswerLine(l) PROVE TextInv'
  BY <1>2, BoundsAssumption DEF ReadAnswerLine
<1>3. CASE UNCHANGED vars  BY <1>3 DEF vars
<1> QED  BY <1>1, <1>2, <1>3 DEF Next

THEOREM TextHolds == Spec => []TextInv
<1> QED  BY TextInit, TextNext, PTL DEF Spec
-------------------------------------------------------------------------------
(* Where a line belongs *)

PathIn(d, i) == ExtractFilePath(d[FileOf(d, i)])

\* The last line up to i of a kind: what FileOf and HunkOf choose.
LastOf(kind, d, i, j) ==
    /\ j \in 1 .. i /\ d[j].kind = kind
    /\ \A k \in j + 1 .. i : d[k].kind # kind

LEMMA LastUnique ==
    ASSUME NEW kind, NEW d, NEW i \in Nat, NEW j, NEW k,
           LastOf(kind, d, i, j), LastOf(kind, d, i, k)
    PROVE  j = k
  BY DEF LastOf

LEMMA LastExists ==
    ASSUME NEW kind, NEW d, NEW i \in Nat, NEW n \in 1 .. i, d[n].kind = kind
    PROVE  \E j \in 1 .. i : LastOf(kind, d, i, j)
<1> DEFINE T == {k \in 1 .. i : d[k].kind = kind}
<1>1. n \in T /\ T \in SUBSET (1 .. i)  OBVIOUS
<1>2. PICK j \in T : \A k \in T : k <= j
  <2> HIDE DEF T
  <2> QED  BY <1>1, GreatestNumber
<1>3. \A k \in j + 1 .. i : k \in 1 .. i /\ ~ (k <= j)  BY <1>1
<1> QED  BY <1>2, <1>3 DEF LastOf

LEMMA FileOfIs ==
    ASSUME NEW d, NEW i \in Nat, NEW j, LastOf("git", d, i, j)
    PROVE  FileOf(d, i) = j
<1>1. FileOf(d, i) = CHOOSE k \in 1 .. i : LastOf("git", d, i, k)  BY DEF FileOf, LastOf
<1>2. j \in 1 .. i /\ \A k \in 1 .. i : LastOf("git", d, i, k) => k = j
  BY LastUnique DEF LastOf
<1> QED  BY <1>1, <1>2

LEMMA HunkOfIs ==
    ASSUME NEW d, NEW i \in Nat, NEW j, LastOf("hunk", d, i, j)
    PROVE  HunkOf(d, i) = j
<1>1. HunkOf(d, i) = CHOOSE k \in 1 .. i : LastOf("hunk", d, i, k)  BY DEF HunkOf, LastOf
<1>2. j \in 1 .. i /\ \A k \in 1 .. i : LastOf("hunk", d, i, k) => k = j
  BY LastUnique DEF LastOf
<1> QED  BY <1>1, <1>2

\* Every line of a diff has a file, which later lines do not change.
LEMMA FileOfExists ==
    ASSUME NEW d \in Seq(DiffLines), d # << >> => d[1].kind = "git", NEW i \in 1 .. Len(d)
    PROVE  LastOf("git", d, i, FileOf(d, i))
<1>1. 1 \in 1 .. i /\ i \in Nat /\ d[1].kind = "git"  OBVIOUS
<1>2. PICK j \in 1 .. i : LastOf("git", d, i, j)  BY <1>1, LastExists
<1> QED  BY <1>1, <1>2, FileOfIs

LEMMA LastStable ==
    ASSUME NEW kind, NEW S, NEW d \in Seq(S), NEW l \in S, NEW i \in 0 .. Len(d),
           NEW j, LastOf(kind, d, i, j)
    PROVE  LastOf(kind, Append(d, l), i, j)
  BY AppendLine DEF LastOf

LEMMA LastNext ==
    ASSUME NEW kind, NEW S, NEW d \in Seq(S), NEW l \in S
    PROVE  /\ l.kind = kind => LastOf(kind, Append(d, l), Len(d) + 1, Len(d) + 1)
           /\ \A j : l.kind # kind /\ LastOf(kind, d, Len(d), j)
                     => LastOf(kind, Append(d, l), Len(d) + 1, j)
<1> DEFINE e == Append(d, l)
<1>1. /\ e[Len(d) + 1] = l /\ Len(d) \in Nat
      /\ \A i \in 1 .. Len(d) : e[i] = d[i]
  BY AppendLine
<1> HIDE DEF e
<1> QED  BY <1>1 DEF LastOf

LEMMA FileStable ==
    ASSUME NEW d \in Seq(DiffLines), d # << >> => d[1].kind = "git",
           NEW l \in DiffLines, NEW i \in 1 .. Len(d)
    PROVE  /\ FileOf(Append(d, l), i) = FileOf(d, i)
           /\ PathIn(Append(d, l), i) = PathIn(d, i)
<1>1. LastOf("git", d, i, FileOf(d, i))  BY FileOfExists
<1>2. i \in Nat /\ i \in 0 .. Len(d)  OBVIOUS
<1>3. LastOf("git", Append(d, l), i, FileOf(d, i))  BY <1>1, <1>2, LastStable
<1>4. FileOf(Append(d, l), i) = FileOf(d, i)  BY <1>2, <1>3, FileOfIs
<1>5. FileOf(d, i) \in 1 .. Len(d)  BY <1>1, <1>2 DEF LastOf
<1> QED  BY <1>4, <1>5, AppendLine DEF PathIn

LEMMA FileNext ==
    ASSUME NEW d \in Seq(DiffLines), NEW l \in DiffLines,
           IF d = << >> THEN l.kind = "git" ELSE d[1].kind = "git"
    PROVE  PathIn(Append(d, l), Len(d) + 1)
               = IF l.kind = "git" THEN ExtractFilePath(l) ELSE PathIn(d, Len(d))
<1> DEFINE e == Append(d, l)
<1>0. /\ Len(d) \in Nat /\ Len(d) + 1 \in Nat /\ e[Len(d) + 1] = l
      /\ \A i \in 1 .. Len(d) : e[i] = d[i]
  BY AppendLine
<1> HIDE DEF e
<1>1. CASE l.kind = "git"
  <2>1. LastOf("git", e, Len(d) + 1, Len(d) + 1)  BY <1>1, LastNext DEF e
  <2>2. FileOf(e, Len(d) + 1) = Len(d) + 1  BY <2>1, <1>0, FileOfIs
  <2> QED  BY <2>2, <1>0, <1>1 DEF PathIn, e
<1>2. CASE l.kind # "git"
  <2>1. Len(d) \in 1 .. Len(d)  BY <1>2, <1>0
  <2>2. LastOf("git", d, Len(d), FileOf(d, Len(d)))  BY <2>1, <1>2, FileOfExists
  <2>3. LastOf("git", e, Len(d) + 1, FileOf(d, Len(d)))  BY <2>2, <1>2, LastNext DEF e
  <2>4. FileOf(e, Len(d) + 1) = FileOf(d, Len(d))  BY <2>3, <1>0, FileOfIs
  <2>5. FileOf(d, Len(d)) \in 1 .. Len(d)  BY <2>2 DEF LastOf
  <2> QED  BY <2>4, <2>5, <1>0, <1>2 DEF PathIn, e
<1> QED  BY <1>1, <1>2
-------------------------------------------------------------------------------
(* The diff filter *)

\* The file in hand is that of the last line, and what flushing it now would
\* give is what FilterKeepsWholeFiles says.
FilterInv ==
    /\ filter \in [result : Seq(DiffLines), file : STRING \cup {NoFile},
                   skip : BOOLEAN, hunk : Seq(DiffLines)]
    /\ diff = << >> => filter = FilterStart
    /\ diff # << >> => /\ filter.file = PathAt(Len(diff)) /\ filter.file # NoFile
                       /\ filter.skip = ShouldSkip(PathAt(Len(diff)))
    /\ FilterKeepsWholeFiles

LEMMA PickedNext ==
    ASSUME NEW d \in Seq(DiffLines), NEW l \in DiffLines,
           NEW s \in Seq(Nat), \A k \in 1 .. Len(s) : s[k] \in 1 .. Len(d),
           NEW e, e = Append(d, l), NEW a, a = Append(s, Len(d) + 1)
    PROVE  /\ [k \in 1 .. Len(a) |-> e[a[k]]] = Append([k \in 1 .. Len(s) |-> d[s[k]]], l)
           /\ [k \in 1 .. Len(s) |-> e[s[k]]] = [k \in 1 .. Len(s) |-> d[s[k]]]
<1> DEFINE p == [k \in 1 .. Len(s) |-> d[s[k]]]
<1>1. /\ e[Len(d) + 1] = l /\ Len(d) \in Nat
      /\ \A i \in 1 .. Len(d) : e[i] = d[i] /\ d[i] \in DiffLines
  BY AppendLine
<1>2. /\ Len(a) = Len(s) + 1 /\ a[Len(s) + 1] = Len(d) + 1 /\ Len(s) \in Nat
      /\ \A i \in 1 .. Len(s) : a[i] = s[i]
  BY <1>1
<1>3. p \in Seq(DiffLines) /\ Len(p) = Len(s)  BY <1>1, <1>2
<1>4. /\ Append(p, l) \in Seq(DiffLines) /\ Len(Append(p, l)) = Len(s) + 1
      /\ Append(p, l)[Len(s) + 1] = l
      /\ \A i \in 1 .. Len(s) : Append(p, l)[i] = p[i]
  BY <1>3, AppendLine
<1>5. Append(p, l) = [k \in 1 .. Len(s) + 1 |-> Append(p, l)[k]]  BY <1>4
<1>6. \A k \in 1 .. Len(s) : p[k] = d[s[k]] /\ e[s[k]] = d[s[k]]  BY <1>1
<1>7. \A k \in 1 .. Len(s) + 1 : k \in 1 .. Len(s) \/ k = Len(s) + 1  BY <1>2
<1> HIDE DEF p
<1>8. \A k \in 1 .. Len(s) + 1 : Append(p, l)[k] = e[a[k]]
  BY <1>1, <1>2, <1>4, <1>6, <1>7
<1>9. [k \in 1 .. Len(a) |-> e[a[k]]] = Append(p, l)  BY <1>2, <1>5, <1>8
<1>10. [k \in 1 .. Len(s) |-> e[s[k]]] = p  BY <1>6 DEF p
<1> QED  BY <1>9, <1>10 DEF p

LEMMA ConcatAppend ==
    ASSUME NEW S, NEW s \in Seq(S), NEW t \in Seq(S), NEW x \in S
    PROVE  s \o Append(t, x) = Append(s \o t, x)
  OBVIOUS

\* The result of the filter grows by the line, or not at all.
LEMMA FlushNext ==
    ASSUME FilterInv, TextInv, NEW l \in DiffLines, diff = << >> => l.kind = "git",
           NEW path,
           path = IF l.kind = "git" THEN ExtractFilePath(l) ELSE PathIn(diff, Len(diff))
    PROVE  /\ Flush(FilterLine(filter, l))
                 = IF ShouldSkip(path) THEN Flush(filter) ELSE Append(Flush(filter), l)
           /\ FilterLine(filter, l).file = path
           /\ FilterLine(filter, l).skip = ShouldSkip(path)
           /\ path # NoFile
           /\ Flush(filter) \in Seq(DiffLines)
           /\ FilterLine(filter, l) \in
                 [result : Seq(DiffLines), file : STRING \cup {NoFile},
                  skip : BOOLEAN, hunk : Seq(DiffLines)]
<1> DEFINE T == [result : Seq(DiffLines), file : STRING \cup {NoFile},
                 skip : BOOLEAN, hunk : Seq(DiffLines)]
<1>1. filter \in T  BY DEF FilterInv
<1>2. Flush(filter) \in Seq(DiffLines)  BY <1>1 DEF Flush
<1>3. \A p : ShouldSkip(p) \in BOOLEAN  BY DEF ShouldSkip
<1>4. CASE l.kind = "git"
  <2> DEFINE g == [result |-> Flush(filter), file |-> path,
                   skip |-> ShouldSkip(path), hunk |-> <<l>>]
  <2>0. path = ExtractFilePath(l)  BY <1>4
  <2>1. FilterLine(filter, l) = g  BY <1>4, <2>0 DEF FilterLine
  <2>2. path \in STRING /\ path # NoFile  BY <1>4, <2>0, LineFields
  <2>3. g \in T  BY <1>2, <1>3, <2>2
  <2>4. Flush(filter) \o <<l>> = Append(Flush(filter), l)  BY <1>2
  <2>5. Flush(g) = IF ShouldSkip(path) THEN Flush(filter) ELSE Flush(filter) \o <<l>>
    <3>1. g.result = Flush(filter) /\ g.hunk = <<l>> /\ g.file = path
          /\ g.skip = ShouldSkip(path)  OBVIOUS
    <3> HIDE DEF g
    <3> QED  BY <3>1, <2>2, Zenon DEF Flush
  <2>6. g.file = path /\ g.skip = ShouldSkip(path)  OBVIOUS
  <2> HIDE DEF g
  <2> QED  BY <1>2, <2>1, <2>2, <2>3, <2>4, <2>5, <2>6
<1>5. CASE l.kind # "git"
  <2> DEFINE g == [filter EXCEPT !.hunk = Append(filter.hunk, l)]
  <2>0. path = PathIn(diff, Len(diff))  BY <1>5
  <2>1. FilterLine(filter, l) = g  BY <1>5 DEF FilterLine
  <2>2. diff # << >>  BY <1>5
  <2>3. filter.file = path /\ filter.file # NoFile /\ filter.skip = ShouldSkip(path)
    BY <2>0, <2>2 DEF FilterInv, PathAt, PathIn
  <2>4. g \in T  BY <1>1
  <2>5. /\ g.result = filter.result /\ g.file = filter.file /\ g.skip = filter.skip
        /\ g.hunk = Append(filter.hunk, l)
    BY <1>1
  <2>6. filter.result \o Append(filter.hunk, l) = Append(filter.result \o filter.hunk, l)
    BY <1>1, ConcatAppend
  <2>7. Flush(g) = IF ShouldSkip(path) THEN Flush(filter) ELSE Append(Flush(filter), l)
    <3> HIDE DEF g
    <3> QED  BY <2>3, <2>5, <2>6, Zenon DEF Flush
  <2> HIDE DEF g
  <2> QED  BY <1>2, <2>1, <2>3, <2>4, <2>5, <2>7
<1> QED  BY <1>4, <1>5

Kept == {i \in 1 .. Len(diff) : ~ ShouldSkip(PathAt(i))}

LEMMA KeptNext ==
    ASSUME TextInv, NEW l \in DiffLines, ReadDiffLine(l)
    PROVE  /\ PathIn(diff', Len(diff)') = IF l.kind = "git" THEN ExtractFilePath(l)
                                                          ELSE PathIn(diff, Len(diff))
           /\ Kept' = IF ShouldSkip(PathIn(diff', Len(diff)')) THEN Kept
                                                              ELSE Kept \cup {Len(diff) + 1}
           /\ \A i \in 1 .. Len(diff) : PathIn(diff', i) = PathIn(diff, i)
           /\ Len(diff)' = Len(diff) + 1 /\ Len(diff) \in Nat /\ Len(diff) < MaxDiff
           /\ diff' = Append(diff, l) /\ (diff = << >> => l.kind = "git")
<1>1. diff' = Append(diff, l) /\ diff \in Seq(DiffLines) /\ Len(diff) < MaxDiff
  BY DEF ReadDiffLine, TextInv
<1>2. Len(diff)' = Len(diff) + 1 /\ Len(diff) \in Nat  BY <1>1, AppendLine
<1>3. IF diff = << >> THEN l.kind = "git" ELSE diff[1].kind = "git"
  <2>1. Follows(diff, l)  BY DEF ReadDiffLine
  <2> QED  BY <2>1, LineFields DEF Follows, InBody, TextInv
<1>4. PathIn(diff', Len(diff)') = IF l.kind = "git" THEN ExtractFilePath(l)
                                                   ELSE PathIn(diff, Len(diff))
  BY <1>1, <1>2, <1>3, FileNext
<1>5. \A i \in 1 .. Len(diff) : PathIn(diff', i) = PathIn(diff, i)
  BY <1>1, <1>3, FileStable
<1>6. Kept = {i \in 1 .. Len(diff) : ~ ShouldSkip(PathIn(diff, i))}
  BY DEF Kept, PathAt, PathIn
<1>7. Kept' = {i \in 1 .. Len(diff) + 1 : ~ ShouldSkip(PathIn(diff', i))}
  BY <1>2 DEF Kept, PathAt, PathIn
<1>8. \A i : i \in 1 .. Len(diff) + 1 <=> i \in 1 .. Len(diff) \/ i = Len(diff) + 1
  BY <1>2
<1> QED  BY <1>1, <1>2, <1>3, <1>4, <1>5, <1>6, <1>7, <1>8

LEMMA FilterInit == Init => FilterInv
<1> SUFFICES ASSUME Init PROVE FilterInv  OBVIOUS
<1>1. diff = << >> /\ filter = FilterStart  BY DEF Init
<1>2. Kept = {}  BY <1>1 DEF Kept
<1>3. InOrder(Kept) = << >>  BY <1>2, AscendingEmpty, BoundsAssumption DEF InOrder
<1>4. FilterDiff = << >>  BY <1>1 DEF FilterDiff, Flush, FilterStart
<1>5. FilterKeepsWholeFiles
  <2> DEFINE s == InOrder(Kept)
  <2>1. FilterDiff = [k \in 1 .. Len(s) |-> diff[s[k]]]
    <3>1. s = << >>  BY <1>3
    <3> HIDE DEF s
    <3> QED  BY <1>4, <3>1
  <2> QED  BY <2>1 DEF FilterKeepsWholeFiles, Kept
<1> QED  BY <1>1, <1>5 DEF FilterInv, FilterStart

LEMMA FilterNext == FilterInv /\ TextInv /\ [Next]_vars => FilterInv'
<1> SUFFICES ASSUME FilterInv, TextInv, [Next]_vars PROVE FilterInv'  OBVIOUS
<1>1. ASSUME NEW l \in DiffLines, ReadDiffLine(l) PROVE FilterInv'
  <2> DEFINE path == PathIn(diff', Len(diff)')
  <2>1. /\ path = IF l.kind = "git" THEN ExtractFilePath(l) ELSE PathIn(diff, Len(diff))
        /\ Kept' = IF ShouldSkip(path) THEN Kept ELSE Kept \cup {Len(diff) + 1}
        /\ Len(diff)' = Len(diff) + 1 /\ Len(diff) \in Nat /\ Len(diff) < MaxDiff
        /\ diff' = Append(diff, l) /\ (diff = << >> => l.kind = "git")
    BY <1>1, KeptNext
  <2>2. filter' = FilterLine(filter, l)  BY <1>1 DEF ReadDiffLine
  <2> HIDE DEF path
  <2>3. /\ Flush(filter') = IF ShouldSkip(path) THEN Flush(filter) ELSE Append(Flush(filter), l)
        /\ filter'.file = path /\ filter'.skip = ShouldSkip(path) /\ path # NoFile
        /\ filter' \in [result : Seq(DiffLines), file : STRING \cup {NoFile},
                        skip : BOOLEAN, hunk : Seq(DiffLines)]
    BY <2>1, <2>2, FlushNext
  <2>4. PathAt(Len(diff))' = path  BY DEF PathAt, PathIn, path
  <2>5. FilterKeepsWholeFiles'
    <3> DEFINE s == InOrder(Kept)
               N == MaxDiff + MaxAnswer
    <3>1. Flush(filter) = [k \in 1 .. Len(s) |-> diff[s[k]]]
      BY DEF FilterInv, FilterKeepsWholeFiles, FilterDiff, Kept
    <3>2. Kept \in SUBSET (1 .. N) /\ N \in Nat /\ Len(diff) + 1 \in 1 .. N
          /\ Kept \in SUBSET (1 .. (Len(diff) + 1) - 1)
      <4>1. Kept \in SUBSET (1 .. Len(diff))  BY DEF Kept
      <4> HIDE DEF path
      <4> QED  BY <4>1, <2>1, BoundsAssumption
    <3>3. s \in Seq(Nat) /\ \A k \in 1 .. Len(s) : s[k] \in 1 .. Len(diff)
      BY <3>2, AscendingOf DEF InOrder, Kept
    <3>4. InOrder(Kept \cup {Len(diff) + 1}) = Append(s, Len(diff) + 1)
      <4> HIDE DEF N
      <4> QED  BY <3>2, AscendingNext DEF InOrder, N
    <3> DEFINE a == Append(s, Len(diff) + 1)
    <3> HIDE DEF s
    <3>5. /\ [k \in 1 .. Len(a) |-> diff'[a[k]]] = Append([k \in 1 .. Len(s) |-> diff[s[k]]], l)
          /\ [k \in 1 .. Len(s) |-> diff'[s[k]]] = [k \in 1 .. Len(s) |-> diff[s[k]]]
      <4>1. diff' = Append(diff, l) /\ a = Append(s, Len(diff) + 1) /\ diff \in Seq(DiffLines)
        BY <2>1 DEF TextInv
      <4> HIDE DEF a
      <4> QED  BY <4>1, <3>3, PickedNext
    <3> HIDE DEF a
    <3>6. CASE ShouldSkip(path)
      <4>1. InOrder(Kept') = s  BY <3>6, <2>1 DEF s
      <4>2. Flush(filter') = [k \in 1 .. Len(s) |-> diff'[s[k]]]  BY <3>6, <2>3, <3>1, <3>5
      <4> QED  BY <4>1, <4>2 DEF FilterKeepsWholeFiles, FilterDiff, Kept
    <3>7. CASE ~ ShouldSkip(path)
      <4>1. InOrder(Kept') = a  BY <3>7, <2>1, <3>4 DEF a
      <4>2. Flush(filter') = [k \in 1 .. Len(a) |-> diff'[a[k]]]  BY <3>7, <2>3, <3>1, <3>5
      <4> QED  BY <4>1, <4>2 DEF FilterKeepsWholeFiles, FilterDiff, Kept
    <3> QED  BY <3>6, <3>7
  <2>6. diff' # << >>  BY <2>1, AppendLine DEF TextInv
  <2> QED  BY <2>3, <2>4, <2>5, <2>6 DEF FilterInv
<1>2. ASSUME UNCHANGED <<diff, filter>> PROVE FilterInv'
  BY <1>2 DEF FilterInv, FilterKeepsWholeFiles, FilterDiff, PathAt
<1>3. ASSUME NEW l \in AnswerLines, ReadAnswerLine(l) PROVE FilterInv'
  BY <1>2, <1>3 DEF ReadAnswerLine
<1>4. CASE UNCHANGED vars  BY <1>2, <1>4 DEF vars
<1> QED  BY <1>1, <1>3, <1>4 DEF Next

\* The filter drops whole files and nothing else, whatever the diff, the
\* patterns and the paths are: a line stays exactly if its file stays, once
\* and in its place (diff_filter.rs:122-155).
THEOREM FilterKeepsWholeFilesHolds == Spec => []FilterKeepsWholeFiles
<1>1. FilterInv => FilterKeepsWholeFiles  BY DEF FilterInv
<1> QED  BY <1>1, TextInit, TextNext, FilterInit, FilterNext, PTL DEF Spec

\* What is left after the filter, by its line numbers in the diff.
LEMMA LeftLines ==
    ASSUME FilterInv, TextInv
    PROVE  LET s == InOrder(Kept)
           IN  /\ FilterDiff = [k \in 1 .. Len(s) |-> diff[s[k]]]
               /\ Enumerates(s, Kept) /\ s \in Seq(Nat) /\ Len(FilterDiff) = Len(s)
<1> DEFINE s == InOrder(Kept)
<1>1. FilterDiff = [k \in 1 .. Len(s) |-> diff[s[k]]]
  BY DEF FilterInv, FilterKeepsWholeFiles, Kept
<1>2. Kept \in SUBSET (1 .. MaxDiff + MaxAnswer) /\ MaxDiff + MaxAnswer \in Nat
  BY BoundsAssumption DEF TextInv, Kept
<1>3. Enumerates(s, Kept)  BY <1>2, AscendingOf DEF InOrder
<1>4. s \in Seq(Nat)  BY <1>3 DEF Enumerates
<1> QED  BY <1>1, <1>3, <1>4

LEMMA OverlooksNothingElse ==
    ASSUME FilterInv, TextInv, NEW config \in Configs, IsTrivial(FilterDiff, config),
           NEW i \in Changed, diff[i].text # "blank", ~ HeaderLike(diff[i]),
           ~ ShouldSkip(PathAt(i))
    PROVE  PathAt(i) \in Lockfiles \cup DocFiles
<1> DEFINE s == InOrder(Kept)
           D == FilterDiff
           g == FileOf(diff, i)
<1>0. i \in 1 .. Len(diff) /\ diff[i].kind \in {"add", "del"}  BY DEF Changed
<1>1. D = [k \in 1 .. Len(s) |-> diff[s[k]]] /\ Enumerates(s, Kept)
      /\ s \in Seq(Nat) /\ Len(D) = Len(s)
  BY LeftLines
<1>4. LastOf("git", diff, i, g)  BY <1>0, FileOfExists DEF TextInv
<1>5. g \in 1 .. i /\ i \in Nat /\ diff[g].kind = "git" /\ g \in 1 .. Len(diff)
  BY <1>0, <1>4 DEF LastOf
<1>6. LastOf("git", diff, g, g)  BY <1>5 DEF LastOf
<1>7. FileOf(diff, g) = g  BY <1>5, <1>6, FileOfIs
<1>8. PathAt(g) = PathAt(i) /\ PathAt(i) = ExtractFilePath(diff[g])  BY <1>7 DEF PathAt
<1>9. i \in Kept /\ g \in Kept  BY <1>0, <1>5, <1>8 DEF Kept
<1>10. PICK k \in 1 .. Len(s), n \in 1 .. Len(s) : s[k] = i /\ s[n] = g
  BY <1>1, <1>9 DEF Enumerates
<1>12. D[k] = diff[i] /\ D[n] = diff[g] /\ k \in 1 .. Len(D) /\ n \in 1 .. Len(D)
  BY <1>1, <1>10
<1> HIDE DEF D, s, g
<1>13. D # << >>  BY <1>12
<1>14. ~ IsWhitespaceOnly(D)
  <2>1. IsChange(diff[i])
    BY <1>0 DEF IsChange, StartsWithPlus3, StartsWithMinus3, HeaderLike
  <2> QED  BY <1>12, <2>1 DEF IsWhitespaceOnly, Indices
<1>15. ASSUME NEW files, NamesOnly(D, files) PROVE PathAt(i) \in files
  BY <1>15, <1>12, <1>5, <1>8 DEF NamesOnly, Indices
<1> QED  BY <1>13, <1>14, <1>15 DEF IsTrivial, D

LEMMA OverlooksHeaderLike ==
    ASSUME FilterInv, TextInv, NEW config \in Configs, config.skip_whitespace,
           NEW left,
           left = {i \in Changed : ~ ShouldSkip(PathAt(i)) /\ ~ HeaderLike(diff[i])},
           left # {}, \A i \in left : diff[i].text = "blank"
    PROVE  IsTrivial(FilterDiff, config)
<1> DEFINE s == InOrder(Kept)
           D == FilterDiff
<1>1. D = [k \in 1 .. Len(s) |-> diff[s[k]]] /\ Enumerates(s, Kept)
      /\ s \in Seq(Nat) /\ Len(D) = Len(s)
  BY LeftLines
<1>2. ASSUME NEW j \in 1 .. Len(D), IsChange(D[j]) PROVE D[j].text = "blank"
  <2>1. D[j] = diff[s[j]] /\ s[j] \in Kept  BY <1>1 DEF Enumerates
  <2>2. s[j] \in left
    BY <1>2, <2>1 DEF Kept, Changed, HeaderLike, IsChange, StartsWithPlus3, StartsWithMinus3
  <2> QED  BY <2>1, <2>2
<1>3. PICK i \in left : TRUE  OBVIOUS
<1>4. i \in Kept /\ IsChange(diff[i])
  BY DEF Kept, Changed, HeaderLike, IsChange, StartsWithPlus3, StartsWithMinus3
<1>5. PICK k \in 1 .. Len(s) : s[k] = i  BY <1>1, <1>4 DEF Enumerates
<1>6. k \in 1 .. Len(D) /\ IsChange(D[k])  BY <1>1, <1>4, <1>5
<1> HIDE DEF D, s
<1>7. IsWhitespaceOnly(D)  BY <1>2, <1>6 DEF IsWhitespaceOnly, Indices
<1> QED  BY <1>7 DEF IsTrivial, D

\* What is approved unseen, for every diff that git may write and every setting
\* of the auto-approver: what the filter, or the lists of lockfiles and
\* documentation, exempt, blank lines, lines that look like a header and files
\* without a hunk, and nothing else (auto_approve.rs:35-148 on the result of
\* diff_filter.rs:122-155).
THEOREM TrivialHidesExactlyHolds == Spec => []TrivialHidesExactly
<1>1. FilterInv /\ TextInv => TrivialHidesExactly
  BY OverlooksNothingElse, OverlooksHeaderLike DEF TrivialHidesExactly
<1> QED  BY <1>1, TextInit, TextNext, FilterInit, FilterNext, PTL DEF Spec
-------------------------------------------------------------------------------
(* The rule engine *)

InHunkKinds == {"hunk", "context", "add", "del", "no newline"}
CountedKinds == {"context", "add", "no newline"}
Matches == [at : Nat, rule : Nat, file : STRING \cup {NoFile}, line : Nat]

\* The file in hand is that of the last line.
RulesFile ==
    /\ rules \in [file : STRING \cup {NoFile}, line : Nat, matches : Seq(Matches)]
    /\ diff = << >> => rules = RulesStart
    /\ diff # << >> => rules.file = PathAt(Len(diff))

\* In a hunk whose start is known the number in hand is that of the last line,
\* and one more for every marker since the header.
LineInHand(d, h, n) ==
    d[h].start + Cardinality({j \in h + 1 .. n : d[j].kind \in CountedKinds})
RulesLine ==
    diff # << >> /\ diff[Len(diff)].kind \in InHunkKinds =>
        \E h \in 1 .. Len(diff) :
            /\ LastOf("hunk", diff, Len(diff), h)
            /\ diff[h].start # NoStart => rules.line = LineInHand(diff, h, Len(diff))

\* Every match is in a hunk.
MatchHunks ==
    \A k \in 1 .. Len(rules.matches) :
        LET i == rules.matches[k].at
        IN  i \in 1 .. Len(diff) /\ LastOf("hunk", diff, i, HunkOf(diff, i))

RulesInv == RulesFile /\ MatchesAreAddedLines /\ RulesLine /\ MatchHunks /\ MatchLineIsOneTooHigh

LEMMA RulesInit == Init => RulesInv
<1> SUFFICES ASSUME Init PROVE RulesInv  OBVIOUS
<1>1. diff = << >> /\ rules = RulesStart  BY DEF Init
<1>2. rules.matches = << >>  BY <1>1 DEF RulesStart
<1>3. RulesFile  BY <1>1 DEF RulesFile, RulesStart
<1>4. MatchesAreAddedLines  BY <1>1, <1>2 DEF MatchesAreAddedLines
<1> QED  BY <1>1, <1>2, <1>3, <1>4 DEF RulesInv, RulesLine, MatchHunks, MatchLineIsOneTooHigh

\* An added line is tried with the rules; no other line makes a match.
Tried(l) == l.kind = "add" /\ ~ StartsWithPlus3(l)
Found(l) == {r \in 1 .. Len(Rules) : l.text \in Rules[r]}
NewMatches(l) ==
    LET found == Ascending(Found(l), Len(Rules))
    IN  [k \in 1 .. Len(found) |->
            [at |-> Len(diff) + 1, rule |-> found[k], file |-> rules.file,
             line |-> rules.line + 1]]

LEMMA CheckLineCases ==
    ASSUME RulesFile, NEW l \in DiffLines, diff \in Seq(DiffLines),
           NEW r, r = CheckLine(rules, Len(diff) + 1, l)
    PROVE  /\ r.matches = IF Tried(l) THEN rules.matches \o NewMatches(l) ELSE rules.matches
           /\ r.file = IF l.kind = "git" THEN ExtractFilePath(l) ELSE rules.file
           /\ l.kind = "hunk" => r.line = IF l.start = NoStart THEN rules.line ELSE l.start
           /\ l.kind \in CountedKinds => r.line = rules.line + 1
           /\ l.kind = "del" => r.line = rules.line
           /\ r \in [file : STRING \cup {NoFile}, line : Nat, matches : Seq(Matches)]
           /\ NewMatches(l) \in Seq(Matches)
<1> DEFINE T == [file : STRING \cup {NoFile}, line : Nat, matches : Seq(Matches)]
           found == Ascending(Found(l), Len(Rules))
<1>1. rules \in T  BY DEF RulesFile
<1>2. Len(Rules) \in Nat /\ Found(l) \in SUBSET (1 .. Len(Rules))
  BY RulesAssumption DEF Found
<1>3. found \in Seq(Nat)  BY <1>2, AscendingOf
<1> HIDE DEF found
<1>4. NewMatches(l) \in Seq(Matches)
  <2>1. rules.line + 1 \in Nat /\ rules.file \in STRING \cup {NoFile} /\ Len(diff) + 1 \in Nat
    BY <1>1
  <2>2. \A k \in 1 .. Len(found) : found[k] \in Nat  BY <1>3
  <2>3. \A k \in 1 .. Len(found) :
           [at |-> Len(diff) + 1, rule |-> found[k], file |-> rules.file,
            line |-> rules.line + 1] \in Matches
    BY <2>1, <2>2 DEF Matches
  <2>4. Len(found) \in Nat  BY <1>3
  <2> HIDE DEF Matches
  <2> QED  BY <2>3, <2>4 DEF NewMatches, found
<1>5. CASE l.kind = "git"
  <2>1. r = [rules EXCEPT !.file = ExtractFilePath(l), !.line = 0]  BY <1>5, Zenon DEF CheckLine
  <2>2. ExtractFilePath(l) \in STRING  BY <1>5, LineFields
  <2>3. r.matches = rules.matches /\ r.file = ExtractFilePath(l) /\ r \in T
    <3>1. r = [file |-> ExtractFilePath(l), line |-> 0, matches |-> rules.matches]
      BY <1>1, <2>1
    <3> QED  BY <1>1, <2>2, <3>1
  <2>4. ~ Tried(l) /\ l.kind # "hunk" /\ l.kind # "del" /\ l.kind \notin CountedKinds
    BY <1>5 DEF Tried, CountedKinds
  <2> QED  BY <1>4, <1>5, <2>3, <2>4
<1>6. CASE l.kind = "hunk"
  <2>1. r = EnterHunk(rules, l)
    <3>1. ~ (l.kind = "git") /\ ~ (l.kind = "add") /\ l.kind \notin {"del", "---"}  BY <1>6
    <3> QED  BY <1>6, <3>1, Zenon DEF CheckLine
  <2>2. l.start \in Nat \cup {NoStart}  BY <1>6, LineFields
  <2> QED  BY <1>1, <1>4, <1>6, <2>1, <2>2 DEF Tried, CountedKinds, EnterHunk
<1>7. CASE Tried(l)
  <2>1. l.kind = "add"  BY <1>7 DEF Tried
  <2>2. r = TryRules(rules, Len(diff) + 1, l)
    <3>1. l.kind # "git" /\ l.kind # "hunk" /\ l.kind \notin {"del", "---"}  BY <2>1
    <3> QED  BY <1>7, <3>1, Zenon DEF CheckLine, Tried
  <2>3. r = [rules EXCEPT !.line = rules.line + 1, !.matches = rules.matches \o NewMatches(l)]
    BY <2>2 DEF TryRules, NewMatches, Found
  <2>4. rules.matches \o NewMatches(l) \in Seq(Matches)  BY <1>1, <1>4
  <2> HIDE DEF Matches
  <2>5. /\ r.matches = rules.matches \o NewMatches(l) /\ r.file = rules.file
        /\ r.line = rules.line + 1 /\ r \in T
    <3> DEFINE m == rules.matches \o NewMatches(l)
    <3>1. r = [file |-> rules.file, line |-> rules.line + 1, matches |-> m]
      BY <1>1, <2>3
    <3>2. m \in Seq(Matches)  BY <2>4
    <3> HIDE DEF m
    <3>3. r.matches = m /\ r.file = rules.file /\ r.line = rules.line + 1 /\ r \in T
      BY <1>1, <3>1, <3>2
    <3> QED  BY <3>3 DEF m
  <2>6. l.kind # "git" /\ l.kind # "hunk" /\ l.kind # "del"  BY <2>1
  <2> QED  BY <1>4, <1>7, <2>5, <2>6
<1>8. CASE l.kind \in {"del", "---"}
  <2>1. r = rules
    <3>1. l.kind # "git" /\ l.kind # "hunk" /\ l.kind # "add"  BY <1>8
    <3> QED  BY <1>8, <3>1, Zenon DEF CheckLine
  <2> QED  BY <1>1, <1>4, <1>8, <2>1 DEF Tried, CountedKinds
<1>9. CASE l.kind \notin {"git", "hunk", "del", "---"} /\ ~ Tried(l)
  <2>1. r = [rules EXCEPT !.line = rules.line + 1]
    <3>1. l.kind # "git" /\ l.kind # "hunk" /\ l.kind \notin {"del", "---"}  BY <1>9
    <3> QED  BY <1>9, <3>1, Zenon DEF CheckLine, Tried
  <2>2. r.matches = rules.matches /\ r.file = rules.file /\ r.line = rules.line + 1 /\ r \in T
    BY <1>1, <2>1
  <2>3. l.kind # "git" /\ l.kind # "hunk" /\ l.kind # "del"  BY <1>9
  <2> QED  BY <1>4, <1>9, <2>2, <2>3
<1> QED  BY <1>5, <1>6, <1>7, <1>8, <1>9

\* What a diff line more does to the rules' file and to the hunk in hand.
LEMMA RulesStep ==
    ASSUME TextInv, RulesInv, NEW l \in DiffLines, ReadDiffLine(l)
    PROVE  RulesFile' /\ RulesLine'
<1>1. /\ diff' = Append(diff, l) /\ rules' = CheckLine(rules, Len(diff) + 1, l)
      /\ diff \in Seq(DiffLines) /\ Follows(diff, l)
  BY DEF ReadDiffLine, TextInv
<1>2. /\ PathIn(diff', Len(diff)') = IF l.kind = "git" THEN ExtractFilePath(l)
                                                      ELSE PathIn(diff, Len(diff))
      /\ Len(diff)' = Len(diff) + 1 /\ Len(diff) \in Nat
      /\ (diff = << >> => l.kind = "git")
  BY KeptNext
<1>3. /\ diff' # << >> /\ diff'[Len(diff) + 1] = l
      /\ \A i \in 1 .. Len(diff) : diff'[i] = diff[i]
  BY <1>1, AppendLine
<1>4. /\ rules'.file = IF l.kind = "git" THEN ExtractFilePath(l) ELSE rules.file
      /\ l.kind = "hunk" => rules'.line = IF l.start = NoStart THEN rules.line ELSE l.start
      /\ l.kind \in CountedKinds => rules'.line = rules.line + 1
      /\ l.kind = "del" => rules'.line = rules.line
      /\ rules' \in [file : STRING \cup {NoFile}, line : Nat, matches : Seq(Matches)]
  BY <1>1, CheckLineCases DEF RulesInv
<1>5. RulesFile'
  <2>1. rules'.file = PathIn(diff', Len(diff)')
    <3>1. l.kind # "git" => rules.file = PathIn(diff, Len(diff))
      BY <1>2 DEF RulesInv, RulesFile, PathAt, PathIn
    <3> QED  BY <1>2, <1>4, <3>1
  <2> QED  BY <1>3, <1>4, <2>1 DEF RulesFile, PathAt, PathIn
<1>6. CASE l.kind = "hunk"
  <2>1. LastOf("hunk", diff', Len(diff)', Len(diff)')  BY <1>1, <1>2, <1>6, LastNext
  <2>2. l.start # NoStart => rules'.line = LineInHand(diff', Len(diff) + 1, Len(diff) + 1)
    <3>1. {j \in (Len(diff) + 1) + 1 .. Len(diff) + 1 : diff'[j].kind \in CountedKinds} = {}
      BY <1>2
    <3>2. l.start \in Nat \cup {NoStart}  BY <1>6, LineFields
    <3>3. l.start # NoStart => rules'.line = l.start /\ l.start \in Nat  BY <1>4, <1>6, <3>2
    <3>4. Cardinality({}) = 0  BY FS_EmptySet
    <3>5. LineInHand(diff', Len(diff) + 1, Len(diff) + 1) = l.start + 0
      BY <1>3, <3>1, <3>4 DEF LineInHand
    <3> QED  BY <3>3, <3>5
  <2>3. Len(diff) + 1 \in 1 .. Len(diff)'  BY <1>2
  <2> QED  BY <1>2, <1>3, <1>5, <2>1, <2>2, <2>3 DEF RulesLine
<1>7. CASE l.kind \in InHunkKinds \ {"hunk"}
  <2>1. diff # << >> /\ diff[Len(diff)].kind \in InHunkKinds
    <3>1. diff # << >>  BY <1>7, <1>2 DEF InHunkKinds
    <3> QED  BY <1>1, <1>7, <3>1 DEF Follows, InHunkKinds, InBody
  <2>2. PICK h \in 1 .. Len(diff) :
            /\ LastOf("hunk", diff, Len(diff), h)
            /\ diff[h].start # NoStart => rules.line = LineInHand(diff, h, Len(diff))
    BY <2>1 DEF RulesInv, RulesLine
  <2>3. LastOf("hunk", diff', Len(diff)', h)  BY <1>1, <1>2, <1>7, <2>2, LastNext
  <2>4. h \in 1 .. Len(diff)' /\ diff'[h] = diff[h]  BY <1>2, <1>3
  <2>5. diff[h].start # NoStart => rules'.line = LineInHand(diff', h, Len(diff) + 1)
    <3> SUFFICES ASSUME diff[h].start # NoStart
                 PROVE  rules'.line = LineInHand(diff', h, Len(diff) + 1)
      OBVIOUS
    <3> DEFINE A == {j \in h + 1 .. Len(diff) : diff[j].kind \in CountedKinds}
               B == {j \in h + 1 .. Len(diff) + 1 : diff'[j].kind \in CountedKinds}
    <3>1. IsFiniteSet(A) /\ Len(diff) + 1 \notin A
      <4>1. IsFiniteSet(h + 1 .. Len(diff))  BY <1>2, FS_Interval
      <4> QED  BY <1>2, <4>1, FS_Subset
    <3>2. Cardinality(A) \in Nat  BY <3>1, FS_CardinalityType
    <3>3. B = IF l.kind \in CountedKinds THEN A \cup {Len(diff) + 1} ELSE A
      BY <1>2, <1>3
    <3>4. Cardinality(A \cup {Len(diff) + 1}) = Cardinality(A) + 1
      BY <3>1, FS_AddElement
    <3>5. rules.line = diff[h].start + Cardinality(A)  BY <2>2 DEF LineInHand
    <3>6. diff[h].start \in Nat
      <4>1. diff[h].kind = "hunk" /\ diff[h] \in DiffLines  BY <1>1, <2>2 DEF LastOf
      <4> QED  BY <4>1, LineFields
    <3>7. rules'.line = diff'[h].start + Cardinality(B)
      <4> HIDE DEF A, B
      <4>1. CASE l.kind \in CountedKinds
        BY <4>1, <1>4, <2>4, <3>2, <3>3, <3>4, <3>5, <3>6
      <4>2. CASE l.kind = "del"
        <5>1. l.kind \notin CountedKinds  BY <4>2 DEF CountedKinds
        <5> QED  BY <4>2, <5>1, <1>4, <2>4, <3>2, <3>3, <3>5, <3>6
      <4>3. l.kind \in CountedKinds \/ l.kind = "del"  BY <1>7 DEF InHunkKinds, CountedKinds
      <4> QED  BY <4>1, <4>2, <4>3
    <3> QED  BY <3>7 DEF LineInHand
  <2> QED  BY <1>2, <1>3, <1>5, <2>3, <2>4, <2>5 DEF RulesLine
<1>8. CASE l.kind \notin InHunkKinds  BY <1>2, <1>3, <1>5, <1>8 DEF RulesLine
<1> QED  BY <1>6, <1>7, <1>8

\* m: the matches after an added line are those before, and one for each rule
\* found.
MatchesGrow(M, m, found, l) ==
    /\ Len(M) \in Nat /\ Len(found) \in Nat
    /\ Len(m) = Len(M) + Len(found)
    /\ Enumerates(found, Found(l))
    /\ \A k \in 1 .. Len(M) : m[k] = M[k]
    /\ \A k \in 1 .. Len(found) :
          /\ m[Len(M) + k].at = Len(diff) + 1
          /\ m[Len(M) + k].rule = found[k]
          /\ m[Len(M) + k].file = rules.file
          /\ m[Len(M) + k].line = rules.line + 1
    /\ \A k \in 1 .. Len(m) :
          k \in 1 .. Len(M) \/ \E j \in 1 .. Len(found) : k = Len(M) + j

LEMMA MatchesAfter ==
    ASSUME RulesFile, NEW l \in DiffLines, diff \in Seq(DiffLines),
           NEW M, M = rules.matches,
           NEW m, m = M \o NewMatches(l),
           NEW found, found = Ascending(Found(l), Len(Rules))
    PROVE  MatchesGrow(M, m, found, l)
<1> DEFINE t == NewMatches(l)
<1>1. M \in Seq(Matches) /\ t \in Seq(Matches)
  <2>1. M \in Seq(Matches)  BY DEF RulesFile
  <2> QED  BY <2>1, CheckLineCases
<1>2. Found(l) \in SUBSET (1 .. Len(Rules)) /\ Len(Rules) \in Nat
  BY RulesAssumption DEF Found
<1>3. Enumerates(found, Found(l)) /\ found \in Seq(Nat)  BY <1>2, AscendingOf
<1>4. /\ Len(t) = Len(found) /\ Len(found) \in Nat
      /\ \A k \in 1 .. Len(found) :
            t[k].at = Len(diff) + 1 /\ t[k].rule = found[k]
            /\ t[k].file = rules.file /\ t[k].line = rules.line + 1
  BY <1>3 DEF NewMatches
<1> HIDE DEF t
<1>5. m = M \o t  BY DEF t
<1>6. /\ Len(m) = Len(M) + Len(t) /\ Len(M) \in Nat
      /\ \A k \in 1 .. Len(M) : m[k] = M[k]
      /\ \A k \in 1 .. Len(t) : m[Len(M) + k] = t[k]
  BY <1>1, <1>5
<1>7. ASSUME NEW k \in 1 .. Len(m), k \notin 1 .. Len(M)
      PROVE  \E j \in 1 .. Len(found) : k = Len(M) + j
  <2>1. k - Len(M) \in 1 .. Len(found) /\ k = Len(M) + (k - Len(M))  BY <1>4, <1>6, <1>7
  <2> QED  BY <2>1
<1>8. \A k \in 1 .. Len(found) :
          /\ m[Len(M) + k].at = Len(diff) + 1 /\ m[Len(M) + k].rule = found[k]
          /\ m[Len(M) + k].file = rules.file /\ m[Len(M) + k].line = rules.line + 1
  BY <1>4, <1>6
<1>9. Len(m) = Len(M) + Len(found)  BY <1>4, <1>6
<1> QED  BY <1>3, <1>4, <1>6, <1>7, <1>8, <1>9 DEF MatchesGrow

AddedIn(d) == {i \in 1 .. Len(d) : d[i].kind = "add" /\ d[i].text # "pluses"}

LEMMA AddedNext ==
    ASSUME NEW d \in Seq(DiffLines), NEW l \in DiffLines, NEW e, e = Append(d, l)
    PROVE  AddedIn(e) = IF Tried(l) THEN AddedIn(d) \cup {Len(d) + 1} ELSE AddedIn(d)
<1>1. /\ Len(e) = Len(d) + 1 /\ Len(d) \in Nat /\ e[Len(d) + 1] = l
      /\ \A i \in 1 .. Len(d) : e[i] = d[i]
  BY AppendLine
<1>2. Tried(l) <=> l.kind = "add" /\ l.text # "pluses"  BY DEF Tried, StartsWithPlus3
<1>3. \A i : i \in 1 .. Len(e) <=> i \in 1 .. Len(d) \/ i = Len(d) + 1  BY <1>1
<1> QED  BY <1>1, <1>2, <1>3 DEF AddedIn

\* MatchesAreAddedLines, part by part.
MatchSet ==
    \A i, r : (\E k \in 1 .. Len(rules.matches) :
                  rules.matches[k].at = i /\ rules.matches[k].rule = r)
                <=> i \in AddedIn(diff) /\ r \in Found(diff[i])
MatchOrder ==
    \A k, n \in 1 .. Len(rules.matches) : k < n =>
        /\ rules.matches[k].at <= rules.matches[n].at
        /\ <<rules.matches[k].at, rules.matches[k].rule>>
              # <<rules.matches[n].at, rules.matches[n].rule>>
MatchFiles ==
    \A k \in 1 .. Len(rules.matches) :
        rules.matches[k].file = PathIn(diff, rules.matches[k].at)

LEMMA MatchParts ==
    MatchesAreAddedLines <=> MatchSet /\ MatchOrder /\ MatchFiles
<1> DEFINE m == rules.matches
           L == {<<m[k].at, m[k].rule>> : k \in 1 .. Len(m)}
           A == AddedIn(diff)
           R == {p \in A \X (1 .. Len(Rules)) : diff[p[1]].text \in Rules[p[2]]}
<1>1. MatchesAreAddedLines <=> L = R /\ MatchOrder /\ MatchFiles
  BY DEF MatchesAreAddedLines, AddedIn, MatchOrder, MatchFiles, PathAt, PathIn
<1>2. \A i, r : <<i, r>> \in L <=> \E k \in 1 .. Len(m) : m[k].at = i /\ m[k].rule = r
  OBVIOUS
<1>3. \A i, r : <<i, r>> \in R <=> i \in A /\ r \in Found(diff[i])
  BY DEF Found
<1>4. \A p \in L : p = <<p[1], p[2]>>  OBVIOUS
<1>5. \A p \in R : p = <<p[1], p[2]>>  OBVIOUS
<1>6. L = R <=> \A i, r : <<i, r>> \in L <=> <<i, r>> \in R
  <2> HIDE DEF L, R
  <2> QED  BY <1>4, <1>5
<1> DEFINE InL(i, r) == \E k \in 1 .. Len(m) : m[k].at = i /\ m[k].rule = r
           InR(i, r) == i \in A /\ r \in Found(diff[i])
<1>7. MatchSet <=> \A i, r : InL(i, r) <=> InR(i, r)  BY DEF MatchSet
<1> HIDE DEF L, R, InL, InR
<1>8. ASSUME L = R, NEW i, NEW r PROVE InL(i, r) <=> InR(i, r)
  BY <1>2, <1>3, <1>8 DEF InL, InR
<1>9. ASSUME \A i, r : InL(i, r) <=> InR(i, r), NEW i, NEW r
      PROVE  <<i, r>> \in L <=> <<i, r>> \in R
  BY <1>2, <1>3, <1>9 DEF InL, InR
<1>10. MatchSet <=> L = R
  <2>1. L = R => MatchSet  BY <1>7, <1>8, Zenon
  <2>2. MatchSet => L = R  BY <1>6, <1>7, <1>9, Zenon
  <2> QED  BY <2>1, <2>2
<1> QED  BY <1>1, <1>10

LEMMA MatchesStep ==
    ASSUME TextInv, RulesInv, NEW l \in DiffLines, ReadDiffLine(l)
    PROVE  MatchesAreAddedLines'
<1>1. /\ diff' = Append(diff, l) /\ rules' = CheckLine(rules, Len(diff) + 1, l)
      /\ diff \in Seq(DiffLines)
  BY DEF ReadDiffLine, TextInv
<1>2. /\ PathIn(diff', Len(diff)') = IF l.kind = "git" THEN ExtractFilePath(l)
                                                      ELSE PathIn(diff, Len(diff))
      /\ \A i \in 1 .. Len(diff) : PathIn(diff', i) = PathIn(diff, i)
      /\ Len(diff)' = Len(diff) + 1 /\ Len(diff) \in Nat
      /\ (diff = << >> => l.kind = "git")
  BY KeptNext
<1>3. /\ diff'[Len(diff) + 1] = l
      /\ \A i \in 1 .. Len(diff) : diff'[i] = diff[i]
  BY <1>1, AppendLine
<1>4. MatchSet /\ MatchOrder /\ MatchFiles  BY MatchParts DEF RulesInv
<1>5. ASSUME NEW k \in 1 .. Len(rules.matches) PROVE rules.matches[k].at \in 1 .. Len(diff)
  <2> DEFINE i == rules.matches[k].at
             r == rules.matches[k].rule
  <2>1. \E j \in 1 .. Len(rules.matches) : rules.matches[j].at = i /\ rules.matches[j].rule = r
    OBVIOUS
  <2>2. i \in AddedIn(diff)  BY <1>4, <2>1, Zenon DEF MatchSet
  <2> QED  BY <2>2 DEF AddedIn
<1>6. rules'.matches = IF Tried(l) THEN rules.matches \o NewMatches(l) ELSE rules.matches
  BY <1>1, CheckLineCases DEF RulesInv
<1>7. AddedIn(diff') = IF Tried(l) THEN AddedIn(diff) \cup {Len(diff) + 1} ELSE AddedIn(diff)
  BY <1>1, AddedNext
<1>8. \A i \in AddedIn(diff) : i \in 1 .. Len(diff)  BY DEF AddedIn
<1>9. CASE ~ Tried(l)
  <2>1. rules'.matches = rules.matches /\ AddedIn(diff') = AddedIn(diff)  BY <1>6, <1>7, <1>9
  <2>2. MatchSet'
    <3>1. \A i \in AddedIn(diff) : Found(diff'[i]) = Found(diff[i])  BY <1>3, <1>8
    <3> QED  BY <1>4, <2>1, <3>1 DEF MatchSet
  <2>3. MatchOrder'  BY <1>4, <2>1 DEF MatchOrder
  <2>4. MatchFiles'  BY <1>2, <1>4, <1>5, <2>1 DEF MatchFiles
  <2>5. MatchesAreAddedLines' <=> MatchSet' /\ MatchOrder' /\ MatchFiles'
    BY MatchParts, PTL
  <2> QED  BY <2>2, <2>3, <2>4, <2>5
<1>10. CASE Tried(l)
  <2> DEFINE M == rules.matches
             found == Ascending(Found(l), Len(Rules))
             m == rules'.matches
             n == Len(diff) + 1
  <2>1. m = M \o NewMatches(l) /\ AddedIn(diff') = AddedIn(diff) \cup {n}
    BY <1>6, <1>7, <1>10
  <2>2. /\ Len(M) \in Nat /\ Len(found) \in Nat
        /\ Len(m) = Len(M) + Len(found)
        /\ Enumerates(found, Found(l))
        /\ \A k \in 1 .. Len(M) : m[k] = M[k]
        /\ \A k \in 1 .. Len(found) :
              m[Len(M) + k].at = n /\ m[Len(M) + k].rule = found[k]
              /\ m[Len(M) + k].file = rules.file /\ m[Len(M) + k].line = rules.line + 1
        /\ \A k \in 1 .. Len(m) :
              k \in 1 .. Len(M) \/ \E j \in 1 .. Len(found) : k = Len(M) + j
    <3>1. RulesFile /\ m = M \o NewMatches(l)  BY <2>1 DEF RulesInv
    <3>2. found = Ascending(Found(l), Len(Rules)) /\ M = rules.matches  OBVIOUS
    <3> HIDE DEF m, found, M
    <3>3. MatchesGrow(M, m, found, l)  BY <1>1, <3>1, <3>2, MatchesAfter
    <3> QED  BY <3>3 DEF MatchesGrow
  <2> HIDE DEF found, m, M
  <2>3. \A k \in 1 .. Len(found) :
            m[Len(M) + k].at = n /\ m[Len(M) + k].rule = found[k]
            /\ m[Len(M) + k].file = rules.file
    BY <2>2
  <2>4. /\ \A k \in 1 .. Len(found) : found[k] \in Found(l)
        /\ \A r \in Found(l) : \E k \in 1 .. Len(found) : found[k] = r
        /\ \A j, k \in 1 .. Len(found) : j < k => found[j] < found[k]
        /\ \A k \in 1 .. Len(found) : found[k] \in Nat
    BY <2>2 DEF Enumerates
  <2>5. n \notin 1 .. Len(diff)  BY <1>2
  <2>6. \A k \in 1 .. Len(found) : Len(M) + k \in 1 .. Len(m)  BY <2>2
  <2>7. \A k \in 1 .. Len(M) : k \in 1 .. Len(m)  BY <2>2
  <2>8. ASSUME NEW i, NEW r
        PROVE  (\E k \in 1 .. Len(m) : m[k].at = i /\ m[k].rule = r)
                  <=> i \in AddedIn(diff') /\ r \in Found(diff'[i])
    <3>1. (\E k \in 1 .. Len(M) : M[k].at = i /\ M[k].rule = r)
             <=> i \in AddedIn(diff) /\ r \in Found(diff[i])
      BY <1>4 DEF MatchSet, M
    <3>2. (\E k \in 1 .. Len(found) : m[Len(M) + k].at = i /\ m[Len(M) + k].rule = r)
             <=> i = n /\ r \in Found(l)
      BY <2>3, <2>4
    <3>3. (\E k \in 1 .. Len(m) : m[k].at = i /\ m[k].rule = r)
             <=> \/ \E k \in 1 .. Len(M) : M[k].at = i /\ M[k].rule = r
                 \/ \E k \in 1 .. Len(found) : m[Len(M) + k].at = i /\ m[Len(M) + k].rule = r
      <4>1. ASSUME NEW k \in 1 .. Len(m), m[k].at = i, m[k].rule = r, k \notin 1 .. Len(M)
            PROVE  \E j \in 1 .. Len(found) : m[Len(M) + j].at = i /\ m[Len(M) + j].rule = r
        BY <2>2, <4>1
      <4>2. ASSUME NEW j \in 1 .. Len(found), m[Len(M) + j].at = i, m[Len(M) + j].rule = r
            PROVE  \E k \in 1 .. Len(m) : m[k].at = i /\ m[k].rule = r
        BY <2>6, <4>2
      <4>3. \A k \in 1 .. Len(M) : m[k] = M[k] /\ k \in 1 .. Len(m)  BY <2>2, <2>7
      <4> QED  BY <4>1, <4>2, <4>3
    <3>4. i \in AddedIn(diff) => diff'[i] = diff[i] /\ i # n  BY <1>3, <1>8, <2>5
    <3>5. diff'[n] = l  BY <1>3
    <3> QED  BY <2>1, <3>1, <3>2, <3>3, <3>4, <3>5
  <2>9. MatchSet'  BY <2>8 DEF MatchSet, m
  <2>10. MatchOrder'
    <3> SUFFICES ASSUME NEW j \in 1 .. Len(m), NEW k \in 1 .. Len(m), j < k
                 PROVE  m[j].at <= m[k].at /\ <<m[j].at, m[j].rule>> # <<m[k].at, m[k].rule>>
      BY DEF MatchOrder, m
    <3>1. CASE k \in 1 .. Len(M)
      <4>1. j \in 1 .. Len(M)  BY <2>2, <3>1
      <4>2. m[j] = M[j] /\ m[k] = M[k]  BY <2>2, <3>1, <4>1
      <4> QED  BY <1>4, <3>1, <4>1, <4>2 DEF MatchOrder, M
    <3>2. ASSUME NEW b \in 1 .. Len(found), k = Len(M) + b
          PROVE  m[j].at <= m[k].at /\ <<m[j].at, m[j].rule>> # <<m[k].at, m[k].rule>>
      <4>1. m[k].at = n /\ m[k].rule = found[b]  BY <2>3, <3>2
      <4>2. CASE j \in 1 .. Len(M)
        <5>1. m[j].at \in 1 .. Len(diff)  BY <1>5, <2>2, <4>2 DEF M
        <5> QED  BY <1>2, <4>1, <5>1
      <4>3. ASSUME NEW a \in 1 .. Len(found), j = Len(M) + a
            PROVE  m[j].at <= m[k].at /\ <<m[j].at, m[j].rule>> # <<m[k].at, m[k].rule>>
        <5>1. m[j].at = n /\ m[j].rule = found[a]  BY <2>3, <4>3
        <5>2. a < b  BY <2>2, <3>2, <4>3
        <5>3. found[a] < found[b] /\ found[a] \in Nat /\ found[b] \in Nat  BY <2>4, <5>2
        <5>4. found[a] # found[b]  BY <5>3
        <5> QED  BY <1>2, <4>1, <5>1, <5>4
      <4> QED  BY <2>2, <4>2, <4>3
    <3> QED  BY <2>2, <3>1, <3>2
  <2>11. MatchFiles'
    <3> SUFFICES ASSUME NEW k \in 1 .. Len(m) PROVE m[k].file = PathIn(diff', m[k].at)
      BY DEF MatchFiles, m
    <3>1. CASE k \in 1 .. Len(M)
      BY <1>2, <1>4, <1>5, <2>2, <3>1 DEF MatchFiles, M
    <3>2. ASSUME NEW b \in 1 .. Len(found), k = Len(M) + b
          PROVE  m[k].file = PathIn(diff', m[k].at)
      <4>1. m[k].at = n /\ m[k].file = rules.file  BY <2>3, <3>2
      <4>2. l.kind = "add"  BY <1>10 DEF Tried
      <4>3. diff # << >>  BY <1>2, <4>2
      <4>4. rules.file = PathIn(diff, Len(diff))
        BY <4>3 DEF RulesInv, RulesFile, PathAt, PathIn
      <4> QED  BY <1>2, <4>1, <4>2, <4>4
    <3> QED  BY <2>2, <3>1, <3>2
  <2>12. MatchesAreAddedLines' <=> MatchSet' /\ MatchOrder' /\ MatchFiles'
    BY MatchParts, PTL
  <2> QED  BY <2>9, <2>10, <2>11, <2>12
<1> QED  BY <1>9, <1>10

\* The line number a match should have by MatchLineIsOneTooHigh.
LineOf(d, i) ==
    NewLineNumber(d, i) + 1
        + Cardinality({j \in HunkOf(d, i) .. i : d[j].kind = "no newline"})

\* It is not disturbed by a line more.
LEMMA LineStable ==
    ASSUME NEW d \in Seq(DiffLines), NEW l \in DiffLines, NEW e, e = Append(d, l),
           NEW i \in 1 .. Len(d), LastOf("hunk", d, i, HunkOf(d, i))
    PROVE  /\ HunkOf(e, i) = HunkOf(d, i) /\ LastOf("hunk", e, i, HunkOf(e, i))
           /\ e[HunkOf(d, i)] = d[HunkOf(d, i)]
           /\ LineOf(e, i) = LineOf(d, i)
<1> DEFINE h == HunkOf(d, i)
<1>1. /\ Len(d) \in Nat /\ i \in Nat /\ i \in 0 .. Len(d)
      /\ \A j \in 1 .. Len(d) : e[j] = d[j]
  BY AppendLine
<1>2. LastOf("hunk", e, i, h)  BY <1>1, LastStable
<1>3. HunkOf(e, i) = h  BY <1>1, <1>2, HunkOfIs
<1>4. h \in 1 .. i  BY DEF LastOf
<1> HIDE DEF h
<1>5. e[h] = d[h]  BY <1>1, <1>4
<1>6. {j \in h + 1 .. i - 1 : e[j].kind \in {"context", "add"}}
        = {j \in h + 1 .. i - 1 : d[j].kind \in {"context", "add"}}
  <2>1. \A j \in h + 1 .. i - 1 : e[j] = d[j]  BY <1>1, <1>4
  <2> QED  BY <2>1
<1>7. {j \in h .. i : e[j].kind = "no newline"} = {j \in h .. i : d[j].kind = "no newline"}
  <2>1. \A j \in h .. i : e[j] = d[j]  BY <1>1, <1>4
  <2> QED  BY <2>1
<1>8. LineOf(e, i) = LineOf(d, i)
  BY <1>3, <1>5, <1>6, <1>7 DEF LineOf, NewLineNumber, h
<1> QED  BY <1>2, <1>3, <1>5, <1>8 DEF h

\* An added line has the number that is in hand, and one more.
LEMMA LineNext ==
    ASSUME NEW d \in Seq(DiffLines), NEW l \in DiffLines, NEW e, e = Append(d, l),
           l.kind = "add", NEW h \in 1 .. Len(d), LastOf("hunk", d, Len(d), h),
           d[h].start # NoStart
    PROVE  LineOf(e, Len(d) + 1) = LineInHand(d, h, Len(d)) + 1
<1> DEFINE n == Len(d)
           C == {j \in h + 1 .. n : d[j].kind \in CountedKinds}
           A == {j \in h + 1 .. n : d[j].kind \in {"context", "add"}}
           B == {j \in h + 1 .. n : d[j].kind = "no newline"}
<1>1. /\ n \in Nat /\ e[n + 1] = l /\ \A j \in 1 .. n : e[j] = d[j]
  BY AppendLine
<1>2. LastOf("hunk", e, n + 1, h)  BY LastNext
<1>3. HunkOf(e, n + 1) = h  BY <1>1, <1>2, HunkOfIs
<1>4. d[h].kind = "hunk" /\ h \in 1 .. n /\ d[h] \in DiffLines  BY DEF LastOf
<1>5. d[h].start \in Nat  BY <1>4, LineFields
<1>6. IsFiniteSet(A) /\ IsFiniteSet(B) /\ Cardinality(A) \in Nat /\ Cardinality(B) \in Nat
  <2>1. IsFiniteSet(h + 1 .. n)  BY <1>1, FS_Interval
  <2>2. IsFiniteSet(A) /\ IsFiniteSet(B)  BY <2>1, FS_Subset
  <2> QED  BY <2>2, FS_CardinalityType
<1>7. Cardinality(C) = Cardinality(A) + Cardinality(B)
  <2>1. C = A \cup B /\ A \cap B = {}  BY DEF CountedKinds
  <2> HIDE DEF A, B, C
  <2>2. Cardinality(A \cup B) = Cardinality(A) + Cardinality(B) - Cardinality(A \cap B)
    BY <1>6, FS_Union
  <2>3. Cardinality(A \cap B) = 0  BY <2>1, FS_EmptySet
  <2>4. Cardinality(A \cup B) = Cardinality(C)  BY <2>1
  <2> QED  BY <1>6, <2>2, <2>3, <2>4
<1>8. {j \in h + 1 .. (n + 1) - 1 : e[j].kind \in {"context", "add"}} = A
  <2>1. (n + 1) - 1 = n  BY <1>1
  <2>2. \A j \in h + 1 .. n : e[j] = d[j]  BY <1>1
  <2> QED  BY <2>1, <2>2
<1>9. {j \in h .. n + 1 : e[j].kind = "no newline"} = B
  <2>1. \A j \in h .. n + 1 : j = h \/ j = n + 1 \/ j \in h + 1 .. n  BY <1>1
  <2>2. \A j \in h + 1 .. n : e[j] = d[j] /\ j \in h .. n + 1  BY <1>1
  <2>3. e[h].kind = "hunk" /\ e[n + 1].kind = "add"  BY <1>1, <1>4
  <2> QED  BY <2>1, <2>2, <2>3
<1>10. e[h] = d[h]  BY <1>1
<1>11. NewLineNumber(e, n + 1) = d[h].start + Cardinality(A)
  BY <1>3, <1>8, <1>10 DEF NewLineNumber
<1>12. LineOf(e, n + 1) = d[h].start + Cardinality(A) + 1 + Cardinality(B)
  BY <1>3, <1>9, <1>11 DEF LineOf
<1>13. LineInHand(d, h, n) = d[h].start + Cardinality(C)  BY DEF LineInHand
<1> HIDE DEF A, B, C
<1> QED  BY <1>5, <1>6, <1>7, <1>12, <1>13

LEMMA LinesStep ==
    ASSUME TextInv, RulesInv, NEW l \in DiffLines, ReadDiffLine(l)
    PROVE  MatchHunks' /\ MatchLineIsOneTooHigh'
<1>1. /\ diff' = Append(diff, l) /\ rules' = CheckLine(rules, Len(diff) + 1, l)
      /\ diff \in Seq(DiffLines) /\ Follows(diff, l)
  BY DEF ReadDiffLine, TextInv
<1>2. /\ Len(diff)' = Len(diff) + 1 /\ Len(diff) \in Nat
      /\ (diff = << >> => l.kind = "git")
  BY KeptNext
<1> DEFINE M == rules.matches
           m == rules'.matches
           Right(d, x) == /\ x.at \in 1 .. Len(d) /\ LastOf("hunk", d, x.at, HunkOf(d, x.at))
                          /\ d[HunkOf(d, x.at)].start # NoStart => x.line = LineOf(d, x.at)
<1>3. \A k \in 1 .. Len(M) : Right(diff, M[k])
  BY DEF RulesInv, MatchHunks, MatchLineIsOneTooHigh, LineOf
<1>4. MatchHunks' /\ MatchLineIsOneTooHigh' <=> \A k \in 1 .. Len(m) : Right(diff', m[k])
  BY DEF MatchHunks, MatchLineIsOneTooHigh, LineOf
<1>5. ASSUME NEW x, Right(diff, x) PROVE Right(diff', x)
  <2>1. /\ HunkOf(diff', x.at) = HunkOf(diff, x.at)
        /\ LastOf("hunk", diff', x.at, HunkOf(diff', x.at))
        /\ diff'[HunkOf(diff, x.at)] = diff[HunkOf(diff, x.at)]
        /\ LineOf(diff', x.at) = LineOf(diff, x.at)
    BY <1>1, <1>5, LineStable
  <2> QED  BY <1>2, <1>5, <2>1
<1>6. ASSUME NEW x, Tried(l), x.at = Len(diff) + 1, x.line = rules.line + 1
      PROVE  Right(diff', x)
  <2>1. l.kind = "add"  BY <1>6 DEF Tried
  <2>2. diff # << >> /\ diff[Len(diff)].kind \in InHunkKinds
    <3>1. diff # << >>  BY <1>2, <2>1
    <3> QED  BY <1>1, <2>1, <3>1 DEF Follows, InHunkKinds, InBody
  <2>3. PICK h \in 1 .. Len(diff) :
            /\ LastOf("hunk", diff, Len(diff), h)
            /\ diff[h].start # NoStart => rules.line = LineInHand(diff, h, Len(diff))
    BY <2>2 DEF RulesInv, RulesLine
  <2>4. LastOf("hunk", diff', Len(diff) + 1, h)  BY <1>1, <2>1, <2>3, LastNext
  <2>5. HunkOf(diff', Len(diff) + 1) = h  BY <1>2, <2>4, HunkOfIs
  <2>6. diff'[h] = diff[h]  BY <1>1, AppendLine
  <2>7. diff[h].start # NoStart => LineOf(diff', Len(diff) + 1) = rules.line + 1
    BY <1>1, <2>1, <2>3, LineNext
  <2> QED  BY <1>2, <1>6, <2>4, <2>5, <2>6, <2>7
<1>7. m = IF Tried(l) THEN M \o NewMatches(l) ELSE M
  BY <1>1, CheckLineCases DEF RulesInv
<1>8. CASE ~ Tried(l)
  <2>1. m = M  BY <1>7, <1>8
  <2> HIDE DEF m, M, Right
  <2> QED  BY <1>3, <1>4, <1>5, <2>1
<1>9. CASE Tried(l)
  <2> DEFINE found == Ascending(Found(l), Len(Rules))
  <2>1. MatchesGrow(M, m, found, l)
    <3>1. RulesFile /\ m = M \o NewMatches(l) /\ M = rules.matches
          /\ found = Ascending(Found(l), Len(Rules))
      BY <1>7, <1>9 DEF RulesInv
    <3> HIDE DEF m, M, found
    <3> QED  BY <1>1, <3>1, MatchesAfter
  <2> HIDE DEF m, M, found, Right
  <2>2. ASSUME NEW k \in 1 .. Len(m) PROVE Right(diff', m[k])
    <3>1. CASE k \in 1 .. Len(M)
      <4>1. m[k] = M[k]  BY <2>1, <3>1 DEF MatchesGrow
      <4> QED  BY <1>3, <1>5, <3>1, <4>1
    <3>2. ASSUME NEW j \in 1 .. Len(found), k = Len(M) + j PROVE Right(diff', m[k])
      <4>1. m[k].at = Len(diff) + 1 /\ m[k].line = rules.line + 1
        BY <2>1, <3>2 DEF MatchesGrow
      <4> QED  BY <1>6, <1>9, <4>1
    <3> QED  BY <2>1, <3>1, <3>2 DEF MatchesGrow
  <2> QED  BY <1>4, <2>2
<1> QED  BY <1>8, <1>9

LEMMA RulesNext == RulesInv /\ TextInv /\ [Next]_vars => RulesInv'
<1> SUFFICES ASSUME RulesInv, TextInv, [Next]_vars PROVE RulesInv'  OBVIOUS
<1>1. ASSUME NEW l \in DiffLines, ReadDiffLine(l) PROVE RulesInv'
  BY <1>1, RulesStep, MatchesStep, LinesStep DEF RulesInv
<1>2. ASSUME UNCHANGED <<diff, rules>> PROVE RulesInv'
  <2>1. RulesFile'  BY <1>2 DEF RulesInv, RulesFile, PathAt
  <2>2. MatchesAreAddedLines'  BY <1>2 DEF RulesInv, MatchesAreAddedLines, PathAt
  <2>3. RulesLine'  BY <1>2 DEF RulesInv, RulesLine
  <2>4. MatchHunks'  BY <1>2 DEF RulesInv, MatchHunks
  <2>5. MatchLineIsOneTooHigh'  BY <1>2 DEF RulesInv, MatchLineIsOneTooHigh
  <2> QED  BY <2>1, <2>2, <2>3, <2>4, <2>5 DEF RulesInv
<1>3. ASSUME NEW l \in AnswerLines, ReadAnswerLine(l) PROVE RulesInv'
  BY <1>2, <1>3 DEF ReadAnswerLine
<1>4. CASE UNCHANGED vars  BY <1>2, <1>4 DEF vars
<1> QED  BY <1>1, <1>3, <1>4 DEF Next

\* Whatever the rules and the diff are, a rule is reported for exactly the
\* added lines it matches, once each, in order, and with the file of the line
\* (rule_engine.rs:270-336).
THEOREM MatchesAreAddedLinesHolds == Spec => []MatchesAreAddedLines
<1>1. RulesInv => MatchesAreAddedLines  BY DEF RulesInv
<1> QED  BY <1>1, TextInit, TextNext, RulesInit, RulesNext, PTL DEF Spec

\* In a hunk whose start could be read the reported line is one more than the
\* line's number in the new file, and one more after a marker, whatever stands
\* before it (rule_engine.rs:287-332).
THEOREM MatchLineIsOneTooHighHolds == Spec => []MatchLineIsOneTooHigh
<1>1. RulesInv => MatchLineIsOneTooHigh  BY DEF RulesInv
<1> QED  BY <1>1, TextInit, TextNext, RulesInit, RulesNext, PTL DEF Spec
-------------------------------------------------------------------------------
(* The parser: what a line does to each part of its state *)

Enders == {"file", "inline", "comment"}
SavedComments == [file : FilePaths, line : Numbers, severity : Levels, body : Seq(Nat)]
ParserTypes ==
    [verdict : Verdicts, summary : Seq(Nat), comments : Seq(SavedComments),
     file : FilePaths \cup {NoPath}, line : Numbers \cup {NoNumber}, severity : Levels,
     body : Seq(Nat), written : BOOLEAN, inSummary : BOOLEAN]

LEMMA AnswerFields ==
    ASSUME NEW l \in AnswerLines
    PROVE  /\ l.kind \in {"verdict", "file", "line", "severity", "summary", "comment",
                          "text", "inline"}
           /\ l.kind = "verdict" => l.verdict \in Verdicts
           /\ l.kind = "file" => l.path \in FilePaths
           /\ l.kind = "line" => l.number \in Numbers \cup {NoNumber}
           /\ l.kind = "severity" => l.level \in Levels
           /\ l.kind \in {"summary", "comment", "text", "inline"} => l.blank \in BOOLEAN
<1>1. CASE l \in [kind : {"verdict"}, verdict : Verdicts]  BY <1>1
<1>2. CASE l \in [kind : {"file"}, path : FilePaths]  BY <1>2
<1>3. CASE l \in [kind : {"line"}, number : Numbers \cup {NoNumber}]  BY <1>3
<1>4. CASE l \in [kind : {"severity"}, level : Levels]  BY <1>4
<1>5. CASE l \in [kind : {"summary", "comment", "text"}, blank : BOOLEAN]  BY <1>5
<1>6. CASE l \in [kind : {"inline"}, blank : {FALSE}]  BY <1>6
<1> QED  BY <1>1, <1>2, <1>3, <1>4, <1>5, <1>6 DEF AnswerLines

\* The line goes to the summary, or to the text of the comment in hand.
GoesToSummary(s, l) ==
    l.kind # "verdict" /\ (l.kind = "summary" \/ (s.inSummary /\ l.kind \notin Enders))
GoesToBody(s, l) ==
    /\ ~ GoesToSummary(s, l)
    /\ \/ l.kind = "comment"
       \/ l.kind \in {"inline", "text"} /\ s.file # NoPath /\ s.line # NoNumber

ParsedFields(s, i, l, r) ==
    /\ r \in ParserTypes
    /\ r.verdict = IF l.kind = "verdict" THEN l.verdict ELSE s.verdict
    /\ r.summary = IF GoesToSummary(s, l) THEN Append(s.summary, i) ELSE s.summary
    /\ r.inSummary <=> IF l.kind = "verdict" THEN s.inSummary ELSE GoesToSummary(s, l)
    /\ r.comments = IF l.kind = "file" THEN Saved(s) ELSE s.comments
    /\ r.file = IF l.kind = "file" THEN l.path ELSE s.file
    /\ r.line = IF l.kind = "file" THEN NoNumber
                ELSE IF l.kind = "line" /\ ~ GoesToSummary(s, l) THEN l.number ELSE s.line
    /\ r.severity = IF l.kind = "file" THEN "info"
                    ELSE IF l.kind = "severity" /\ ~ GoesToSummary(s, l) THEN l.level
                    ELSE s.severity
    /\ r.body = IF l.kind = "file" THEN << >>
                ELSE IF GoesToBody(s, l) THEN Append(s.body, i) ELSE s.body
    /\ r.written <=> IF l.kind = "file" THEN FALSE
                     ELSE s.written \/ (GoesToBody(s, l) /\ ~ l.blank)

LEMMA SavedType ==
    ASSUME NEW s \in ParserTypes
    PROVE  Saved(s) \in Seq(SavedComments)
<1>1. /\ s.comments \in Seq(SavedComments) /\ s.file \in FilePaths \cup {NoPath}
      /\ s.line \in Numbers \cup {NoNumber} /\ s.severity \in Levels /\ s.body \in Seq(Nat)
  BY DEF ParserTypes
<1>2. s.file # NoPath /\ s.line # NoNumber =>
        [file |-> s.file, line |-> s.line, severity |-> s.severity, body |-> s.body]
            \in SavedComments
  BY <1>1 DEF SavedComments
<1> QED  BY <1>1, <1>2 DEF Saved

LEMMA ParseFields ==
    ASSUME NEW s \in ParserTypes, NEW i \in Nat, NEW l \in AnswerLines,
           NEW r, r = ParseLine(s, i, l)
    PROVE  ParsedFields(s, i, l, r)
<1>b. PICK u : u = [s EXCEPT !.inSummary = FALSE]  OBVIOUS
<1>a. s = [verdict |-> s.verdict, summary |-> s.summary, comments |-> s.comments,
           file |-> s.file, line |-> s.line, severity |-> s.severity, body |-> s.body,
           written |-> s.written, inSummary |-> s.inSummary]
  BY DEF ParserTypes
<1>0. /\ s.verdict \in Verdicts /\ s.summary \in Seq(Nat)
      /\ s.comments \in Seq(SavedComments) /\ s.file \in FilePaths \cup {NoPath}
      /\ s.line \in Numbers \cup {NoNumber} /\ s.severity \in Levels
      /\ s.body \in Seq(Nat) /\ s.written \in BOOLEAN /\ s.inSummary \in BOOLEAN
  BY DEF ParserTypes
<1>1. CASE l.kind = "verdict"
  <2>1. r = [s EXCEPT !.verdict = l.verdict]  BY <1>1 DEF ParseLine
  <2>2. l.verdict \in Verdicts  BY <1>1, AnswerFields
  <2>3. r = [verdict |-> l.verdict, summary |-> s.summary, comments |-> s.comments,
             file |-> s.file, line |-> s.line, severity |-> s.severity, body |-> s.body,
             written |-> s.written, inSummary |-> s.inSummary]
    BY <1>a, <2>1
  <2>4. ~ GoesToSummary(s, l) /\ ~ GoesToBody(s, l)  BY <1>1 DEF GoesToSummary, GoesToBody
  <2>5. r \in ParserTypes  BY <1>0, <2>2, <2>3 DEF ParserTypes
  <2> QED  BY <1>1, <2>3, <2>4, <2>5 DEF ParsedFields
<1>2. CASE GoesToSummary(s, l)
  <2>1. l.kind # "verdict" /\ l.kind # "file" /\ ~ GoesToBody(s, l)
    BY <1>2 DEF GoesToSummary, GoesToBody, Enders
  <2>2. r = ToSummary(s, i)  BY <1>2 DEF ParseLine, GoesToSummary, Enders
  <2> DEFINE m == Append(s.summary, i)
  <2>3. m \in Seq(Nat)  BY <1>0
  <2>4. r = [s EXCEPT !.summary = m, !.inSummary = TRUE]  BY <2>2 DEF ToSummary
  <2> HIDE DEF m
  <2>5. r = [verdict |-> s.verdict, summary |-> m, comments |-> s.comments,
             file |-> s.file, line |-> s.line, severity |-> s.severity, body |-> s.body,
             written |-> s.written, inSummary |-> TRUE]
    BY <1>a, <2>4
  <2>6. r \in ParserTypes  BY <1>0, <2>3, <2>5 DEF ParserTypes
  <2> QED  BY <1>2, <2>1, <2>5, <2>6 DEF ParsedFields, m
<1>3. CASE ~ GoesToSummary(s, l) /\ l.kind # "verdict"
  <2>1. r = ParseComment(u, i, l)  BY <1>3, <1>b DEF ParseLine, GoesToSummary, Enders
  <2>2. u = [verdict |-> s.verdict, summary |-> s.summary, comments |-> s.comments,
             file |-> s.file, line |-> s.line, severity |-> s.severity, body |-> s.body,
             written |-> s.written, inSummary |-> FALSE]
    BY <1>a, <1>b
  <2>3. l.kind \in {"file", "line", "severity", "comment", "text", "inline"}
    BY <1>3, AnswerFields DEF GoesToSummary
  <2>4. u \in ParserTypes  BY <1>0, <2>2 DEF ParserTypes
  <2>5. CASE l.kind = "file"
    <3>1. r = NextFile(u, l)  BY <2>1, <2>5, Zenon DEF ParseComment
    <3>2. Saved(u) = Saved(s)  BY <2>2 DEF Saved
    <3> DEFINE m == Saved(s)
    <3>3. m \in Seq(SavedComments)  BY SavedType
    <3>4. r = [u EXCEPT !.comments = m, !.file = l.path, !.line = NoNumber,
                        !.severity = "info", !.body = << >>, !.written = FALSE]
      BY <3>1, <3>2 DEF NextFile
    <3> HIDE DEF m
    <3>5. r = [verdict |-> s.verdict, summary |-> s.summary, comments |-> m,
               file |-> l.path, line |-> NoNumber, severity |-> "info", body |-> << >>,
               written |-> FALSE, inSummary |-> FALSE]
      BY <2>2, <3>4
    <3>6. l.path \in FilePaths  BY <2>5, AnswerFields
    <3>7. r \in ParserTypes
      <4>1. << >> \in Seq(Nat) /\ "info" \in Levels  BY DEF Levels
      <4> QED  BY <1>0, <3>3, <3>5, <3>6, <4>1 DEF ParserTypes
    <3> QED  BY <1>3, <2>5, <3>5, <3>7 DEF ParsedFields, m
  <2>6. CASE l.kind = "line"
    <3>1. r = [u EXCEPT !.line = l.number]  BY <2>1, <2>6, Zenon DEF ParseComment
    <3>2. r = [verdict |-> s.verdict, summary |-> s.summary, comments |-> s.comments,
               file |-> s.file, line |-> l.number, severity |-> s.severity, body |-> s.body,
               written |-> s.written, inSummary |-> FALSE]
      BY <2>2, <3>1
    <3>3. l.number \in Numbers \cup {NoNumber}  BY <2>6, AnswerFields
    <3>4. r \in ParserTypes  BY <1>0, <3>2, <3>3 DEF ParserTypes
    <3>5. ~ GoesToBody(s, l)  BY <2>6 DEF GoesToBody
    <3> QED  BY <1>3, <2>6, <3>2, <3>4, <3>5 DEF ParsedFields
  <2>7. CASE l.kind = "severity"
    <3>1. r = [u EXCEPT !.severity = l.level]
      <4>1. l.kind # "file" /\ l.kind # "line"  BY <2>7
      <4> QED  BY <2>1, <2>7, <4>1, Zenon DEF ParseComment
    <3>2. r = [verdict |-> s.verdict, summary |-> s.summary, comments |-> s.comments,
               file |-> s.file, line |-> s.line, severity |-> l.level, body |-> s.body,
               written |-> s.written, inSummary |-> FALSE]
      BY <2>2, <3>1
    <3>3. l.level \in Levels  BY <2>7, AnswerFields
    <3>4. r \in ParserTypes  BY <1>0, <3>2, <3>3 DEF ParserTypes
    <3>5. ~ GoesToBody(s, l)  BY <2>7 DEF GoesToBody
    <3> QED  BY <1>3, <2>7, <3>2, <3>4, <3>5 DEF ParsedFields
  <2>8. CASE l.kind \in {"comment", "inline", "text"}
    <3>1. r = IF GoesToBody(s, l) THEN ToBody(u, i, l) ELSE u
      <4>1. u.file = s.file /\ u.line = s.line  BY <2>2
      <4>2. CASE l.kind = "comment"
        <5>1. l.kind # "file" /\ l.kind # "line" /\ l.kind # "severity"  BY <4>2
        <5>2. r = ToBody(u, i, l)  BY <2>1, <4>2, <5>1, Zenon DEF ParseComment
        <5> QED  BY <1>3, <4>2, <5>2 DEF GoesToBody
      <4>3. CASE l.kind \in {"inline", "text"}
        <5>1. l.kind # "file" /\ l.kind # "line" /\ l.kind # "severity" /\ l.kind # "comment"
          BY <4>3
        <5>2. r = IF u.file # NoPath /\ u.line # NoNumber THEN ToBody(u, i, l) ELSE u
          BY <2>1, <4>3, <5>1, Zenon DEF ParseComment
        <5> QED  BY <1>3, <4>1, <4>3, <5>1, <5>2 DEF GoesToBody
      <4> QED  BY <2>8, <4>2, <4>3
    <3>2. l.kind # "file" /\ l.kind # "line" /\ l.kind # "severity"  BY <2>8
    <3>3. CASE GoesToBody(s, l)
      <4> DEFINE m == Append(s.body, i)
                 w == s.written \/ ~ l.blank
      <4>1. m \in Seq(Nat) /\ w \in BOOLEAN  BY <1>0
      <4>2. r = [u EXCEPT !.body = m, !.written = w]  BY <2>2, <3>1, <3>3 DEF ToBody
      <4> HIDE DEF m, w
      <4>3. r = [verdict |-> s.verdict, summary |-> s.summary, comments |-> s.comments,
                 file |-> s.file, line |-> s.line, severity |-> s.severity, body |-> m,
                 written |-> w, inSummary |-> FALSE]
        BY <2>2, <4>2
      <4>4. r \in ParserTypes  BY <1>0, <4>1, <4>3 DEF ParserTypes
      <4>5. /\ r.verdict = s.verdict /\ r.summary = s.summary /\ r.comments = s.comments
            /\ r.file = s.file /\ r.line = s.line /\ r.severity = s.severity
            /\ r.body = m /\ r.inSummary = FALSE
        BY <4>3
      <4>6. r.written <=> s.written \/ ~ l.blank
        <5>1. r.written = w  BY <4>3
        <5> QED  BY <5>1, Zenon DEF w
      <4>7. r.body = Append(s.body, i)  BY <4>5 DEF m
      <4> QED  BY <1>3, <3>2, <3>3, <4>4, <4>5, <4>6, <4>7 DEF ParsedFields
    <3>4. CASE ~ GoesToBody(s, l)
      BY <1>3, <2>2, <2>4, <3>1, <3>2, <3>4 DEF ParsedFields
    <3> QED  BY <3>3, <3>4
  <2> QED  BY <2>3, <2>5, <2>6, <2>7, <2>8
<1> QED  BY <1>1, <1>2, <1>3
-------------------------------------------------------------------------------
(* The summary *)

\* After line i of a the parser is in a summary; line i is one of its lines.
NowAt(a, i) ==
    \E j \in 1 .. i : a[j].kind = "summary" /\ \A k \in j .. i : a[k].kind \notin Enders
SumIn(a, i) == a[i].kind \notin {"verdict", "file", "inline", "comment"} /\ NowAt(a, i)

ParserInv ==
    /\ parser \in ParserTypes
    /\ answer = << >> => parser = ParseStart
    /\ parser.inSummary <=> NowAt(answer, Len(answer))
    /\ SummaryIsItsSections

LEMMA MaxIs ==
    ASSUME NEW S \in SUBSET Nat, NEW x \in S, \A y \in S : y <= x
    PROVE  Max(S) = x
<1>1. \A z \in S : (\A y \in S : z >= y) => z = x  OBVIOUS
<1>2. \A y \in S : x >= y  OBVIOUS
<1> QED  BY <1>1, <1>2 DEF Max

LEMMA MaxOf ==
    ASSUME NEW n \in Nat, NEW S \in SUBSET (1 .. n), S # {}
    PROVE  Max(S) \in S /\ \A y \in S : y <= Max(S)
<1>1. PICK x \in S : \A y \in S : y <= x  BY GreatestNumber
<1>2. Max(S) = x  BY <1>1, MaxIs
<1> QED  BY <1>1, <1>2

LEMMA NowStable ==
    ASSUME NEW a \in Seq(AnswerLines), NEW l \in AnswerLines, NEW e, e = Append(a, l),
           NEW i \in 1 .. Len(a)
    PROVE  (NowAt(e, i) <=> NowAt(a, i)) /\ (SumIn(e, i) <=> SumIn(a, i)) /\ e[i] = a[i]
<1>1. \A j \in 1 .. i : e[j] = a[j]  BY AppendLine
<1>2. \A j \in 1 .. i : \A k \in j .. i : e[k] = a[k]  BY <1>1
<1>3. NowAt(e, i) <=> NowAt(a, i)  BY <1>1, <1>2 DEF NowAt
<1> QED  BY <1>1, <1>3 DEF SumIn

LEMMA NowNext ==
    ASSUME NEW a \in Seq(AnswerLines), NEW l \in AnswerLines, NEW e, e = Append(a, l)
    PROVE  /\ NowAt(e, Len(a) + 1)
                <=> l.kind = "summary" \/ (NowAt(a, Len(a)) /\ l.kind \notin Enders)
           /\ SumIn(e, Len(a) + 1) <=> l.kind # "verdict" /\ NowAt(e, Len(a) + 1)
<1> DEFINE n == Len(a)
<1>0. n \in Nat  OBVIOUS
<1>1. n \in Nat /\ e[n + 1] = l /\ \A j \in 1 .. n : e[j] = a[j]  BY AppendLine
<1> HIDE DEF n
<1>2. ASSUME NowAt(e, n + 1)
      PROVE  l.kind = "summary" \/ (NowAt(a, n) /\ l.kind \notin Enders)
  <2>1. PICK j \in 1 .. n + 1 : e[j].kind = "summary"
                               /\ \A k \in j .. n + 1 : e[k].kind \notin Enders
    BY <1>2 DEF NowAt
  <2>2. CASE j = n + 1  BY <1>1, <2>1, <2>2
  <2>3. CASE j \in 1 .. n
    <3>1. \A k \in j .. n : k \in 1 .. n /\ k \in j .. n + 1  BY <1>0, <2>3
    <3>2. n + 1 \in j .. n + 1  BY <1>0, <2>3
    <3>3. \A k \in j .. n : e[k] = a[k]  BY <1>1, <3>1
    <3> QED  BY <1>1, <2>1, <2>3, <3>1, <3>2, <3>3 DEF NowAt
  <2> QED  BY <1>1, <2>2, <2>3
<1>3. ASSUME l.kind = "summary" PROVE NowAt(e, n + 1)
  <2>1. n + 1 \in 1 .. n + 1 /\ \A k \in n + 1 .. n + 1 : k = n + 1  BY <1>1
  <2>2. l.kind \notin Enders  BY <1>3 DEF Enders
  <2> QED  BY <1>1, <1>3, <2>1, <2>2 DEF NowAt
<1>4. ASSUME NowAt(a, n), l.kind \notin Enders PROVE NowAt(e, n + 1)
  <2>1. PICK j \in 1 .. n : a[j].kind = "summary" /\ \A k \in j .. n : a[k].kind \notin Enders
    BY <1>4 DEF NowAt
  <2>2. \A k \in j .. n + 1 : k = n + 1 \/ (k \in j .. n /\ k \in 1 .. n)
    BY <1>0, <2>1
  <2>3. j \in 1 .. n + 1  BY <1>0, <2>1
  <2>4. e[j] = a[j] /\ \A k \in j .. n + 1 : k = n + 1 \/ (k \in j .. n /\ e[k] = a[k])
    BY <1>1, <2>1, <2>2
  <2> QED  BY <1>1, <1>4, <2>1, <2>3, <2>4 DEF NowAt
<1>5. SumIn(e, n + 1) <=> l.kind # "verdict" /\ NowAt(e, n + 1)
  <2>1. NowAt(e, n + 1) => l.kind \notin {"file", "inline", "comment"}
    BY <1>2 DEF Enders
  <2> QED  BY <1>1, <2>1 DEF SumIn
<1>6. NowAt(e, n + 1) <=> l.kind = "summary" \/ (NowAt(a, n) /\ l.kind \notin Enders)
  BY <1>2, <1>3, <1>4
<1> QED  BY <1>5, <1>6 DEF n

LEMMA AnswerStep ==
    ASSUME TextInv, ParserInv, NEW l \in AnswerLines, ReadAnswerLine(l)
    PROVE  /\ answer' = Append(answer, l) /\ answer \in Seq(AnswerLines)
           /\ Len(answer)' = Len(answer) + 1 /\ Len(answer) \in Nat /\ Len(answer) < MaxAnswer
           /\ answer' # << >> /\ answer'[Len(answer) + 1] = l
           /\ \A i \in 1 .. Len(answer) : answer'[i] = answer[i]
           /\ ParsedFields(parser, Len(answer) + 1, l, parser')
           /\ GoesToSummary(parser, l) <=> SumIn(answer', Len(answer) + 1)
<1>1. /\ answer' = Append(answer, l) /\ answer \in Seq(AnswerLines) /\ Len(answer) < MaxAnswer
      /\ parser' = ParseLine(parser, Len(answer) + 1, l) /\ parser \in ParserTypes
  BY DEF ReadAnswerLine, TextInv, ParserInv
<1>2. /\ Len(answer)' = Len(answer) + 1 /\ Len(answer) \in Nat
      /\ answer' # << >> /\ answer'[Len(answer) + 1] = l
      /\ \A i \in 1 .. Len(answer) : answer'[i] = answer[i]
  BY <1>1, AppendLine
<1>3. ParsedFields(parser, Len(answer) + 1, l, parser')
  <2>1. Len(answer) + 1 \in Nat  BY <1>2
  <2> QED  BY <1>1, <2>1, ParseFields
<1>4. GoesToSummary(parser, l) <=> SumIn(answer', Len(answer) + 1)
  <2>1. parser.inSummary <=> NowAt(answer, Len(answer))  BY DEF ParserInv
  <2> QED  BY <1>1, <2>1, NowNext DEF GoesToSummary
<1> QED  BY <1>1, <1>2, <1>3, <1>4

SummaryLines(a) == {i \in 1 .. Len(a) : SumIn(a, i)}
VerdictLines(a) == {i \in 1 .. Len(a) : a[i].kind = "verdict"}

LEMMA SummaryParts ==
    SummaryIsItsSections <=>
        /\ parser.summary = InOrder(SummaryLines(answer))
        /\ parser.verdict = IF VerdictLines(answer) = {} THEN "Comment"
                            ELSE answer[Max(VerdictLines(answer))].verdict
<1>1. SummaryLines(answer) = {i \in 1 .. Len(answer) : InSummary(i)}
  BY DEF SummaryLines, InSummary, SumIn, NowAt, Enders
<1> QED  BY <1>1 DEF SummaryIsItsSections, VerdictLines

LEMMA ParserInit == Init => ParserInv
<1> SUFFICES ASSUME Init PROVE ParserInv  OBVIOUS
<1>1. answer = << >> /\ parser = ParseStart  BY DEF Init
<1>2. SummaryLines(answer) = {} /\ VerdictLines(answer) = {}
  BY <1>1 DEF SummaryLines, VerdictLines
<1>3. InOrder({}) = << >>  BY AscendingEmpty, BoundsAssumption DEF InOrder
<1>4. SummaryIsItsSections
  <2>1. parser.summary = << >> /\ parser.verdict = "Comment"  BY <1>1 DEF ParseStart
  <2> QED  BY <1>2, <1>3, <2>1, SummaryParts
<1>5. parser \in ParserTypes
  <2>1. << >> \in Seq(Nat) /\ << >> \in Seq(SavedComments)  OBVIOUS
  <2>2. "Comment" \in Verdicts /\ "info" \in Levels  BY DEF Verdicts, Levels
  <2> HIDE DEF Verdicts, Levels, SavedComments
  <2> QED  BY <1>1, <2>1, <2>2 DEF ParserTypes, ParseStart
<1>6. ~ NowAt(answer, Len(answer)) /\ ~ parser.inSummary
  BY <1>1 DEF NowAt, ParseStart
<1> QED  BY <1>1, <1>4, <1>5, <1>6 DEF ParserInv

LEMMA ParserNext == ParserInv /\ TextInv /\ [Next]_vars => ParserInv'
<1> SUFFICES ASSUME ParserInv, TextInv, [Next]_vars PROVE ParserInv'  OBVIOUS
<1>1. ASSUME NEW l \in AnswerLines, ReadAnswerLine(l) PROVE ParserInv'
  <2> DEFINE n == Len(answer)
  <2>1. /\ answer' = Append(answer, l) /\ answer \in Seq(AnswerLines)
        /\ Len(answer)' = n + 1 /\ n \in Nat /\ n < MaxAnswer
        /\ answer' # << >> /\ answer'[n + 1] = l
        /\ \A i \in 1 .. n : answer'[i] = answer[i]
        /\ ParsedFields(parser, n + 1, l, parser')
        /\ GoesToSummary(parser, l) <=> SumIn(answer', n + 1)
    BY <1>1, AnswerStep
  <2>2. \A i \in 1 .. n : SumIn(answer', i) <=> SumIn(answer, i)
    BY <2>1, NowStable
  <2>3. parser'.inSummary <=> NowAt(answer', n + 1)
    <3>1. parser.inSummary <=> NowAt(answer, n)  BY DEF ParserInv
    <3>2. CASE l.kind = "verdict"
      <4>1. parser'.inSummary <=> parser.inSummary  BY <2>1, <3>2 DEF ParsedFields
      <4>2. NowAt(answer', n + 1) <=> NowAt(answer, n)
        BY <2>1, <3>2, NowNext DEF Enders
      <4> QED  BY <3>1, <4>1, <4>2
    <3>3. CASE l.kind # "verdict"
      <4>1. parser'.inSummary <=> GoesToSummary(parser, l)  BY <2>1, <3>3 DEF ParsedFields
      <4>2. SumIn(answer', n + 1) <=> NowAt(answer', n + 1)  BY <2>1, <3>3, NowNext
      <4> QED  BY <2>1, <4>1, <4>2
    <3> QED  BY <3>2, <3>3
  <2>4. \A i : i \in 1 .. n + 1 <=> i \in 1 .. n \/ i = n + 1  BY <2>1
  <2>5. parser'.summary = InOrder(SummaryLines(answer'))
    <3>1. parser.summary = InOrder(SummaryLines(answer))  BY SummaryParts DEF ParserInv
    <3>2. SummaryLines(answer') = IF GoesToSummary(parser, l)
                                  THEN SummaryLines(answer) \cup {n + 1}
                                  ELSE SummaryLines(answer)
      BY <2>1, <2>2, <2>4 DEF SummaryLines
    <3>3. parser'.summary = IF GoesToSummary(parser, l) THEN Append(parser.summary, n + 1)
                                                        ELSE parser.summary
      BY <2>1 DEF ParsedFields
    <3>4. InOrder(SummaryLines(answer) \cup {n + 1}) = Append(InOrder(SummaryLines(answer)), n + 1)
      <4>1. /\ MaxDiff + MaxAnswer \in Nat /\ n + 1 \in 1 .. MaxDiff + MaxAnswer
            /\ SummaryLines(answer) \in SUBSET (1 .. (n + 1) - 1)
        BY <2>1, BoundsAssumption DEF SummaryLines
      <4> HIDE DEF n
      <4> QED  BY <4>1, AscendingNext DEF InOrder
    <3> QED  BY <3>1, <3>2, <3>3, <3>4
  <2>6. parser'.verdict = IF VerdictLines(answer') = {} THEN "Comment"
                          ELSE answer'[Max(VerdictLines(answer'))].verdict
    <3>1. parser.verdict = IF VerdictLines(answer) = {} THEN "Comment"
                           ELSE answer[Max(VerdictLines(answer))].verdict
      BY SummaryParts DEF ParserInv
    <3>2. VerdictLines(answer') = IF l.kind = "verdict" THEN VerdictLines(answer) \cup {n + 1}
                                                        ELSE VerdictLines(answer)
      BY <2>1, <2>4 DEF VerdictLines
    <3>3. parser'.verdict = IF l.kind = "verdict" THEN l.verdict ELSE parser.verdict
      BY <2>1 DEF ParsedFields
    <3>4. VerdictLines(answer) \in SUBSET (1 .. n)  BY DEF VerdictLines
    <3>5. CASE l.kind = "verdict"
      <4>1. Max(VerdictLines(answer')) = n + 1
        <5>1. /\ VerdictLines(answer') \in SUBSET Nat /\ n + 1 \in VerdictLines(answer')
              /\ \A y \in VerdictLines(answer') : y <= n + 1
          BY <2>1, <3>2, <3>4, <3>5
        <5> QED  BY <5>1, MaxIs
      <4>2. VerdictLines(answer') # {}  BY <3>2, <3>5
      <4> QED  BY <2>1, <3>3, <3>5, <4>1, <4>2
    <3>6. CASE l.kind # "verdict"
      <4>1. VerdictLines(answer) # {} => Max(VerdictLines(answer)) \in 1 .. n
        BY <2>1, <3>4, MaxOf
      <4> QED  BY <2>1, <3>1, <3>2, <3>3, <3>6, <4>1
    <3> QED  BY <3>5, <3>6
  <2>7. SummaryIsItsSections' <=>
        /\ parser'.summary = InOrder(SummaryLines(answer'))
        /\ parser'.verdict = IF VerdictLines(answer') = {} THEN "Comment"
                             ELSE answer'[Max(VerdictLines(answer'))].verdict
    <3>1. SummaryLines(answer') = {i \in 1 .. Len(answer') : InSummary(i)'}
      BY DEF SummaryLines, InSummary, SumIn, NowAt, Enders
    <3> QED  BY <3>1 DEF SummaryIsItsSections, VerdictLines
  <2>8. parser' \in ParserTypes  BY <2>1 DEF ParsedFields
  <2> QED  BY <2>1, <2>3, <2>5, <2>6, <2>7, <2>8 DEF ParserInv
<1>2. ASSUME UNCHANGED <<answer, parser>> PROVE ParserInv'
  BY <1>2 DEF ParserInv, SummaryIsItsSections, InSummary
<1>3. ASSUME NEW l \in DiffLines, ReadDiffLine(l) PROVE ParserInv'
  BY <1>2, <1>3 DEF ReadDiffLine
<1>4. CASE UNCHANGED vars  BY <1>2, <1>4 DEF vars
<1> QED  BY <1>1, <1>3, <1>4 DEF Next

\* Whatever the LLM answers, the summary has exactly the lines of its sections,
\* and the last verdict counts (inline_comments.rs:44-77).
THEOREM SummaryIsItsSectionsHolds == Spec => []SummaryIsItsSections
<1>1. ParserInv => SummaryIsItsSections  BY DEF ParserInv
<1> QED  BY <1>1, TextInit, TextNext, ParserInit, ParserNext, PTL DEF Spec
===============================================================================

------------------------- MODULE ReviewCommentsProofs -------------------------
(***************************************************************************)
(* Proof that the comments of a review are those of the answer's blocks.   *)
(* HandInv says what the parser holds in hand: the block after the last    *)
(* FILE line.  ClosedInv says what it has saved: the blocks before that.   *)
(* Both speak of a block by operators over the answer, so that the lemmas  *)
(* say what one more line does to the block.                               *)
(***************************************************************************)
EXTENDS ReviewTextProofs

\* Block, Given, HasNumber and BodyOf of ReviewText, for an answer a.
BlockIn(a, b) == {i \in b .. Len(a) : \A j \in b + 1 .. i : a[j].kind # "file"}
GivenIn(a, kind, b, e) == {i \in BlockIn(a, b) : i < e /\ a[i].kind = kind /\ ~ SumIn(a, i)}
NumberIn(a, b, e) ==
    LET given == GivenIn(a, "line", b, e)
    IN  given # {} /\ a[Max(given)].number # NoNumber
BodyIn(a, b) ==
    {i \in BlockIn(a, b) :
        \/ a[i].kind = "comment"
        \/ a[i].kind \in {"inline", "text"} /\ ~ SumIn(a, i) /\ NumberIn(a, b, i)}

\* What the block gives to a comment; whether its text is more than blanks.
LineIn(a, b) ==
    LET given == GivenIn(a, "line", b, Len(a) + 1)
    IN  IF given = {} THEN NoNumber ELSE a[Max(given)].number
SeverityIn(a, b) ==
    LET given == GivenIn(a, "severity", b, Len(a) + 1)
    IN  IF given = {} THEN "info" ELSE a[Max(given)].level
WrittenIn(a, b) == \E i \in BodyIn(a, b) : ~ a[i].blank
CommentIn(a, b) ==
    [file |-> a[b].path, line |-> LineIn(a, b), severity |-> SeverityIn(a, b),
     body |-> InOrder(BodyIn(a, b))]

\* No FILE line follows line b; the blocks that make a comment; those saved.
Open(a, b) == \A j \in b + 1 .. Len(a) : a[j].kind # "file"
Complete(a) ==
    {b \in 1 .. Len(a) : a[b].kind = "file" /\ LineIn(a, b) # NoNumber /\ WrittenIn(a, b)}
Closed(a) == {b \in Complete(a) : ~ Open(a, b)}
Made(a, S) == [k \in 1 .. Len(InOrder(S)) |-> CommentIn(a, InOrder(S)[k])]

HandInv ==
    /\ (\A b \in 1 .. Len(answer) : answer[b].kind # "file") => parser.file = NoPath
    /\ \A b \in 1 .. Len(answer) :
         answer[b].kind = "file" /\ Open(answer, b) =>
            /\ parser.file = answer[b].path /\ parser.line = LineIn(answer, b)
            /\ parser.severity = SeverityIn(answer, b)
            /\ parser.body = InOrder(BodyIn(answer, b))
            /\ parser.written <=> WrittenIn(answer, b)
ClosedInv == parser.comments = Made(answer, Closed(answer))
CommentsInv == HandInv /\ ClosedInv
-------------------------------------------------------------------------------
(* What one more line does to a block *)

\* e is the answer a and one more line.
Adds(a, l, e) == a \in Seq(AnswerLines) /\ l \in AnswerLines /\ e = Append(a, l)

LEMMA Added ==
    ASSUME NEW a, NEW l, NEW e, Adds(a, l, e)
    PROVE  /\ Len(a) \in Nat /\ Len(e) = Len(a) + 1 /\ e[Len(a) + 1] = l
           /\ Len(a) + 1 \notin 1 .. Len(a)
           /\ \A j \in 1 .. Len(a) : e[j] = a[j] /\ (SumIn(e, j) <=> SumIn(a, j))
<1>1. a \in Seq(AnswerLines) /\ l \in AnswerLines /\ e = Append(a, l)  BY DEF Adds
<1>2. Len(a) \in Nat /\ Len(e) = Len(a) + 1 /\ e[Len(a) + 1] = l  BY <1>1, AppendLine
<1>3. \A j \in 1 .. Len(a) : e[j] = a[j] /\ (SumIn(e, j) <=> SumIn(a, j))
  BY <1>1, NowStable
<1>4. Len(a) + 1 \notin 1 .. Len(a)  BY <1>2
<1> QED  BY <1>2, <1>3, <1>4

\* The line goes to block b: no FILE line stands between.
Joins(a, l, b) == Open(a, b) /\ l.kind # "file"

LEMMA BlockNext ==
    ASSUME NEW a, NEW l, NEW e, Adds(a, l, e),
           NEW b \in 1 .. Len(a)
    PROVE  /\ BlockIn(e, b) = IF Joins(a, l, b) THEN BlockIn(a, b) \cup {Len(a) + 1}
                                                 ELSE BlockIn(a, b)
           /\ Open(e, b) <=> Joins(a, l, b)
           /\ BlockIn(a, b) \subseteq 1 .. Len(a)
<1> DEFINE n == Len(a)
<1>0. n \in Nat /\ Len(e) = n + 1  BY Added
<1>1. e[n + 1] = l /\ \A j \in 1 .. n : e[j] = a[j]  BY Added
<1> HIDE DEF n
<1>2. b \in 1 .. n  BY DEF n
<1>3. \A i \in b .. n : i \in 1 .. n /\ i # n + 1 /\ \A j \in b + 1 .. i : j \in 1 .. n
  BY <1>0, <1>2
<1>4. \A i : i \in b .. n + 1 <=> i \in b .. n \/ i = n + 1  BY <1>0, <1>2
<1>5. \A j : j \in b + 1 .. n + 1 <=> j \in b + 1 .. n \/ j = n + 1  BY <1>0, <1>2
<1>6. \A j \in b + 1 .. n : j \in 1 .. n  BY <1>0, <1>2
<1>7. Open(e, b) <=> Joins(a, l, b)
  <2>1. Open(e, b) <=> \A j \in b + 1 .. n + 1 : e[j].kind # "file"  BY <1>0 DEF Open
  <2>2. Open(a, b) <=> \A j \in b + 1 .. n : a[j].kind # "file"  BY DEF Open, n
  <2> QED  BY <1>1, <1>5, <1>6, <2>1, <2>2 DEF Joins
<1>8. BlockIn(e, b) = {i \in b .. n + 1 : \A j \in b + 1 .. i : e[j].kind # "file"}
  BY <1>0 DEF BlockIn
<1>9. BlockIn(a, b) = {i \in b .. n : \A j \in b + 1 .. i : a[j].kind # "file"}
  BY DEF BlockIn, n
<1>10. \A i \in b .. n : i \in BlockIn(e, b) <=> i \in BlockIn(a, b)
  BY <1>1, <1>3, <1>4, <1>8, <1>9
<1>11. n + 1 \in BlockIn(e, b) <=> Joins(a, l, b)
  <2>1. Open(e, b) <=> \A j \in b + 1 .. n + 1 : e[j].kind # "file"  BY <1>0 DEF Open
  <2> QED  BY <1>4, <1>7, <1>8, <2>1
<1>12. BlockIn(a, b) \subseteq b .. n /\ BlockIn(e, b) \subseteq b .. n + 1
  BY <1>8, <1>9
<1>13. BlockIn(a, b) \subseteq 1 .. n  BY <1>3, <1>12
<1>14. BlockIn(e, b) = IF Joins(a, l, b) THEN BlockIn(a, b) \cup {n + 1} ELSE BlockIn(a, b)
  <2>1. n + 1 \notin b .. n /\ BlockIn(e, b) \subseteq b .. n \cup {n + 1}
    BY <1>3, <1>4, <1>12
  <2>2. /\ n + 1 \in BlockIn(e, b) => BlockIn(e, b) = BlockIn(a, b) \cup {n + 1}
        /\ n + 1 \notin BlockIn(e, b) => BlockIn(e, b) = BlockIn(a, b)
    BY <1>10, <1>12, <2>1, Zenon
  <2> QED  BY <1>11, <2>2
<1> QED  BY <1>7, <1>13, <1>14 DEF n

\* The numbers of some lines of a; one more number.
Among(A, a) == A \subseteq 1 .. Len(a)
With(A, i) == A \cup {i}

\* The lines before p that are given are those of the lines before p.
LEMMA GivenBefore ==
    ASSUME NEW a, NEW l, NEW e, Adds(a, l, e), NEW b \in 1 .. Len(a), NEW kind,
           NEW p \in 1 .. Len(a) + 1
    PROVE  GivenIn(e, kind, b, p) = GivenIn(a, kind, b, p) /\ Among(GivenIn(a, kind, b, p), a)
<1>1. \A j \in 1 .. Len(a) : e[j] = a[j] /\ (SumIn(e, j) <=> SumIn(a, j))  BY Added
<1>2. \/ BlockIn(e, b) = BlockIn(a, b) \cup {Len(a) + 1}
      \/ BlockIn(e, b) = BlockIn(a, b)
  BY BlockNext
<1>3. BlockIn(a, b) \subseteq 1 .. Len(a)  BY BlockNext
<1>4. ~ (Len(a) + 1 < p)
  <2>1. Len(a) \in Nat  BY Added
  <2> QED  BY <2>1
<1> QED  BY <1>1, <1>2, <1>3, <1>4 DEF GivenIn, Among

LEMMA GivenNext ==
    ASSUME NEW a, NEW l, NEW e, Adds(a, l, e), NEW b \in 1 .. Len(a), NEW kind
    PROVE  GivenIn(e, kind, b, Len(e) + 1)
             = IF Joins(a, l, b) /\ l.kind = kind /\ ~ SumIn(e, Len(a) + 1)
               THEN With(GivenIn(a, kind, b, Len(a) + 1), Len(a) + 1)
               ELSE GivenIn(a, kind, b, Len(a) + 1)
<1> DEFINE n == Len(a)
<1>0. n \in Nat /\ Len(e) = n + 1  BY Added
<1>1. e[n + 1] = l /\ \A j \in 1 .. n : e[j] = a[j] /\ (SumIn(e, j) <=> SumIn(a, j))
  BY Added
<1>2. /\ BlockIn(e, b) = IF Joins(a, l, b) THEN BlockIn(a, b) \cup {n + 1} ELSE BlockIn(a, b)
      /\ BlockIn(a, b) \subseteq 1 .. n
  BY BlockNext
<1> HIDE DEF n
<1>3. \A i \in 1 .. n : i < n + 1 /\ i < n + 2 /\ i # n + 1  BY <1>0
<1>4. n + 1 < n + 2  BY <1>0
<1>6. GivenIn(e, kind, b, n + 2)
        = IF Joins(a, l, b) /\ l.kind = kind /\ ~ SumIn(e, n + 1)
          THEN GivenIn(a, kind, b, n + 1) \cup {n + 1} ELSE GivenIn(a, kind, b, n + 1)
  <2>1. \A i \in 1 .. n : i \in GivenIn(e, kind, b, n + 2) <=> i \in GivenIn(a, kind, b, n + 1)
    BY <1>1, <1>2, <1>3 DEF GivenIn
  <2>2. n + 1 \in GivenIn(e, kind, b, n + 2)
            <=> Joins(a, l, b) /\ l.kind = kind /\ ~ SumIn(e, n + 1)
    BY <1>1, <1>2, <1>3, <1>4 DEF GivenIn
  <2>3. /\ GivenIn(e, kind, b, n + 2) \subseteq 1 .. n \cup {n + 1}
        /\ GivenIn(a, kind, b, n + 1) \subseteq 1 .. n
    BY <1>2 DEF GivenIn
  <2>4. n + 1 \notin 1 .. n  BY <1>3
  <2> DEFINE A == GivenIn(e, kind, b, n + 2)
             B == GivenIn(a, kind, b, n + 1)
  <2>5. (n + 1 \in A => A = B \cup {n + 1}) /\ (n + 1 \notin A => A = B)
    <3>1. A \subseteq 1 .. n \cup {n + 1} /\ B \subseteq 1 .. n  BY <2>3
    <3>2. \A i \in 1 .. n : i \in A <=> i \in B  BY <2>1
    <3> HIDE DEF A, B
    <3> QED  BY <2>4, <3>1, <3>2, Zenon
  <2> QED  BY <2>2, <2>5
<1>7. Len(e) + 1 = n + 2  BY <1>0
<1> QED  BY <1>6, <1>7 DEF n, With

\* The last LINE of a block, its last SEVERITY.
LEMMA LastGiven ==
    ASSUME NEW a, NEW l, NEW e, Adds(a, l, e), NEW A, Among(A, a), A # {}
    PROVE  e[Max(A)] = a[Max(A)]
<1>1. Len(a) \in Nat /\ \A j \in 1 .. Len(a) : e[j] = a[j]  BY Added
<1>2. A \in SUBSET (1 .. Len(a))  BY DEF Among
<1>3. Max(A) \in A  BY <1>1, <1>2, MaxOf
<1> QED  BY <1>1, <1>2, <1>3

LEMMA NewGiven ==
    ASSUME NEW a, NEW l, NEW e, Adds(a, l, e), NEW A, Among(A, a)
    PROVE  With(A, Len(a) + 1) # {} /\ e[Max(With(A, Len(a) + 1))] = l
<1> DEFINE n == Len(a)
           C == With(A, n + 1)
<1>1. n \in Nat /\ e[n + 1] = l  BY Added
<1>2. A \in SUBSET (1 .. n)  BY DEF Among
<1> HIDE DEF n
<1>3. C \in SUBSET Nat /\ n + 1 \in C /\ \A y \in C : y <= n + 1  BY <1>1, <1>2 DEF With
<1> HIDE DEF C
<1>4. Max(C) = n + 1  BY <1>3, MaxIs
<1> QED  BY <1>1, <1>3, <1>4 DEF C, n

LEMMA NumberNext ==
    ASSUME NEW a, NEW l, NEW e, Adds(a, l, e),
           NEW b \in 1 .. Len(a), NEW p \in 1 .. Len(a) + 1
    PROVE  NumberIn(e, b, p) <=> NumberIn(a, b, p)
<1>1. PICK kind : kind = "line"  OBVIOUS
<1>2. GivenIn(e, kind, b, p) = GivenIn(a, kind, b, p) /\ Among(GivenIn(a, kind, b, p), a)
  BY GivenBefore
<1>3. GivenIn(a, kind, b, p) # {}
        => e[Max(GivenIn(a, kind, b, p))] = a[Max(GivenIn(a, kind, b, p))]
  BY <1>2, LastGiven
<1> QED  BY <1>1, <1>2, <1>3 DEF NumberIn

LEMMA BlockLineNext ==
    ASSUME NEW a, NEW l, NEW e, Adds(a, l, e),
           NEW b \in 1 .. Len(a)
    PROVE  /\ LineIn(e, b) = IF Joins(a, l, b) /\ l.kind = "line" /\ ~ SumIn(e, Len(a) + 1)
                             THEN l.number ELSE LineIn(a, b)
           /\ SeverityIn(e, b)
                = IF Joins(a, l, b) /\ l.kind = "severity" /\ ~ SumIn(e, Len(a) + 1)
                  THEN l.level ELSE SeverityIn(a, b)
<1>1. LineIn(e, b) = IF Joins(a, l, b) /\ l.kind = "line" /\ ~ SumIn(e, Len(a) + 1)
                     THEN l.number ELSE LineIn(a, b)
  <2> DEFINE A == GivenIn(a, "line", b, Len(a) + 1)
             C == GivenIn(e, "line", b, Len(e) + 1)
  <2>1. PICK kind : kind = "line"  OBVIOUS
  <2>2. GivenIn(e, kind, b, Len(e) + 1)
             = IF Joins(a, l, b) /\ l.kind = kind /\ ~ SumIn(e, Len(a) + 1)
               THEN With(GivenIn(a, kind, b, Len(a) + 1), Len(a) + 1)
               ELSE GivenIn(a, kind, b, Len(a) + 1)
    BY GivenNext
  <2>a. Among(GivenIn(a, kind, b, Len(a) + 1), a)
    <3>1. Len(a) + 1 \in 1 .. Len(a) + 1
      <4>1. Len(a) \in Nat  BY Added
      <4> QED  BY <4>1
    <3> QED  BY <3>1, GivenBefore
  <2>3. /\ LineIn(a, b) = IF A = {} THEN NoNumber ELSE a[Max(A)].number
        /\ LineIn(e, b) = IF C = {} THEN NoNumber ELSE e[Max(C)].number
    BY DEF LineIn
  <2>4. C = IF Joins(a, l, b) /\ l.kind = "line" /\ ~ SumIn(e, Len(a) + 1)
            THEN With(A, Len(a) + 1) ELSE A
    BY <2>1, <2>2
  <2>5. Among(A, a)  BY <2>1, <2>a
  <2> HIDE DEF A, C
  <2>6. /\ A # {} => e[Max(A)] = a[Max(A)]
        /\ With(A, Len(a) + 1) # {} /\ e[Max(With(A, Len(a) + 1))] = l
    BY <2>5, LastGiven, NewGiven
  <2> QED  BY <2>3, <2>4, <2>6
<1>2. SeverityIn(e, b)
         = IF Joins(a, l, b) /\ l.kind = "severity" /\ ~ SumIn(e, Len(a) + 1)
           THEN l.level ELSE SeverityIn(a, b)
  <2> DEFINE A == GivenIn(a, "severity", b, Len(a) + 1)
             C == GivenIn(e, "severity", b, Len(e) + 1)
  <2>1. PICK kind : kind = "severity"  OBVIOUS
  <2>2. GivenIn(e, kind, b, Len(e) + 1)
             = IF Joins(a, l, b) /\ l.kind = kind /\ ~ SumIn(e, Len(a) + 1)
               THEN With(GivenIn(a, kind, b, Len(a) + 1), Len(a) + 1)
               ELSE GivenIn(a, kind, b, Len(a) + 1)
    BY GivenNext
  <2>a. Among(GivenIn(a, kind, b, Len(a) + 1), a)
    <3>1. Len(a) + 1 \in 1 .. Len(a) + 1
      <4>1. Len(a) \in Nat  BY Added
      <4> QED  BY <4>1
    <3> QED  BY <3>1, GivenBefore
  <2>3. /\ SeverityIn(a, b) = IF A = {} THEN "info" ELSE a[Max(A)].level
        /\ SeverityIn(e, b) = IF C = {} THEN "info" ELSE e[Max(C)].level
    BY DEF SeverityIn
  <2>4. C = IF Joins(a, l, b) /\ l.kind = "severity" /\ ~ SumIn(e, Len(a) + 1)
            THEN With(A, Len(a) + 1) ELSE A
    BY <2>1, <2>2
  <2>5. Among(A, a)  BY <2>1, <2>a
  <2> HIDE DEF A, C
  <2>6. /\ A # {} => e[Max(A)] = a[Max(A)]
        /\ With(A, Len(a) + 1) # {} /\ e[Max(With(A, Len(a) + 1))] = l
    BY <2>5, LastGiven, NewGiven
  <2> QED  BY <2>3, <2>4, <2>6
<1> QED  BY <1>1, <1>2

\* The line is text of block b.
IsText(a, l, e, b) ==
    /\ Joins(a, l, b)
    /\ \/ l.kind = "comment"
       \/ /\ l.kind \in {"inline", "text"} /\ ~ SumIn(e, Len(a) + 1)
          /\ NumberIn(a, b, Len(a) + 1)

LEMMA BodyNext ==
    ASSUME NEW a, NEW l, NEW e, Adds(a, l, e), NEW b \in 1 .. Len(a)
    PROVE  /\ BodyIn(e, b) = IF IsText(a, l, e, b) THEN With(BodyIn(a, b), Len(a) + 1)
                                                   ELSE BodyIn(a, b)
           /\ Among(BodyIn(a, b), a)
           /\ WrittenIn(e, b) <=> WrittenIn(a, b) \/ (IsText(a, l, e, b) /\ ~ l.blank)
<1> DEFINE n == Len(a)
<1>0. n \in Nat /\ n + 1 \notin 1 .. n /\ 1 .. n \subseteq 1 .. n + 1 /\ n + 1 \in 1 .. n + 1
  <2>1. n \in Nat  BY Added
  <2> HIDE DEF n
  <2> QED  BY <2>1
<1>1. e[n + 1] = l /\ \A j \in 1 .. n : e[j] = a[j] /\ (SumIn(e, j) <=> SumIn(a, j))
  BY Added
<1>2. \A i \in 1 .. n + 1 : NumberIn(e, b, i) <=> NumberIn(a, b, i)  BY NumberNext
<1>3. /\ BlockIn(e, b) = IF Joins(a, l, b) THEN BlockIn(a, b) \cup {n + 1} ELSE BlockIn(a, b)
      /\ BlockIn(a, b) \subseteq 1 .. n
  BY BlockNext
<1>a. IsText(a, l, e, b)
        <=> /\ Joins(a, l, b)
            /\ \/ l.kind = "comment"
               \/ /\ l.kind \in {"inline", "text"} /\ ~ SumIn(e, n + 1)
                  /\ NumberIn(a, b, n + 1)
  BY DEF IsText
<1> DEFINE A == BodyIn(e, b)
           B == BodyIn(a, b)
<1>4. A \subseteq 1 .. n \cup {n + 1} /\ B \subseteq 1 .. n  BY <1>3 DEF BodyIn
<1> HIDE DEF n
<1>5. \A i \in 1 .. n : i \in A <=> i \in B  BY <1>0, <1>1, <1>2, <1>3 DEF BodyIn
<1>6. n + 1 \in A <=> IsText(a, l, e, b)  BY <1>0, <1>1, <1>2, <1>3, <1>a DEF BodyIn
<1>7. WrittenIn(a, b) <=> \E i \in B : ~ a[i].blank  BY DEF WrittenIn
<1>8. WrittenIn(e, b) <=> \E i \in A : ~ e[i].blank  BY DEF WrittenIn
<1> HIDE DEF A, B
<1>9. A = IF IsText(a, l, e, b) THEN B \cup {n + 1} ELSE B
  <2>1. (n + 1 \in A => A = B \cup {n + 1}) /\ (n + 1 \notin A => A = B)
    BY <1>0, <1>4, <1>5, Zenon
  <2> QED  BY <1>6, <2>1
<1>10. (\E i \in A : ~ e[i].blank)
          <=> (\E i \in B : ~ a[i].blank) \/ (IsText(a, l, e, b) /\ ~ l.blank)
  <2>1. \A i \in B : e[i] = a[i]  BY <1>1, <1>4
  <2> QED  BY <1>1, <1>9, <2>1
<1> QED  BY <1>4, <1>7, <1>8, <1>9, <1>10 DEF A, B, n, With, Among

\* A block that the line does not join stays as it is.
LEMMA OtherBlock ==
    ASSUME NEW a, NEW l, NEW e, Adds(a, l, e), NEW b \in 1 .. Len(a), ~ Joins(a, l, b)
    PROVE  /\ LineIn(e, b) = LineIn(a, b) /\ (WrittenIn(e, b) <=> WrittenIn(a, b))
           /\ CommentIn(e, b) = CommentIn(a, b) /\ e[b] = a[b] /\ ~ Open(e, b)
<1>1. LineIn(e, b) = LineIn(a, b) /\ SeverityIn(e, b) = SeverityIn(a, b)  BY BlockLineNext
<1>2. ~ IsText(a, l, e, b)  BY DEF IsText
<1>3. BodyIn(e, b) = BodyIn(a, b) /\ (WrittenIn(e, b) <=> WrittenIn(a, b))  BY <1>2, BodyNext
<1>4. e[b] = a[b]  BY Added
<1>5. ~ Open(e, b)  BY BlockNext
<1> QED  BY <1>1, <1>3, <1>4, <1>5 DEF CommentIn

\* A FILE line begins a block that has nothing yet.
LEMMA NewBlock ==
    ASSUME NEW a, NEW l, NEW e, Adds(a, l, e), l.kind = "file"
    PROVE  /\ LineIn(e, Len(a) + 1) = NoNumber /\ SeverityIn(e, Len(a) + 1) = "info"
           /\ BodyIn(e, Len(a) + 1) = {} /\ ~ WrittenIn(e, Len(a) + 1)
<1> DEFINE n == Len(a)
<1>1. n \in Nat /\ Len(e) = n + 1 /\ e[n + 1].kind = "file"  BY Added
<1> HIDE DEF n
<1>2. BlockIn(e, n + 1) \subseteq {n + 1}  BY <1>1 DEF BlockIn
<1>3. \A p : GivenIn(e, "line", n + 1, p) = {} /\ GivenIn(e, "severity", n + 1, p) = {}
  BY <1>1, <1>2 DEF GivenIn
<1>4. BodyIn(e, n + 1) = {}  BY <1>1, <1>2 DEF BodyIn
<1> QED  BY <1>3, <1>4 DEF LineIn, SeverityIn, WrittenIn, n
-------------------------------------------------------------------------------
(* The comments made from a set of blocks *)

Limit == MaxDiff + MaxAnswer
LEMMA LimitNat == Limit \in Nat  BY BoundsAssumption DEF Limit

LEMMA MadeEmpty == ASSUME NEW a PROVE Made(a, {}) = << >>
<1>1. InOrder({}) = << >>  BY AscendingEmpty, LimitNat DEF InOrder, Limit
<1> DEFINE m == Made(a, {})
<1>2. m = [k \in 1 .. Len(<< >>) |-> CommentIn(a, InOrder({})[k])]  BY <1>1 DEF Made
<1>3. 1 .. Len(<< >>) = {}  OBVIOUS
<1> QED  BY <1>2, <1>3

LEMMA MadeSame ==
    ASSUME NEW a, NEW e, NEW S \in SUBSET (1 .. Limit),
           \A b \in S : CommentIn(e, b) = CommentIn(a, b)
    PROVE  Made(e, S) = Made(a, S)
<1>1. \A k \in 1 .. Len(InOrder(S)) : InOrder(S)[k] \in S
  BY AscendingOf, LimitNat DEF InOrder, Limit
<1> QED  BY <1>1 DEF Made

LEMMA MadeNext ==
    ASSUME NEW a, NEW m \in 1 .. Limit, NEW S \in SUBSET (1 .. m - 1)
    PROVE  Made(a, S \cup {m}) = Append(Made(a, S), CommentIn(a, m))
<1> DEFINE o == InOrder(S)
           C(b) == CommentIn(a, b)
<1>1. InOrder(S \cup {m}) = Append(o, m)
  BY AscendingNext, LimitNat DEF InOrder, Limit
<1>2. o \in Seq(Nat)
  <2>1. S \in SUBSET (1 .. Limit)  BY LimitNat
  <2> QED  BY <2>1, AscendingOf, LimitNat DEF InOrder, Limit
<1>3. Made(a, S) = [k \in 1 .. Len(o) |-> C(o[k])]  BY DEF Made
<1>4. Made(a, S \cup {m}) = [k \in 1 .. Len(Append(o, m)) |-> C(Append(o, m)[k])]
  BY <1>1 DEF Made
<1> HIDE DEF o, C
<1>5. [k \in 1 .. Len(Append(o, m)) |-> C(Append(o, m)[k])]
        = Append([k \in 1 .. Len(o) |-> C(o[k])], C(m))
  BY <1>2
<1> QED  BY <1>3, <1>4, <1>5 DEF C
-------------------------------------------------------------------------------
(* The parser *)

LEMMA AnswerFacts ==
    ASSUME TextInv
    PROVE  /\ answer \in Seq(AnswerLines) /\ Len(answer) \in Nat
           /\ 1 .. Len(answer) \subseteq 1 .. Limit
           /\ \A b \in 1 .. Len(answer) : answer[b].kind = "file" => answer[b].path # NoPath
<1>1. answer \in Seq(AnswerLines) /\ Len(answer) <= MaxAnswer  BY DEF TextInv
<1>2. Len(answer) \in Nat  BY <1>1
<1>3. 1 .. Len(answer) \subseteq 1 .. Limit  BY <1>1, <1>2, BoundsAssumption DEF Limit
<1>4. ASSUME NEW b \in 1 .. Len(answer), answer[b].kind = "file"
      PROVE  answer[b].path # NoPath
  <2>1. answer[b] \in AnswerLines  BY <1>1
  <2>2. answer[b].path \in FilePaths  BY <1>4, <2>1, AnswerFields
  <2> QED  BY <2>2, ParserAssumption
<1> QED  BY <1>1, <1>2, <1>3, <1>4

\* What the parser would save now are the comments of all blocks.
LEMMA SavedIsMade ==
    ASSUME TextInv, CommentsInv
    PROVE  Saved(parser) = Made(answer, Complete(answer))
<1> DEFINE n == Len(answer)
<1>1. n \in Nat /\ 1 .. n \subseteq 1 .. Limit  BY AnswerFacts
<1>2. Complete(answer) \in SUBSET (1 .. n) /\ Closed(answer) \subseteq Complete(answer)
  BY DEF Complete, Closed
<1>3. parser.comments = Made(answer, Closed(answer))  BY DEF CommentsInv, ClosedInv
<1>4. CASE \A b \in 1 .. n : answer[b].kind # "file"
  <2>1. parser.file = NoPath  BY <1>4 DEF CommentsInv, HandInv
  <2>2. Complete(answer) = {}  BY <1>4 DEF Complete
  <2>3. Closed(answer) = Complete(answer)  BY <1>2, <2>2
  <2> QED  BY <1>3, <2>1, <2>3 DEF Saved
<1>5. ASSUME NEW c \in 1 .. n, answer[c].kind = "file"
      PROVE  Saved(parser) = Made(answer, Complete(answer))
  <2>1. PICK b \in 1 .. n : LastOf("file", answer, n, b)
    <3> HIDE DEF n
    <3> QED  BY <1>1, <1>5, LastExists
  <2>2. answer[b].kind = "file" /\ Open(answer, b)  BY <2>1 DEF LastOf, Open
  <2>3. /\ parser.file = answer[b].path /\ parser.line = LineIn(answer, b)
        /\ parser.severity = SeverityIn(answer, b)
        /\ parser.body = InOrder(BodyIn(answer, b))
        /\ parser.written <=> WrittenIn(answer, b)
    BY <2>2 DEF CommentsInv, HandInv
  <2>4. parser.file # NoPath  BY <2>2, <2>3, AnswerFacts
  <2>5. ASSUME NEW d \in Complete(answer), d # b PROVE d \in 1 .. b - 1 /\ ~ Open(answer, d)
    <3>1. d \in 1 .. n /\ answer[d].kind = "file"  BY DEF Complete
    <3> HIDE DEF n
    <3>2. d \in b + 1 .. n \/ (d \in 1 .. b - 1 /\ b \in d + 1 .. n)
      BY <1>1, <2>5, <3>1
    <3> QED  BY <2>2, <3>1, <3>2 DEF Open, n
  <2>6. Closed(answer) = Complete(answer) \ {b}  BY <2>2, <2>5 DEF Closed
  <2>7. Closed(answer) \in SUBSET (1 .. b - 1)  BY <2>5, <2>6
  <2>8. b \in Complete(answer) <=> parser.line # NoNumber /\ parser.written
    BY <2>1, <2>2, <2>3 DEF Complete
  <2>9. CASE b \in Complete(answer)
    <3>1. Saved(parser) = Append(parser.comments, CommentIn(answer, b))
      BY <2>3, <2>4, <2>8, <2>9 DEF Saved, CommentIn
    <3>2. Complete(answer) = Closed(answer) \cup {b}  BY <2>6, <2>9
    <3>3. b \in 1 .. Limit  BY <1>1
    <3>4. Made(answer, Closed(answer) \cup {b})
            = Append(Made(answer, Closed(answer)), CommentIn(answer, b))
      BY <2>7, <3>3, MadeNext
    <3> QED  BY <1>3, <3>1, <3>2, <3>4
  <2>10. CASE b \notin Complete(answer)
    <3>1. Closed(answer) = Complete(answer)  BY <2>6, <2>10
    <3> QED  BY <1>3, <2>8, <2>10, <3>1 DEF Saved
  <2> QED  BY <2>9, <2>10
<1> QED  BY <1>4, <1>5

LEMMA CommentsInit == Init => CommentsInv
<1> SUFFICES ASSUME Init PROVE CommentsInv  OBVIOUS
<1>1. answer = << >> /\ parser = ParseStart /\ Len(answer) = 0  BY DEF Init
<1>2. Closed(answer) = {}  BY <1>1 DEF Closed, Complete
<1>3. parser.comments = << >> /\ parser.file = NoPath  BY <1>1 DEF ParseStart
<1>4. ClosedInv  BY <1>2, <1>3, MadeEmpty DEF ClosedInv
<1>5. HandInv  BY <1>1, <1>3 DEF HandInv
<1> QED  BY <1>4, <1>5 DEF CommentsInv

\* A line that is not a FILE line.
LEMMA HandStep ==
    ASSUME TextInv, ParserInv, CommentsInv, NEW l \in AnswerLines, ReadAnswerLine(l),
           l.kind # "file"
    PROVE  CommentsInv'
<1> DEFINE n == Len(answer)
<1>1. /\ answer \in Seq(AnswerLines) /\ answer' = Append(answer, l) /\ n \in Nat
      /\ ParsedFields(parser, n + 1, l, parser')
      /\ GoesToSummary(parser, l) <=> SumIn(answer', n + 1)
  BY AnswerStep
<1>2. Adds(answer, l, answer')  BY <1>1 DEF Adds
<1>3. /\ Len(answer') = n + 1 /\ answer'[n + 1] = l
      /\ \A j \in 1 .. n : answer'[j] = answer[j]
  BY <1>2, Added
<1>4. \A b : b \in 1 .. n + 1 <=> b \in 1 .. n \/ b = n + 1
  <2> HIDE DEF n
  <2> QED  BY <1>1
<1>5. 1 .. n + 1 \subseteq 1 .. Limit /\ n + 1 \in 1 .. Limit
  <2>1. Len(answer) < MaxAnswer  BY AnswerStep
  <2> HIDE DEF n
  <2>2. n < MaxAnswer  BY <2>1 DEF n
  <2> QED  BY <1>1, <2>2, BoundsAssumption DEF Limit
<1>6. \A b \in 1 .. n : Open(answer', b) <=> Open(answer, b)
  BY <1>2, BlockNext DEF Joins
<1>7. Complete(answer') \subseteq 1 .. n /\ Complete(answer) \subseteq 1 .. n
  BY <1>3, <1>4 DEF Complete
<1>8. \A b \in 1 .. n : ~ Open(answer, b) =>
        /\ b \in Complete(answer') <=> b \in Complete(answer)
        /\ CommentIn(answer', b) = CommentIn(answer, b)
  <2>1. ASSUME NEW b \in 1 .. n, ~ Open(answer, b)
        PROVE /\ LineIn(answer', b) = LineIn(answer, b)
              /\ WrittenIn(answer', b) <=> WrittenIn(answer, b)
              /\ CommentIn(answer', b) = CommentIn(answer, b) /\ answer'[b] = answer[b]
    BY <1>2, <2>1, OtherBlock DEF Joins
  <2> QED  BY <1>3, <1>4, <2>1 DEF Complete
<1>9. ClosedInv'
  <2>1. Closed(answer') = Closed(answer)  BY <1>6, <1>7, <1>8 DEF Closed
  <2>2. Made(answer', Closed(answer)) = Made(answer, Closed(answer))
    <3>1. Closed(answer) \in SUBSET (1 .. Limit)  BY <1>4, <1>5, <1>7 DEF Closed
    <3>2. \A b \in Closed(answer) : CommentIn(answer', b) = CommentIn(answer, b)
      BY <1>7, <1>8 DEF Closed
    <3> QED  BY <3>1, <3>2, MadeSame
  <2>3. parser'.comments = parser.comments  BY <1>1 DEF ParsedFields
  <2> QED  BY <2>1, <2>2, <2>3 DEF CommentsInv, ClosedInv
<1>10. (\A b \in 1 .. n + 1 : answer'[b].kind # "file") => parser'.file = NoPath
  <2>1. parser'.file = parser.file  BY <1>1 DEF ParsedFields
  <2> QED  BY <1>3, <1>4, <2>1 DEF CommentsInv, HandInv
<1>11. ASSUME NEW b \in 1 .. n + 1, answer'[b].kind = "file", Open(answer', b)
       PROVE  /\ parser'.file = answer'[b].path /\ parser'.line = LineIn(answer', b)
              /\ parser'.severity = SeverityIn(answer', b)
              /\ parser'.body = InOrder(BodyIn(answer', b))
              /\ parser'.written <=> WrittenIn(answer', b)
  <2>1. b \in 1 .. n  BY <1>3, <1>4, <1>11
  <2>2. answer[b].kind = "file" /\ Open(answer, b) /\ Joins(answer, l, b)
    BY <1>3, <1>6, <1>11, <2>1 DEF Joins
  <2>3. /\ parser.file = answer[b].path /\ parser.line = LineIn(answer, b)
        /\ parser.severity = SeverityIn(answer, b)
        /\ parser.body = InOrder(BodyIn(answer, b))
        /\ parser.written <=> WrittenIn(answer, b)
    BY <2>1, <2>2 DEF CommentsInv, HandInv
  <2>4. parser.file # NoPath  BY <2>1, <2>2, <2>3, AnswerFacts
  <2>5. LineIn(answer, b) # NoNumber <=> NumberIn(answer, b, n + 1)
    BY DEF LineIn, NumberIn
  <2>6. GoesToBody(parser, l) <=> IsText(answer, l, answer', b)
    BY <1>1, <2>2, <2>3, <2>4, <2>5 DEF GoesToBody, IsText, GoesToSummary, Enders
  <2>7. parser'.file = answer'[b].path  BY <1>1, <1>3, <2>1, <2>3 DEF ParsedFields
  <2>8. parser'.line = LineIn(answer', b)
    <3>1. LineIn(answer', b) = IF l.kind = "line" /\ ~ SumIn(answer', n + 1)
                               THEN l.number ELSE LineIn(answer, b)
      BY <1>2, <2>1, <2>2, BlockLineNext
    <3> QED  BY <1>1, <2>3, <3>1 DEF ParsedFields
  <2>9. parser'.severity = SeverityIn(answer', b)
    <3>1. SeverityIn(answer', b) = IF l.kind = "severity" /\ ~ SumIn(answer', n + 1)
                                   THEN l.level ELSE SeverityIn(answer, b)
      BY <1>2, <2>1, <2>2, BlockLineNext
    <3> QED  BY <1>1, <2>3, <3>1 DEF ParsedFields
  <2>10. parser'.body = InOrder(BodyIn(answer', b))
    <3>1. BodyIn(answer', b) = IF IsText(answer, l, answer', b)
                               THEN With(BodyIn(answer, b), n + 1) ELSE BodyIn(answer, b)
      BY <1>2, <2>1, BodyNext
    <3>2. BodyIn(answer, b) \in SUBSET (1 .. (n + 1) - 1)
      <4>1. BodyIn(answer, b) \in SUBSET (1 .. n)  BY <1>2, <2>1, BodyNext DEF Among
      <4>2. (n + 1) - 1 = n
        <5> HIDE DEF n
        <5> QED  BY <1>1
      <4> QED  BY <4>1, <4>2
    <3>3. InOrder(With(BodyIn(answer, b), n + 1)) = Append(InOrder(BodyIn(answer, b)), n + 1)
      <4> HIDE DEF n
      <4> QED  BY <1>5, <3>2, LimitNat, AscendingNext DEF InOrder, Limit, With
    <3>4. parser'.body = IF GoesToBody(parser, l) THEN Append(parser.body, n + 1)
                                                  ELSE parser.body
      BY <1>1 DEF ParsedFields
    <3> QED  BY <2>3, <2>6, <3>1, <3>3, <3>4
  <2>11. parser'.written <=> WrittenIn(answer', b)
    <3>1. WrittenIn(answer', b)
            <=> WrittenIn(answer, b) \/ (IsText(answer, l, answer', b) /\ ~ l.blank)
      BY <1>2, <2>1, BodyNext
    <3>2. parser'.written <=> parser.written \/ (GoesToBody(parser, l) /\ ~ l.blank)
      BY <1>1 DEF ParsedFields
    <3> QED  BY <2>3, <2>6, <3>1, <3>2
  <2> QED  BY <2>7, <2>8, <2>9, <2>10, <2>11
<1>12. HandInv'  BY <1>3, <1>10, <1>11 DEF HandInv
<1> QED  BY <1>9, <1>12 DEF CommentsInv

\* A FILE line: the comment in hand is saved and a new block begins.
LEMMA FileStep ==
    ASSUME TextInv, ParserInv, CommentsInv, NEW l \in AnswerLines, ReadAnswerLine(l),
           l.kind = "file"
    PROVE  CommentsInv'
<1> DEFINE n == Len(answer)
<1>1. /\ answer \in Seq(AnswerLines) /\ answer' = Append(answer, l) /\ n \in Nat
      /\ ParsedFields(parser, n + 1, l, parser')
  BY AnswerStep
<1>2. Adds(answer, l, answer')  BY <1>1 DEF Adds
<1>3. /\ Len(answer') = n + 1 /\ answer'[n + 1] = l
      /\ \A j \in 1 .. n : answer'[j] = answer[j]
  BY <1>2, Added
<1>4. \A b : b \in 1 .. n + 1 <=> b \in 1 .. n \/ b = n + 1
  <2> HIDE DEF n
  <2> QED  BY <1>1
<1>5. \A b \in 1 .. n :
        /\ LineIn(answer', b) = LineIn(answer, b)
        /\ WrittenIn(answer', b) <=> WrittenIn(answer, b)
        /\ CommentIn(answer', b) = CommentIn(answer, b) /\ answer'[b] = answer[b]
        /\ ~ Open(answer', b)
  BY <1>2, OtherBlock DEF Joins
<1>6. /\ LineIn(answer', n + 1) = NoNumber /\ SeverityIn(answer', n + 1) = "info"
      /\ BodyIn(answer', n + 1) = {} /\ ~ WrittenIn(answer', n + 1)
  BY <1>2, NewBlock
<1>7. Closed(answer') = Complete(answer)
  <2>1. Complete(answer') \subseteq 1 .. n /\ Complete(answer) \subseteq 1 .. n
    BY <1>3, <1>4, <1>6 DEF Complete
  <2>2. \A b \in 1 .. n : b \in Complete(answer') <=> b \in Complete(answer)
    BY <1>3, <1>4, <1>5 DEF Complete
  <2>3. \A b \in 1 .. n : b \in Closed(answer') <=> b \in Complete(answer')
    BY <1>5, <2>1 DEF Closed
  <2>4. Closed(answer') \subseteq 1 .. n  BY <2>1 DEF Closed
  <2> QED  BY <2>1, <2>2, <2>3, <2>4
<1>8. ClosedInv'
  <2>1. parser'.comments = Saved(parser)  BY <1>1 DEF ParsedFields
  <2>2. Made(answer', Complete(answer)) = Made(answer, Complete(answer))
    <3>1. Complete(answer) \in SUBSET (1 .. n)  BY DEF Complete
    <3>2. Complete(answer) \in SUBSET (1 .. Limit)  BY <3>1, AnswerFacts
    <3> QED  BY <1>5, <3>1, <3>2, MadeSame
  <2> QED  BY <1>7, <2>1, <2>2, SavedIsMade DEF ClosedInv
<1>9. /\ parser'.file = l.path /\ parser'.line = NoNumber /\ parser'.severity = "info"
      /\ parser'.body = << >> /\ ~ parser'.written
  BY <1>1 DEF ParsedFields
<1>10. InOrder({}) = << >>  BY AscendingEmpty, LimitNat DEF InOrder, Limit
<1>11. HandInv'
  <2>1. n + 1 \in 1 .. n + 1 /\ answer'[n + 1].kind = "file"  BY <1>3, <1>4
  <2>2. ASSUME NEW b \in 1 .. n + 1, Open(answer', b) PROVE b = n + 1
    BY <1>4, <1>5, <2>2
  <2> QED  BY <1>3, <1>6, <1>9, <1>10, <2>1, <2>2 DEF HandInv
<1> QED  BY <1>8, <1>11 DEF CommentsInv

LEMMA CommentsNext == CommentsInv /\ ParserInv /\ TextInv /\ [Next]_vars => CommentsInv'
<1> SUFFICES ASSUME CommentsInv, ParserInv, TextInv, [Next]_vars PROVE CommentsInv'
  OBVIOUS
<1>1. ASSUME NEW l \in AnswerLines, ReadAnswerLine(l) PROVE CommentsInv'
  BY <1>1, HandStep, FileStep
<1>2. ASSUME UNCHANGED <<answer, parser>> PROVE CommentsInv'
  BY <1>2 DEF CommentsInv, HandInv, ClosedInv
<1>3. ASSUME NEW l \in DiffLines, ReadDiffLine(l) PROVE CommentsInv'
  BY <1>2, <1>3 DEF ReadDiffLine
<1>4. CASE UNCHANGED vars  BY <1>2, <1>4 DEF vars
<1> QED  BY <1>1, <1>3, <1>4 DEF Next

\* The blocks of CommentsComeFromBlocks are the complete ones.
LEMMA MadeIsBlocks ==
    ASSUME TextInv, Saved(parser) = Made(answer, Complete(answer))
    PROVE  CommentsComeFromBlocks
<1> DEFINE n == Len(answer) + 1
           blocks == {b \in 1 .. Len(answer) :
                        /\ answer[b].kind = "file" /\ HasNumber(b, n)
                        /\ \E i \in BodyOf(b) : ~ answer[i].blank}
           o == InOrder(blocks)
<1>1. \A i : InSummary(i) <=> SumIn(answer, i)  BY DEF InSummary, SumIn, NowAt, Enders
<1>2. \A b : Block(b) = BlockIn(answer, b)  BY DEF Block, BlockIn
<1>3. \A kind, b, e : Given(kind, b, e) = GivenIn(answer, kind, b, e)
  BY <1>1, <1>2 DEF Given, GivenIn
<1>4. \A b, e : HasNumber(b, e) <=> NumberIn(answer, b, e)
  BY <1>3, Zenon DEF HasNumber, NumberIn
<1>5. \A b : BodyOf(b) = BodyIn(answer, b)  BY <1>1, <1>2, <1>4 DEF BodyOf, BodyIn
<1>6. blocks = Complete(answer)
  <2>1. \A b : NumberIn(answer, b, n) <=> LineIn(answer, b) # NoNumber
    BY DEF NumberIn, LineIn
  <2> QED  BY <1>4, <1>5, <2>1 DEF Complete, WrittenIn
<1>7. \A k \in 1 .. Len(o) : o[k] \in blocks
  <2>1. blocks \in SUBSET (1 .. Limit)  BY AnswerFacts
  <2> HIDE DEF blocks
  <2> QED  BY <2>1, AscendingOf, LimitNat DEF InOrder, Limit
<1>8. ASSUME NEW b \in blocks
      PROVE  LET levels == Given("severity", b, n)
             IN  [file |-> answer[b].path,
                  line |-> answer[Max(Given("line", b, n))].number,
                  severity |-> IF levels = {} THEN "info" ELSE answer[Max(levels)].level,
                  body |-> InOrder(BodyOf(b))] = CommentIn(answer, b)
  <2>1. HasNumber(b, n)  OBVIOUS
  <2>2. LineIn(answer, b) = answer[Max(Given("line", b, n))].number
    BY <1>3, <1>4, <2>1, Zenon DEF LineIn, NumberIn
  <2>3. SeverityIn(answer, b) = IF Given("severity", b, n) = {} THEN "info"
                                ELSE answer[Max(Given("severity", b, n))].level
    BY <1>3, Zenon DEF SeverityIn
  <2> QED  BY <1>5, <2>2, <2>3 DEF CommentIn
<1>9. Made(answer, blocks) = [k \in 1 .. Len(o) |-> CommentIn(answer, o[k])]  BY DEF Made
<1> QED  BY <1>6, <1>7, <1>8, <1>9 DEF CommentsComeFromBlocks, Comments

\* Whatever the LLM answers, the comments of the review are those of the
\* answer's blocks, none lost, none from two blocks (inline_comments.rs:44-149).
THEOREM CommentsComeFromBlocksHolds == Spec => []CommentsComeFromBlocks
<1>1. CommentsInv /\ TextInv => CommentsComeFromBlocks  BY SavedIsMade, MadeIsBlocks
<1> QED
  BY <1>1, TextInit, TextNext, ParserInit, ParserNext, CommentsInit, CommentsNext, PTL
  DEF Spec
===============================================================================

--------------------------- MODULE EnumerationProofs ---------------------------
(***************************************************************************)
(* Ascending(S, n) is the one increasing sequence of the numbers of S from *)
(* 1 to n.  The recursive function behind it exists, and its values are    *)
(* what they should be, because no least number can be a counterexample.   *)
(***************************************************************************)
EXTENDS Enumeration, WellFoundedInduction, NaturalsInduction, TLAPS

\* Every set of natural numbers that has an element has a least one.
LEMMA LeastNumber ==
    ASSUME NEW T \in SUBSET Nat, NEW t \in T
    PROVE  \E x \in T : \A y \in T : x <= y
<1>1. IsWellFoundedOn(OpToRel(<, Nat), Nat)  BY NatLessThanWellFounded
<1>2. PICK x \in T : \A y \in T : ~ (<<y, x>> \in OpToRel(<, Nat))
  <2>1. T # {}  OBVIOUS
  <2> HIDE DEF OpToRel
  <2> QED  BY <1>1, <2>1, WFMin, Zenon
<1>3. ASSUME NEW y \in T PROVE x <= y
  <2>1. <<y, x>> \in Nat \X Nat  OBVIOUS
  <2>2. ~ (y < x)  BY <1>2, <2>1, Zenon DEF OpToRel
  <2> QED  BY <2>2
<1> QED  BY <1>3

\* s is the increasing sequence of the elements of T.
Enumerates(s, T) ==
    /\ s \in Seq(Nat)
    /\ \A i, j \in 1 .. Len(s) : i < j => s[i] < s[j]
    /\ \A i \in 1 .. Len(s) : s[i] \in T
    /\ \A t \in T : \E i \in 1 .. Len(s) : s[i] = t

AscendingStep(f, S, k) ==
    IF k = 0 THEN << >> ELSE IF k \in S THEN Append(f[k - 1], k) ELSE f[k - 1]

LEMMA AscendingExists ==
    ASSUME NEW S, NEW n \in Nat
    PROVE  \E f : f = [k \in 0 .. n |-> AscendingStep(f, S, k)]
<1> DEFINE Bad == {m \in Nat : ~ \E f : f = [k \in 0 .. m |-> AscendingStep(f, S, k)]}
<1> SUFFICES ASSUME n \in Bad PROVE FALSE  OBVIOUS
<1>1. PICK m \in Bad : \A y \in Bad : m <= y  BY LeastNumber
<1>2. m # 0
  <2> DEFINE g == [k \in 0 .. 0 |-> << >>]
  <2>1. g = [k \in 0 .. 0 |-> AscendingStep(g, S, k)]  BY DEF AscendingStep
  <2> QED  BY <2>1
<1>3. m - 1 \in Nat /\ m - 1 \notin Bad  BY <1>1, <1>2
<1>4. PICK f : f = [k \in 0 .. m - 1 |-> AscendingStep(f, S, k)]  BY <1>3
<1> DEFINE g == [k \in 0 .. m |-> IF k < m THEN f[k] ELSE AscendingStep(f, S, m)]
<1>5. ASSUME NEW k \in 0 .. m PROVE g[k] = AscendingStep(g, S, k)
  <2>1. k # 0 => k - 1 \in 0 .. m - 1 /\ g[k - 1] = f[k - 1]  BY <1>3
  <2>2. AscendingStep(g, S, k) = AscendingStep(f, S, k)  BY <2>1 DEF AscendingStep
  <2>3. CASE k = m  BY <2>2, <2>3
  <2>4. CASE k < m
    <3>1. k \in 0 .. m - 1  BY <2>4, <1>3
    <3>2. f[k] = AscendingStep(f, S, k)  BY <1>4, <3>1
    <3> QED  BY <3>2, <2>2, <2>4
  <2> QED  BY <2>3, <2>4, <1>3
<1>6. g = [k \in 0 .. m |-> AscendingStep(g, S, k)]  BY <1>5
<1>7. m \notin Bad  BY <1>6
<1> QED  BY <1>7, <1>1

\* Ascending gives the numbers of S from 1 to n, in order.
LEMMA AscendingEnumerates ==
    ASSUME NEW S, NEW n \in Nat
    PROVE  Enumerates(Ascending(S, n), {k \in 1 .. n : k \in S})
<1> DEFINE F == CHOOSE f : f = [k \in 0 .. n |-> AscendingStep(f, S, k)]
<1>1. F = [k \in 0 .. n |-> AscendingStep(F, S, k)]  BY AscendingExists
<1>2. Ascending(S, n) = F[n]  BY DEF Ascending, AscendingStep
<1> HIDE DEF F
<1> DEFINE Upto(m) == {k \in 1 .. m : k \in S}
           Bad == {m \in 0 .. n : ~ Enumerates(F[m], Upto(m))}
<1> SUFFICES ASSUME n \in Bad PROVE FALSE  BY <1>2
<1>a. Bad \in SUBSET Nat /\ n \in Bad  OBVIOUS
<1>3. PICK m \in Bad : \A y \in Bad : m <= y
  <2> HIDE DEF Bad
  <2> QED  BY <1>a, LeastNumber
<1>4. F[m] = AscendingStep(F, S, m)  BY <1>1
<1>5. m # 0
  <2>1. Enumerates(<< >>, Upto(0))  BY DEF Enumerates
  <2> QED  BY <1>4, <1>3, <2>1 DEF AscendingStep
<1>6. m - 1 \in 0 .. n /\ Enumerates(F[m - 1], Upto(m - 1))  BY <1>3, <1>5
<1>7. CASE m \notin S
  <2>1. Upto(m) = Upto(m - 1)  BY <1>5, <1>7
  <2> QED  BY <2>1, <1>6, <1>4, <1>5, <1>7, <1>3 DEF AscendingStep
<1>8. CASE m \in S
  <2> DEFINE s == F[m - 1]
  <2>1. F[m] = Append(s, m)  BY <1>4, <1>5, <1>8 DEF AscendingStep
  <2>2. Enumerates(Append(s, m), Upto(m))
    <3>1. s \in Seq(Nat) /\ Len(s) \in Nat /\ m \in Nat  BY <1>6 DEF Enumerates
    <3>2. Append(s, m) \in Seq(Nat) /\ Len(Append(s, m)) = Len(s) + 1
          /\ \A i \in 1 .. Len(s) + 1 : Append(s, m)[i] = IF i <= Len(s) THEN s[i] ELSE m
      BY <3>1
    <3>3. \A i \in 1 .. Len(s) : s[i] \in Upto(m - 1)  BY <1>6 DEF Enumerates
    <3>4. \A i, j \in 1 .. Len(s) : i < j => s[i] < s[j]  BY <1>6 DEF Enumerates
    <3>5. \A t \in Upto(m - 1) : \E i \in 1 .. Len(s) : s[i] = t  BY <1>6 DEF Enumerates
    <3> HIDE DEF s
    <3>6. \A t \in Upto(m) : t \in Upto(m - 1) \/ t = m  BY <1>5
    <3> DEFINE a == Append(s, m)
    <3>7. \A i, j \in 1 .. Len(a) : i < j => a[i] < a[j]
      <4>1. \A i \in 1 .. Len(s) : s[i] < m /\ s[i] \in Nat  BY <3>3, <1>5
      <4> QED  BY <4>1, <3>1, <3>2, <3>4
    <3>8. \A i \in 1 .. Len(a) : a[i] \in Upto(m)  BY <3>1, <3>2, <3>3, <1>8, <1>5
    <3>9. \A t \in Upto(m) : \E i \in 1 .. Len(a) : a[i] = t
      <4> TAKE t \in Upto(m)
      <4>1. CASE t = m
        <5>1. Len(s) + 1 \in 1 .. Len(a) /\ a[Len(s) + 1] = m  BY <3>1, <3>2
        <5> QED  BY <5>1, <4>1
      <4>2. CASE t \in Upto(m - 1)
        <5>1. PICK i \in 1 .. Len(s) : s[i] = t  BY <4>2, <3>5
        <5>2. i \in 1 .. Len(a) /\ a[i] = t  BY <5>1, <3>1, <3>2
        <5> QED  BY <5>2
      <4> QED  BY <4>1, <4>2, <3>6
    <3> QED  BY <3>2, <3>7, <3>8, <3>9 DEF Enumerates
  <2> QED  BY <2>1, <2>2, <1>3
<1> QED  BY <1>7, <1>8

\* There is only one.
LEMMA EnumerationUnique ==
    ASSUME NEW s, NEW t, NEW T, Enumerates(s, T), Enumerates(t, T)
    PROVE  s = t
<1> DEFINE Bad == {i \in Nat : i >= 1 /\ ~ (i \in 1 .. Len(s) /\ i \in 1 .. Len(t) /\ s[i] = t[i])
                                    /\ (i \in 1 .. Len(s) \/ i \in 1 .. Len(t))}
<1>0. /\ s \in Seq(Nat) /\ t \in Seq(Nat) /\ Len(s) \in Nat /\ Len(t) \in Nat
      /\ \A i \in 1 .. Len(s) : s[i] \in Nat
      /\ \A i \in 1 .. Len(t) : t[i] \in Nat
  BY DEF Enumerates
<1>1. Bad = {}
  <2> SUFFICES ASSUME NEW b \in Bad PROVE FALSE  OBVIOUS
  <2>1. PICK i \in Bad : \A y \in Bad : i <= y  BY LeastNumber
  <2>2. \A j \in 1 .. i - 1 : j \in 1 .. Len(s) /\ j \in 1 .. Len(t) /\ s[j] = t[j]
    <3> TAKE j \in 1 .. i - 1
    <3>1. j \notin Bad /\ j \in Nat  BY <2>1
    <3>2. j \in 1 .. Len(s) \/ j \in 1 .. Len(t)  BY <1>0, <2>1
    <3> QED  BY <3>1, <3>2
  <2>3. CASE i \in 1 .. Len(s)
    <3>1. PICK j \in 1 .. Len(t) : t[j] = s[i]  BY <2>3 DEF Enumerates
    <3>2. j >= i
      <4> SUFFICES ASSUME j < i PROVE FALSE  BY <1>0, <2>1
      <4>1. s[j] = s[i] /\ j \in 1 .. Len(s)  BY <3>1, <2>2, <1>0, <2>1
      <4>2. s[j] < s[i]  BY <4>1, <2>3 DEF Enumerates
      <4> QED  BY <4>1, <4>2, <1>0, <2>3
    <3>3. i \in 1 .. Len(t)  BY <3>1, <3>2, <1>0, <2>1
    <3>4. t[i] <= s[i]
      <4>1. i < j => t[i] < t[j]  BY <3>3 DEF Enumerates
      <4> QED  BY <4>1, <3>1, <3>2, <3>3, <1>0, <2>3
    <3>5. PICK k \in 1 .. Len(s) : s[k] = t[i]  BY <3>3 DEF Enumerates
    <3>6. k >= i
      <4> SUFFICES ASSUME k < i PROVE FALSE  BY <1>0, <2>1
      <4>1. t[k] = t[i] /\ k \in 1 .. Len(t)  BY <3>5, <2>2, <1>0, <2>1
      <4>2. t[k] < t[i]  BY <4>1, <3>3 DEF Enumerates
      <4> QED  BY <4>1, <4>2, <1>0, <3>3
    <3>7. s[i] <= t[i]
      <4>1. i < k => s[i] < s[k]  BY <2>3 DEF Enumerates
      <4> QED  BY <4>1, <3>5, <3>6, <2>3, <1>0
    <3>8. s[i] \in Nat /\ t[i] \in Nat  BY <1>0, <2>3, <3>3
    <3>9. s[i] = t[i]
      <4> HIDE DEF Bad
      <4> QED  BY <3>4, <3>7, <3>8
    <3> QED  BY <3>9, <2>3, <3>3, <2>1
  <2>4. CASE i \in 1 .. Len(t) /\ i \notin 1 .. Len(s)
    <3>1. PICK k \in 1 .. Len(s) : s[k] = t[i]  BY <2>4 DEF Enumerates
    <3>2. k < i  BY <2>4, <1>0, <2>1
    <3>3. t[k] = t[i] /\ k \in 1 .. Len(t)  BY <3>1, <2>2, <1>0, <2>1, <3>2
    <3>4. t[k] < t[i]  BY <3>2, <3>3, <2>4 DEF Enumerates
    <3> QED  BY <3>3, <3>4, <1>0, <2>4
  <2> QED  BY <2>1, <2>3, <2>4
<1>2. Len(s) = Len(t)
  <2>1. \A i \in Nat : i >= 1 => (i \in 1 .. Len(s) <=> i \in 1 .. Len(t))  BY <1>1
  <2>2. ~ Len(s) < Len(t)
    <3>1. ~ (Len(t) \in 1 .. Len(s)) => ~ (Len(t) >= 1)  BY <2>1, <1>0
    <3> QED  BY <3>1, <1>0
  <2>3. ~ Len(t) < Len(s)
    <3>1. ~ (Len(s) \in 1 .. Len(t)) => ~ (Len(s) >= 1)  BY <2>1, <1>0
    <3> QED  BY <3>1, <1>0
  <2> QED  BY <2>2, <2>3, <1>0
<1>3. \A i \in 1 .. Len(s) : s[i] = t[i]
  <2> TAKE i \in 1 .. Len(s)
  <2>1. i \in Nat /\ i >= 1 /\ i \notin Bad  BY <1>1, <1>0
  <2> QED  BY <2>1
<1> QED  BY <1>0, <1>2, <1>3

\* Sets that are kept in the way the loops grow them: by a last number.
LEMMA AscendingOf ==
    ASSUME NEW n \in Nat, NEW T \in SUBSET (1 .. n)
    PROVE  /\ Enumerates(Ascending(T, n), T)
           /\ Ascending(T, n) \in Seq(Nat)
           /\ \A i \in 1 .. Len(Ascending(T, n)) : Ascending(T, n)[i] \in T
<1>1. {k \in 1 .. n : k \in T} = T  OBVIOUS
<1> QED  BY <1>1, AscendingEnumerates DEF Enumerates

LEMMA AscendingEmpty ==
    ASSUME NEW n \in Nat
    PROVE  Ascending({}, n) = << >>
<1>1. Enumerates(<< >>, {})  BY DEF Enumerates
<1>2. Enumerates(Ascending({}, n), {})  BY AscendingOf
<1> QED  BY <1>1, <1>2, EnumerationUnique

LEMMA AscendingNext ==
    ASSUME NEW n \in Nat, NEW m \in 1 .. n, NEW T \in SUBSET (1 .. m - 1)
    PROVE  Ascending(T \cup {m}, n) = Append(Ascending(T, n), m)
<1> DEFINE s == Ascending(T, n)
           a == Append(s, m)
<1>1. T \in SUBSET (1 .. n) /\ T \cup {m} \in SUBSET (1 .. n)  OBVIOUS
<1>2. Enumerates(s, T)  BY <1>1, AscendingOf
<1>3. s \in Seq(Nat) /\ Len(s) \in Nat /\ m \in Nat  BY <1>2 DEF Enumerates
<1> HIDE DEF s
<1>4. /\ a \in Seq(Nat) /\ Len(a) = Len(s) + 1
      /\ \A i \in 1 .. Len(s) + 1 : a[i] = IF i <= Len(s) THEN s[i] ELSE m
  BY <1>3
<1> HIDE DEF a
<1>5. \A i \in 1 .. Len(s) : s[i] \in T /\ s[i] \in Nat /\ s[i] < m  BY <1>2 DEF Enumerates
<1>6. \A i, j \in 1 .. Len(a) : i < j => a[i] < a[j]
  <2>1. \A i, j \in 1 .. Len(s) : i < j => s[i] < s[j]  BY <1>2 DEF Enumerates
  <2>2. \A i \in 1 .. Len(s) : a[i] = s[i]  BY <1>3, <1>4
  <2>3. a[Len(s) + 1] = m  BY <1>3, <1>4
  <2> TAKE i, j \in 1 .. Len(a)
  <2>4. CASE j \in 1 .. Len(s)  BY <2>1, <2>2, <2>4, <1>3, <1>4
  <2>5. CASE j = Len(s) + 1
    <3>1. i < j => i \in 1 .. Len(s)  BY <2>5, <1>3, <1>4
    <3> QED  BY <3>1, <2>2, <2>3, <2>5, <1>5
  <2>6. Len(s) \in Nat /\ Len(a) = Len(s) + 1  BY <1>3, <1>4
  <2>7. j \in 1 .. Len(s) \/ j = Len(s) + 1  BY <2>6
  <2> QED  BY <2>4, <2>5, <2>7
<1>7. \A i \in 1 .. Len(a) : a[i] \in T \cup {m}  BY <1>3, <1>4, <1>5
<1>8. \A t \in T \cup {m} : \E i \in 1 .. Len(a) : a[i] = t
  <2> TAKE t \in T \cup {m}
  <2>1. CASE t = m
    <3>1. Len(s) + 1 \in 1 .. Len(a) /\ a[Len(s) + 1] = m  BY <1>3, <1>4
    <3> QED  BY <3>1, <2>1
  <2>2. CASE t \in T
    <3>1. PICK i \in 1 .. Len(s) : s[i] = t  BY <2>2, <1>2 DEF Enumerates
    <3>2. i \in 1 .. Len(a) /\ a[i] = t  BY <3>1, <1>3, <1>4
    <3> QED  BY <3>2
  <2> QED  BY <2>1, <2>2
<1>9. Enumerates(a, T \cup {m})  BY <1>4, <1>6, <1>7, <1>8 DEF Enumerates
<1>10. Enumerates(Ascending(T \cup {m}, n), T \cup {m})  BY <1>1, AscendingOf
<1> QED  BY <1>9, <1>10, EnumerationUnique DEF a, s

\* A set of positions that has one has a last one.
LEMMA GreatestNumber ==
    ASSUME NEW n \in Nat, NEW T \in SUBSET (1 .. n), NEW t \in T
    PROVE  \E x \in T : \A y \in T : y <= x
<1> DEFINE R == {k \in Nat : k <= n /\ n - k \in T}
<1>1. n - t \in R /\ R \in SUBSET Nat  OBVIOUS
<1>2. PICK k \in R : \A y \in R : k <= y
  <2> HIDE DEF R
  <2> QED  BY <1>1, LeastNumber
<1>3. \A y \in T : n - y \in R /\ y \in Nat  OBVIOUS
<1>4. n - k \in T /\ k \in Nat  BY <1>2
<1>5. \A y \in T : y <= n - k
  <2> HIDE DEF R
  <2> QED  BY <1>2, <1>3, <1>4
<1> QED  BY <1>4, <1>5
===============================================================================

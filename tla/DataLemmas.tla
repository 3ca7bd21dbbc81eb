---------------------------- MODULE DataLemmas ----------------------------
(***************************************************************************)
(* Facts about natural numbers, recursive functions and lists.             *)
(***************************************************************************)
EXTENDS SequencesExt, WellFoundedInduction, SequenceTheorems, FiniteSetTheorems, TLAPS

-----------------------------------------------------------------------------
(* Natural numbers and recursive functions.                                  *)

\* A set of naturals has a least element, and Min is that element.
LEMMA MinOfNaturals ==
    ASSUME NEW S \in SUBSET Nat, S # {}
    PROVE  /\ Min(S) \in S
           /\ \A y \in S : Min(S) <= y
<1> DEFINE Less == {ss \in Nat \X Nat : ss[1] < ss[2]}
<1>1. IsWellFoundedOn(Less, Nat)
  BY NatLessThanWellFounded DEF OpToRel
<1>2. PICK x \in S : \A y \in S : <<y, x>> \notin Less
  BY <1>1, WFMin
<1>3. ASSUME NEW y \in S
      PROVE  x <= y
  <2>1. y < x => <<y, x>> \in Less
    BY SMT
  <2>2. ~(y < x)
    BY <1>2, <2>1
  <2>3. QED
    BY <2>2
<1>4. QED
  BY <1>3 DEF Min

\* Induction, for a set of naturals instead of a predicate: the least number
\* outside G has no predecessor.
LEMMA InductiveSet ==
    ASSUME NEW G \in SUBSET Nat, 0 \in G, \A n \in G : n + 1 \in G
    PROVE  G = Nat
<1> DEFINE B == Nat \ G
<1>1. SUFFICES ASSUME B # {}
               PROVE  FALSE
  OBVIOUS
<1>2. Min(B) \in B /\ \A y \in B : Min(B) <= y
  BY <1>1, MinOfNaturals
<1>3. PICK m \in B : \A y \in B : m <= y
  BY <1>2
<1>4. m # 0 /\ m - 1 \in Nat
  BY <1>3, SMT
<1>5. m - 1 \notin B
  BY <1>3, <1>4, SMT
<1>6. m \in G
  BY <1>4, <1>5, SMT
<1>7. QED
  BY <1>6

\* f starts with x0, and h makes each value from its index and the value before.
IsRecursion(f, x0, n, h) == f[0] = x0 /\ \A i \in 1 .. n : f[i] = h[<<i, f[i-1]>>]

\* A function that is defined by recursion over 0 .. n exists, if every step
\* stays in a set X.
LEMMA RecursionExists ==
    ASSUME NEW X, NEW x0 \in X, NEW n \in Nat,
           NEW h \in [(1 .. n) \X X -> X]
    PROVE  \E f \in [0 .. n -> X] : IsRecursion(f, x0, n, h)
<1> USE DEF IsRecursion
<1> DEFINE Good(k) == \E f \in [0 .. k -> X] :
                          f[0] = x0 /\ \A i \in 1 .. k : f[i] = h[<<i, f[i-1]>>]
           G == {k \in Nat : k <= n => Good(k)}
<1>1. 0 \in G
  <2> DEFINE f == [i \in 0 .. 0 |-> x0]
  <2>1. f \in [0 .. 0 -> X] /\ f[0] = x0 /\ \A i \in 1 .. 0 : f[i] = h[<<i, f[i-1]>>]
    BY SMT
  <2>2. Good(0)
    BY <2>1
  <2>3. QED
    BY <2>2
<1>2. ASSUME NEW k \in G
      PROVE  k + 1 \in G
  <2>1. SUFFICES ASSUME k + 1 <= n
                 PROVE  Good(k + 1)
    OBVIOUS
  <2>2. PICK f \in [0 .. k -> X] :
              f[0] = x0 /\ \A i \in 1 .. k : f[i] = h[<<i, f[i-1]>>]
    BY <2>1, SMT
  <2> DEFINE g == [i \in 0 .. k + 1 |-> IF i <= k THEN f[i] ELSE h[<<k + 1, f[k]>>]]
  <2>3. h[<<k + 1, f[k]>>] \in X
    BY <2>1, SMT
  <2>4. g \in [0 .. k + 1 -> X]
    BY <2>3, SMT
  <2>5. g[0] = x0
    BY <2>2, SMT
  <2>6. ASSUME NEW i \in 1 .. k + 1
        PROVE  g[i] = h[<<i, g[i-1]>>]
    <3>1. CASE i <= k
      <4>1. i \in 1 .. k /\ i \in 0 .. k + 1 /\ i - 1 \in 0 .. k + 1 /\ i - 1 <= k
        BY <3>1, SMT
      <4>2. g[i] = f[i] /\ g[i-1] = f[i-1]
        BY <4>1, <3>1
      <4>3. QED
        BY <4>1, <4>2, <2>2
    <3>2. CASE i = k + 1
      <4>1. g[k + 1] = h[<<k + 1, f[k]>>] /\ g[k] = f[k]
        BY SMT
      <4>2. i - 1 = k
        BY <3>2, SMT
      <4>3. QED
        BY <3>2, <4>1, <4>2
    <3>3. QED
      BY <3>1, <3>2, SMT
  <2>7. QED
    BY <2>4, <2>5, <2>6
<1> HIDE DEF G
<1>3. G = Nat
  <2>1. G \in SUBSET Nat
    BY DEF G
  <2>2. QED
    BY <1>1, <1>2, <2>1, InductiveSet
<1>4. n \in G
  BY <1>3
<1>5. n <= n
  BY SMT
<1>6. QED
  BY <1>4, <1>5 DEF G

-----------------------------------------------------------------------------
(* Lists.                                                                    *)

\* What is in a list is in the set its entries are taken from.
LEMMA ToSetType ==
    ASSUME NEW S, NEW s \in Seq(S)
    PROVE  /\ ToSet(s) \subseteq S
           /\ ToSet(s) = {} <=> s = <<>>
           /\ \A x : x \in ToSet(s) <=> \E i \in 1 .. Len(s) : s[i] = x
<1>1. Len(s) \in Nat /\ s \in [1 .. Len(s) -> S] /\ DOMAIN s = 1 .. Len(s)
  BY LenProperties
<1>2. \A x : x \in ToSet(s) <=> \E i \in 1 .. Len(s) : s[i] = x
  BY <1>1 DEF ToSet
<1>3. ToSet(s) \subseteq S
  BY <1>1, <1>2
<1>4. s = <<>> => ToSet(s) = {}
  BY <1>1, <1>2, EmptySeq, SMT
<1>5. ASSUME s # <<>>
      PROVE  ToSet(s) # {}
  <2>1. Len(s) \in Nat \ {0}
    BY <1>5, EmptySeq
  <2>2. s[1] \in ToSet(s)
    BY <2>1, <1>2, SMT
  <2>3. QED
    BY <2>2
<1>6. QED
  BY <1>2, <1>3, <1>4, <1>5

\* The empty list.
LEMMA ToSetEmpty ==
    ToSet(<<>>) = {} /\ IsInjective(<<>>) /\ Len(<<>>) = 0 /\ \A S : <<>> \in Seq(S)
<1>1. \A S : <<>> \in Seq(S) /\ Len(<<>>) = 0
  BY EmptySeq
<1>2. DOMAIN <<>> = 1 .. 0 /\ 1 .. 0 = {}
  BY <1>1, LenProperties, SMT
<1>3. QED
  BY <1>1, <1>2 DEF ToSet, IsInjective

\* Appending adds one entry at the end.
LEMMA AppendToSet ==
    ASSUME NEW S, NEW s \in Seq(S), NEW e \in S
    PROVE  /\ Append(s, e) \in Seq(S)
           /\ Append(s, e) # <<>>
           /\ Len(Append(s, e)) = Len(s) + 1
           /\ ToSet(Append(s, e)) = ToSet(s) \union {e}
           /\ IsInjective(s) /\ e \notin ToSet(s) => IsInjective(Append(s, e))
<1> DEFINE t == Append(s, e)
<1>1. /\ t \in Seq(S) /\ t # <<>> /\ Len(t) = Len(s) + 1
      /\ \A i \in 1 .. Len(s) : t[i] = s[i]
      /\ t[Len(s) + 1] = e
  BY AppendProperties
<1> HIDE DEF t
<1>2. Len(s) \in Nat /\ DOMAIN s = 1 .. Len(s) /\ DOMAIN t = 1 .. Len(t)
  BY <1>1, LenProperties
<1>3. 1 .. Len(t) = (1 .. Len(s)) \union {Len(s) + 1}
  BY <1>1, <1>2, SMT
<1>4. ToSet(t) = ToSet(s) \union {e}
  BY <1>1, <1>2, <1>3 DEF ToSet
<1>5. ASSUME IsInjective(s), e \notin ToSet(s)
      PROVE  IsInjective(t)
  BY <1>1, <1>2, <1>3, <1>5 DEF IsInjective, ToSet
<1>6. QED
  BY <1>1, <1>4, <1>5 DEF t

\* Taking the first entry.
LEMMA TailToSet ==
    ASSUME NEW S, NEW s \in Seq(S), s # <<>>
    PROVE  /\ Head(s) \in S
           /\ Head(s) \in ToSet(s)
           /\ Tail(s) \in Seq(S)
           /\ Len(Tail(s)) = Len(s) - 1
           /\ ToSet(s) = ToSet(Tail(s)) \union {Head(s)}
           /\ IsInjective(s) => IsInjective(Tail(s)) /\ Head(s) \notin ToSet(Tail(s))
<1> DEFINE t == Tail(s)
<1>1. /\ Head(s) \in S /\ t \in Seq(S) /\ Len(t) = Len(s) - 1
      /\ \A i \in 1 .. Len(t) : t[i] = s[i + 1]
  BY HeadTailProperties
<1>2. Head(s) = s[1]
  OBVIOUS
<1> HIDE DEF t
<1>3. Len(s) \in Nat \ {0} /\ DOMAIN s = 1 .. Len(s) /\ DOMAIN t = 1 .. Len(t)
  BY <1>1, LenProperties, EmptySeq
<1>4. 1 \in DOMAIN s /\ \A i \in DOMAIN t : i + 1 \in DOMAIN s /\ i + 1 # 1
  BY <1>1, <1>3, SMT
<1>5. \A i \in DOMAIN s : i = 1 \/ \E j \in DOMAIN t : i = j + 1
  <2>1. \A i \in 1 .. Len(s) : i = 1 \/ (i - 1 \in 1 .. Len(t) /\ i = (i - 1) + 1)
    BY <1>1, <1>3, SMT
  <2>2. QED
    BY <1>3, <2>1
<1>6. \A i \in DOMAIN t : t[i] = s[i + 1]
  BY <1>1, <1>3
<1>7. ToSet(s) = ToSet(t) \union {Head(s)}
  BY <1>2, <1>4, <1>5, <1>6 DEF ToSet
<1>8. ASSUME IsInjective(s)
      PROVE  IsInjective(t) /\ Head(s) \notin ToSet(t)
  <2>1. \A i, j \in DOMAIN t : t[i] = t[j] => i + 1 = j + 1
    BY <1>4, <1>6, <1>8 DEF IsInjective
  <2>2. \A i, j \in DOMAIN t : i + 1 = j + 1 => i = j
    BY <1>1, <1>3, SMT
  <2>3. Head(s) \notin ToSet(t)
    BY <1>2, <1>4, <1>6, <1>8 DEF IsInjective, ToSet
  <2>4. QED
    BY <2>1, <2>2, <2>3 DEF IsInjective
<1>9. QED
  BY <1>1, <1>7, <1>8 DEF t

\* Two lists one after the other.
LEMMA ConcatToSet ==
    ASSUME NEW S, NEW s \in Seq(S), NEW t \in Seq(S)
    PROVE  /\ s \o t \in Seq(S)
           /\ s \o t = <<>> <=> s = <<>> /\ t = <<>>
           /\ ToSet(s \o t) = ToSet(s) \union ToSet(t)
<1>1. s \o t \in Seq(S) /\ (s \o t = <<>> <=> s = <<>> /\ t = <<>>)
  BY ConcatProperties, ConcatEqualIffEmpty
<1>2. Range(s \o t) = Range(s) \union Range(t)
  BY RangeConcatenation
<1>3. \A q : ToSet(q) = Range(q)
  BY DEF ToSet, Range
<1>4. QED
  BY <1>1, <1>2, <1>3

\* A list with one entry.
LEMMA SingletonList ==
    ASSUME NEW S, NEW s \in Seq(S), Len(s) = 1
    PROVE  /\ s[1] \in S /\ Head(s) = s[1]
           /\ s = <<s[1]>>
           /\ ToSet(s) = {s[1]}
           /\ Tail(s) = <<>>
           /\ s # <<>>
<1>1. DOMAIN s = 1 .. 1 /\ s \in [1 .. 1 -> S] /\ 1 .. 1 = {1}
  BY LenProperties, SMT
<1>2. s[1] \in S /\ ToSet(s) = {s[1]}
  BY <1>1 DEF ToSet
<1>3. s # <<>>
  BY EmptySeq
<1>4. s = <<s[1]>>
  BY <1>1, <1>2, SMT
<1>5. Tail(s) \in Seq(S) /\ Len(Tail(s)) = 0
  BY <1>3, TailToSet, SMT
<1>6. Tail(s) = <<>>
  BY <1>5, EmptySeq
<1>7. QED
  BY <1>2, <1>3, <1>4, <1>6

-----------------------------------------------------------------------------
(* Entries taken out of a list and put in, and loops of n turns.              *)

\* A set of naturals with a bound has a greatest element, and Max is it.
LEMMA MaxOfBounded ==
    ASSUME NEW S \in SUBSET Nat, S # {}, NEW n \in Nat, \A y \in S : y <= n
    PROVE  Max(S) \in S /\ \A y \in S : y <= Max(S)
<1> DEFINE B == {k \in Nat : k <= n /\ n - k \in S}
<1>1. \A y \in S : n - y \in B
  BY SMT
<1>2. B \in SUBSET Nat /\ B # {}
  BY <1>1, Zenon
<1>3. PICK k \in B : \A j \in B : k <= j
  BY <1>2, MinOfNaturals, Zenon
<1>4. n - k \in S /\ \A y \in S : y <= n - k
  BY <1>1, <1>3, SMT
<1>5. \E x \in S : \A y \in S : x >= y
  BY <1>4, SMT
<1>6. Max(S) \in S /\ \A y \in S : Max(S) >= y
  BY <1>5, Zenon DEF Max
<1>7. QED
  BY <1>6, SMT

\* Taking out the entry at i: those behind it move up by one.
LEMMA RemoveAtList ==
    ASSUME NEW S, NEW s \in Seq(S), NEW i \in 1 .. Len(s)
    PROVE  /\ RemoveAt(s, i) \in Seq(S)
           /\ Len(RemoveAt(s, i)) = Len(s) - 1
           /\ DOMAIN RemoveAt(s, i) = 1 .. Len(s) - 1
           /\ \A j \in 1 .. Len(s) - 1 : RemoveAt(s, i)[j] = IF j < i THEN s[j] ELSE s[j + 1]
<1> DEFINE a == SubSeq(s, 1, i - 1)
           b == SubSeq(s, i + 1, Len(s))
<1>1. Len(s) \in Nat /\ \A j \in 1 .. Len(s) : s[j] \in S
  BY LenProperties, ElementOfSeq
<1>2. /\ a \in Seq(S) /\ Len(a) = i - 1
      /\ \A j \in 1 .. i - 1 : a[j] = s[j]
  <2>1. i - 1 \in Int /\ 1 \in Int /\ \A j \in 1 .. i - 1 : s[j] \in S
    BY <1>1, SMT
  <2>2. /\ a \in Seq(S) /\ Len(a) = IF 1 <= i - 1 THEN i - 1 - 1 + 1 ELSE 0
        /\ \A j \in 1 .. i - 1 - 1 + 1 : a[j] = s[1 + j - 1]
    BY <2>1, SubSeqProperties
  <2> HIDE DEF a
  <2>3. QED
    BY <2>2, <1>1, SMT
<1>3. /\ b \in Seq(S) /\ Len(b) = Len(s) - i
      /\ \A j \in 1 .. Len(s) - i : b[j] = s[i + j]
  <2>1. i + 1 \in Int /\ Len(s) \in Int /\ \A j \in i + 1 .. Len(s) : s[j] \in S
    BY <1>1, SMT
  <2>2. /\ b \in Seq(S) /\ Len(b) = IF i + 1 <= Len(s) THEN Len(s) - (i + 1) + 1 ELSE 0
        /\ \A j \in 1 .. Len(s) - (i + 1) + 1 : b[j] = s[(i + 1) + j - 1]
    BY <2>1, SubSeqProperties
  <2> HIDE DEF b
  <2>3. QED
    BY <2>2, <1>1, SMT
<1> HIDE DEF a, b
<1>4. /\ a \o b \in Seq(S) /\ Len(a \o b) = Len(a) + Len(b)
      /\ \A j \in 1 .. Len(a) + Len(b) :
             (a \o b)[j] = IF j <= Len(a) THEN a[j] ELSE b[j - Len(a)]
  BY <1>2, <1>3, ConcatProperties, Zenon
<1>5. RemoveAt(s, i) = a \o b
  BY DEF RemoveAt, a, b
<1> DEFINE c == a \o b
<1>6. c \in Seq(S) /\ Len(c) = Len(s) - 1
  BY <1>1, <1>2, <1>3, <1>4, SMT
<1>7. \A j \in 1 .. Len(s) - 1 : c[j] = IF j <= i - 1 THEN a[j] ELSE b[j - (i - 1)]
  BY <1>1, <1>2, <1>3, <1>4, SMT
<1> HIDE DEF c
<1>8. \A j \in 1 .. Len(s) - 1 : c[j] = IF j < i THEN s[j] ELSE s[j + 1]
  BY <1>1, <1>2, <1>3, <1>7, SMT
<1>9. DOMAIN c = 1 .. Len(s) - 1
  BY <1>6, LenProperties
<1>10. QED
  BY <1>5, <1>6, <1>8, <1>9 DEF c

\* Parts of two lists that agree there are equal.
LEMMA SubSeqSame ==
    ASSUME NEW S, NEW s, NEW t, NEW m \in Int, NEW n \in Int,
           \A j \in m .. n : s[j] \in S /\ t[j] = s[j]
    PROVE  SubSeq(s, m, n) = SubSeq(t, m, n)
<1> DEFINE a == SubSeq(s, m, n)
           b == SubSeq(t, m, n)
           l == IF m <= n THEN n - m + 1 ELSE 0
<1>1. a \in Seq(S) /\ Len(a) = l /\ \A j \in 1 .. n - m + 1 : a[j] = s[m + j - 1]
  BY SubSeqProperties
<1>2. b \in Seq(S) /\ Len(b) = l /\ \A j \in 1 .. n - m + 1 : b[j] = t[m + j - 1]
  BY SubSeqProperties
<1> HIDE DEF a, b
<1>3. \A j \in 1 .. l : m + j - 1 \in m .. n /\ j \in 1 .. n - m + 1
  BY SMT
<1>4. \A j \in 1 .. l : a[j] = b[j]
  BY <1>1, <1>2, <1>3
<1>5. a = b
  BY <1>1, <1>2, <1>4, SeqEqual
<1>6. QED
  BY <1>5 DEF a, b

\* Putting e in at i: what was there and behind moves back by one.
LEMMA InsertAtList ==
    ASSUME NEW S, NEW s \in Seq(S), NEW i \in 1 .. Len(s) + 1, NEW e \in S
    PROVE  /\ InsertAt(s, i, e) \in Seq(S)
           /\ Len(InsertAt(s, i, e)) = Len(s) + 1
           /\ DOMAIN InsertAt(s, i, e) = 1 .. Len(s) + 1
           /\ \A j \in 1 .. Len(s) + 1 :
                  InsertAt(s, i, e)[j] = IF j < i THEN s[j] ELSE IF j = i THEN e ELSE s[j - 1]
<1> DEFINE a == SubSeq(s, 1, i - 1)
           b == SubSeq(s, i, Len(s))
           c == <<e>>
<1>1. Len(s) \in Nat /\ \A j \in 1 .. Len(s) : s[j] \in S
  BY LenProperties, ElementOfSeq
<1>2. /\ a \in Seq(S) /\ Len(a) = i - 1
      /\ \A j \in 1 .. i - 1 : a[j] = s[j]
  <2>1. i - 1 \in Int /\ 1 \in Int /\ \A j \in 1 .. i - 1 : s[j] \in S
    BY <1>1, SMT
  <2>2. /\ a \in Seq(S) /\ Len(a) = IF 1 <= i - 1 THEN i - 1 - 1 + 1 ELSE 0
        /\ \A j \in 1 .. i - 1 - 1 + 1 : a[j] = s[1 + j - 1]
    BY <2>1, SubSeqProperties
  <2> HIDE DEF a
  <2>3. QED
    BY <2>2, <1>1, SMT
<1>3. /\ b \in Seq(S) /\ Len(b) = Len(s) - i + 1
      /\ \A j \in 1 .. Len(s) - i + 1 : b[j] = s[i + j - 1]
  <2>1. i \in Int /\ Len(s) \in Int /\ \A j \in i .. Len(s) : s[j] \in S
    BY <1>1, SMT
  <2>2. /\ b \in Seq(S) /\ Len(b) = IF i <= Len(s) THEN Len(s) - i + 1 ELSE 0
        /\ \A j \in 1 .. Len(s) - i + 1 : b[j] = s[i + j - 1]
    BY <2>1, SubSeqProperties
  <2> HIDE DEF b
  <2>3. QED
    BY <2>2, <1>1, SMT
<1>4. c \in Seq(S) /\ Len(c) = 1 /\ c[1] = e
  OBVIOUS
<1> HIDE DEF a, b, c
<1>5. /\ a \o c \in Seq(S) /\ Len(a \o c) = i
      /\ \A j \in 1 .. i : (a \o c)[j] = IF j < i THEN s[j] ELSE e
  <2>1. /\ a \o c \in Seq(S) /\ Len(a \o c) = Len(a) + Len(c)
        /\ \A j \in 1 .. Len(a) + Len(c) :
               (a \o c)[j] = IF j <= Len(a) THEN a[j] ELSE c[j - Len(a)]
    BY <1>2, <1>4, ConcatProperties, Zenon
  <2>2. QED
    BY <2>1, <1>1, <1>2, <1>4, SMT
<1> DEFINE d == a \o c
<1> HIDE DEF d
<1>6. d \in Seq(S) /\ Len(d) = i /\ \A j \in 1 .. i : d[j] = IF j < i THEN s[j] ELSE e
  BY <1>5 DEF d
<1>7. /\ d \o b \in Seq(S) /\ Len(d \o b) = Len(d) + Len(b)
      /\ \A j \in 1 .. Len(d) + Len(b) :
             (d \o b)[j] = IF j <= Len(d) THEN d[j] ELSE b[j - Len(d)]
  BY <1>3, <1>6, ConcatProperties, Zenon
<1>8. InsertAt(s, i, e) = d \o b
  BY DEF InsertAt, a, b, c, d
<1>9. QED
  BY <1>1, <1>3, <1>6, <1>7, <1>8, LenProperties, SMT

\* A loop of n turns.  R[i] is a set in which the value is after turn i, and T
\* makes each value of the one before: the loop's function exists, and every
\* function it could be is in R[n] at the end.
IsLoop(f, n, x0, T) == f = [i \in 0 .. n |-> IF i = 0 THEN x0 ELSE T[<<i, f[i - 1]>>]]

\* Turns that lead from each R[i - 1] to R[i]: the loop's function exists and
\* is in R[i] after turn i.
LEMMA TurnsExist ==
    ASSUME NEW n \in Nat, NEW X, NEW R \in [0 .. n -> SUBSET X], NEW x0 \in R[0],
           NEW T \in [(1 .. n) \X X -> X],
           \A i \in 1 .. n : \A x \in R[i - 1] : T[<<i, x>>] \in R[i]
    PROVE  \E f : IsLoop(f, n, x0, T) /\ \A i \in 0 .. n : f[i] \in R[i]
<1>1. x0 \in X
  <2>1. R[0] \in SUBSET X
    BY SMT
  <2>2. QED
    BY <2>1
<1>2. PICK f \in [0 .. n -> X] : IsRecursion(f, x0, n, T)
  BY <1>1, RecursionExists, Zenon
<1>3. f = [i \in 0 .. n |-> IF i = 0 THEN x0 ELSE T[<<i, f[i - 1]>>]]
  <2>1. \A i \in 0 .. n : f[i] = IF i = 0 THEN x0 ELSE T[<<i, f[i - 1]>>]
    BY <1>2, SMT DEF IsRecursion
  <2>2. QED
    BY <1>2, <2>1
<1> DEFINE G == {i \in Nat : i <= n => f[i] \in R[i]}
<1>4. 0 \in G
  BY <1>2 DEF IsRecursion
<1>5. ASSUME NEW i \in G
      PROVE  i + 1 \in G
  <2>1. SUFFICES ASSUME i + 1 <= n
                 PROVE  f[i + 1] \in R[i + 1]
    OBVIOUS
  <2>2. i + 1 \in 1 .. n /\ (i + 1) - 1 = i /\ f[i] \in R[i]
    BY <2>1, SMT
  <2>3. f[i + 1] = T[<<i + 1, f[i]>>]
    BY <1>2, <2>2 DEF IsRecursion
  <2>4. T[<<i + 1, f[i]>>] \in R[i + 1]
    BY <2>2
  <2>5. QED
    BY <2>3, <2>4
<1> HIDE DEF G
<1>6. G = Nat
  BY <1>4, <1>5, InductiveSet, Zenon DEF G
<1>7. \A i \in 0 .. n : f[i] \in R[i]
  BY <1>6, SMT DEF G
<1>8. QED
  BY <1>3, <1>7, Zenon DEF IsLoop

\* What holds at 0 and is handed on by every turn holds after the last.
LEMMA UpTo ==
    ASSUME NEW n \in Nat, NEW G, 0 \in G, \A i \in 1 .. n : i - 1 \in G => i \in G
    PROVE  n \in G
<1> DEFINE H == {i \in Nat : i <= n => i \in G}
<1>1. 0 \in H
  OBVIOUS
<1>2. ASSUME NEW i \in H
      PROVE  i + 1 \in H
  <2>1. SUFFICES ASSUME i + 1 <= n
                 PROVE  i + 1 \in G
    OBVIOUS
  <2>2. i + 1 \in 1 .. n /\ (i + 1) - 1 = i /\ i \in G
    BY <2>1, SMT
  <2>3. QED
    BY <2>2
<1> HIDE DEF H
<1>3. H = Nat
  BY <1>1, <1>2, InductiveSet, Zenon DEF H
<1>4. QED
  BY <1>3, SMT DEF H

\* A loop's function whose every turn leads from one set of R to the next.
LEMMA TurnsEnd ==
    ASSUME NEW n \in Nat, NEW R, NEW f, f[0] \in R[0],
           \A i \in 1 .. n : f[i - 1] \in R[i - 1] => f[i] \in R[i]
    PROVE  f[n] \in R[n]
<1> DEFINE G == {i \in 0 .. n : f[i] \in R[i]}
<1>1. 0 \in G
  BY SMT
<1>2. ASSUME NEW i \in 1 .. n, i - 1 \in G
      PROVE  i \in G
  <2>1. i \in 0 .. n
    BY SMT
  <2>2. QED
    BY <1>2, <2>1
<1> HIDE DEF G
<1>3. n \in G
  BY <1>1, <1>2, UpTo
<1>4. QED
  BY <1>3 DEF G

-----------------------------------------------------------------------------
(* A finite set in the order of a relation                                   *)

IsOrder(S, L) ==
    /\ \A x \in S : <<x, x>> \notin L
    /\ \A x, y \in S : x # y => <<x, y>> \in L \/ <<y, x>> \in L
    /\ \A x, y, z \in S : <<x, y>> \in L /\ <<y, z>> \in L => <<x, z>> \in L
Under(S, L, n) == {m \in S : <<m, n>> \in L}
Listed(S, L) == [k \in 1 .. Cardinality(S) |-> CHOOSE n \in S : Cardinality(Under(S, L, n)) = k - 1]

\* An element's rank, how many come before it, grows with the order.
LEMMA RankGrows ==
    ASSUME NEW S, IsFiniteSet(S), NEW L, IsOrder(S, L)
    PROVE  /\ Cardinality(S) \in Nat
           /\ \A n \in S : Cardinality(Under(S, L, n)) \in 0 .. Cardinality(S) - 1
           /\ \A x, y \in S : <<x, y>> \in L => Cardinality(Under(S, L, x)) < Cardinality(Under(S, L, y))
           /\ \A x, y \in S : Cardinality(Under(S, L, x)) = Cardinality(Under(S, L, y)) => x = y
           /\ \A x, y \in S : Cardinality(Under(S, L, x)) < Cardinality(Under(S, L, y)) => <<x, y>> \in L
<1> DEFINE U(n) == Under(S, L, n)
<1>1. Cardinality(S) \in Nat
  BY FS_CardinalityType
<1>2. \A n \in S : U(n) \in SUBSET S /\ IsFiniteSet(U(n)) /\ Cardinality(U(n)) \in Nat /\ n \notin U(n)
  BY FS_Subset, FS_CardinalityType, Zenon DEF Under, IsOrder
<1>3. ASSUME NEW n \in S
      PROVE  Cardinality(U(n)) \in 0 .. Cardinality(S) - 1
  <2>1. Cardinality(U(n)) <= Cardinality(S) /\ Cardinality(U(n)) # Cardinality(S)
    BY <1>2, FS_Subset
  <2>2. QED
    BY <1>1, <1>2, <2>1, SMT
<1>4. ASSUME NEW x \in S, NEW y \in S, <<x, y>> \in L
      PROVE  Cardinality(U(x)) < Cardinality(U(y))
  <2>1. U(x) \in SUBSET U(y) /\ x \in U(y) /\ x \notin U(x)
    BY <1>2, <1>4 DEF Under, IsOrder
  <2>2. IsFiniteSet(U(y))
    BY <1>2
  <2> HIDE DEF U
  <2>3. Cardinality(U(x)) <= Cardinality(U(y)) /\ Cardinality(U(x)) # Cardinality(U(y))
    BY <2>1, <2>2, FS_Subset
  <2>4. QED
    BY <1>2, <2>3, SMT
<1> HIDE DEF U
<1>5. ASSUME NEW x \in S, NEW y \in S, x # y
      PROVE  Cardinality(U(x)) # Cardinality(U(y))
  <2>1. <<x, y>> \in L \/ <<y, x>> \in L
    BY <1>5 DEF IsOrder
  <2>2. QED
    BY <1>2, <1>4, <2>1, SMT
<1>6. ASSUME NEW x \in S, NEW y \in S, Cardinality(U(x)) < Cardinality(U(y))
      PROVE  <<x, y>> \in L
  <2>1. x # y
    BY <1>2, <1>6, SMT
  <2>2. ~(<<y, x>> \in L)
    BY <1>2, <1>4, <1>6, SMT
  <2>3. QED
    BY <2>1, <2>2 DEF IsOrder
<1>7. QED
  BY <1>1, <1>3, <1>4, <1>5, <1>6 DEF U

\* Listed is the list of the elements in their order.
LEMMA ListedInOrder ==
    ASSUME NEW S, IsFiniteSet(S), NEW L, IsOrder(S, L), NEW lst, lst = Listed(S, L)
    PROVE  /\ lst \in Seq(S) /\ Len(lst) = Cardinality(S) /\ Cardinality(S) \in Nat
           /\ \A n \in S : \E i \in DOMAIN lst : lst[i] = n
           /\ \A i, j \in DOMAIN lst : i < j => <<lst[i], lst[j]>> \in L
<1> DEFINE N == Cardinality(S)
           r == [n \in S |-> Cardinality(Under(S, L, n))]
<1>1. /\ N \in Nat /\ r \in [S -> 0 .. N - 1]
      /\ \A x, y \in S : r[x] = r[y] => x = y
      /\ \A x, y \in S : r[x] < r[y] => <<x, y>> \in L
  BY RankGrows
<1>2. \A k \in 0 .. N - 1 : \E n \in S : r[n] = k
  <2>1. r \in Injection(S, 0 .. N - 1)
    BY <1>1 DEF Injection, IsInjective
  <2>2. IsFiniteSet(0 .. N - 1) /\ Cardinality(0 .. N - 1) = N
    BY <1>1, FS_Interval, SMTT(30)
  <2>3. r \in Surjection(S, 0 .. N - 1)
    BY <2>1, <2>2, FS_Injection
  <2>4. QED
    BY <2>3, Zenon DEF Surjection
<1>3. /\ lst = [k \in 1 .. N |-> CHOOSE n \in S : r[n] = k - 1]
      /\ \A n \in S : r[n] = Cardinality(Under(S, L, n))
  <2>1. \A k : (CHOOSE n \in S : r[n] = k - 1) = CHOOSE n \in S : Cardinality(Under(S, L, n)) = k - 1
    OBVIOUS
  <2>2. QED
    BY <2>1 DEF Listed
<1> HIDE DEF N, r
<1>4. \A k \in 1 .. N : lst[k] \in S /\ r[lst[k]] = k - 1
  <2>1. \A k \in 1 .. N : k - 1 \in 0 .. N - 1
    BY <1>1, SMT
  <2>2. \A k \in 1 .. N : \E n \in S : r[n] = k - 1
    BY <1>2, <2>1
  <2>3. QED
    BY <1>3, <2>2
<1>5. lst \in [1 .. N -> S] /\ DOMAIN lst = 1 .. N
  BY <1>3, <1>4
<1>6. lst \in Seq(S) /\ Len(lst) = N
  BY <1>1, <1>5, SMT
<1>7. ASSUME NEW n \in S
      PROVE  \E i \in DOMAIN lst : lst[i] = n
  <2> DEFINE i == r[n] + 1
  <2>1. i \in 1 .. N /\ i - 1 = r[n]
    BY <1>1, SMT
  <2>2. r[lst[i]] = r[n] /\ lst[i] \in S
    BY <1>4, <2>1
  <2>3. QED
    BY <1>1, <1>5, <2>1, <2>2
<1>8. ASSUME NEW i \in DOMAIN lst, NEW j \in DOMAIN lst, i < j
      PROVE  <<lst[i], lst[j]>> \in L
  <2>1. lst[i] \in S /\ lst[j] \in S /\ r[lst[i]] = i - 1 /\ r[lst[j]] = j - 1
    BY <1>4, <1>5
  <2>2. i - 1 < j - 1
    BY <1>1, <1>5, <1>8, SMT
  <2>3. QED
    BY <1>1, <2>1, <2>2
<1>9. QED
  BY <1>1, <1>6, <1>7, <1>8 DEF N

=============================================================================

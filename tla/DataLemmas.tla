------------------------------ MODULE DataLemmas ------------------------------
(***************************************************************************)
(* Facts about the data the models are built from: a first-in first-out    *)
(* queue without repetitions, kept as a sequence; least elements, which    *)
(* stand for induction; and sums over a finite set.                        *)
(***************************************************************************)
EXTENDS Integers, SequencesExt, SequenceTheorems, FiniteSetTheorems, TLAPS

-----------------------------------------------------------------------------
(* Queues *)

NoRepeat(q) == \A i, j \in 1..Len(q) : q[i] = q[j] => i = j

\* An index of the queue names one of its members.
LEMMA InRange ==
    ASSUME NEW S, NEW q \in Seq(S), NEW i \in 1..Len(q)
    PROVE  q[i] \in Range(q)
  BY DEF Range

\* Joining the queue adds exactly the newcomer.
LEMMA AppendFacts ==
    ASSUME NEW S, NEW q \in Seq(S), NEW e \in S, NoRepeat(q), e \notin Range(q)
    PROVE  /\ Append(q, e) \in Seq(S)
           /\ Range(Append(q, e)) = Range(q) \cup {e}
           /\ NoRepeat(Append(q, e))
<1>1. /\ Append(q, e) \in Seq(S) /\ Len(Append(q, e)) = Len(q) + 1
      /\ \A i \in 1..Len(q) : Append(q, e)[i] = q[i]
      /\ Append(q, e)[Len(q) + 1] = e
  OBVIOUS
<1>2. \A i \in 1..Len(q) : q[i] # e
  BY DEF Range
<1>3. Range(Append(q, e)) = Range(q) \cup {e}
  BY <1>1 DEF Range
<1> QED
  BY <1>1, <1>2, <1>3 DEF NoRepeat

\* Waking the head removes exactly the head.
LEMMA HeadTailFacts ==
    ASSUME NEW S, NEW q \in Seq(S), q # <<>>, NoRepeat(q)
    PROVE  /\ Head(q) \in S /\ Tail(q) \in Seq(S)
           /\ Head(q) \in Range(q)
           /\ Range(Tail(q)) = Range(q) \ {Head(q)}
           /\ NoRepeat(Tail(q))
<1>1. /\ Head(q) \in S /\ Tail(q) \in Seq(S) /\ Len(Tail(q)) = Len(q) - 1
      /\ \A i \in 1..Len(Tail(q)) : Tail(q)[i] = q[i + 1]
      /\ Len(q) \in Nat \ {0} /\ Head(q) = q[1]
  BY HeadTailProperties
<1>2. Head(q) \in Range(q)
  BY <1>1 DEF Range
<1>3. \A x : x \in Range(Tail(q)) <=> x \in Range(q) \ {Head(q)}
  <2>1. ASSUME NEW x, x \in Range(Tail(q)) PROVE x \in Range(q) \ {Head(q)}
    <3>1. PICK i \in 1..Len(Tail(q)) : x = Tail(q)[i]
      BY <1>1, <2>1 DEF Range
    <3>2. x = q[i + 1] /\ i + 1 \in 1..Len(q) /\ i + 1 # 1
      BY <1>1, <3>1
    <3> QED
      BY <1>1, <3>2 DEF Range, NoRepeat
  <2>2. ASSUME NEW x, x \in Range(q) \ {Head(q)} PROVE x \in Range(Tail(q))
    <3>1. PICK i \in 1..Len(q) : x = q[i]
      BY <2>2 DEF Range
    <3>2. i - 1 \in 1..Len(Tail(q)) /\ Tail(q)[i - 1] = x
      BY <1>1, <2>2, <3>1
    <3> QED
      BY <1>1, <3>2, InRange
  <2> QED
    BY <2>1, <2>2
<1>4. NoRepeat(Tail(q))
  BY <1>1 DEF NoRepeat
<1> QED
  BY <1>1, <1>2, <1>3, <1>4

\* Splicing an entry out removes exactly that entry.
LEMMA RemoveAtFacts ==
    ASSUME NEW S, NEW q \in Seq(S), NEW k \in 1..Len(q), NoRepeat(q)
    PROVE  /\ RemoveAt(q, k) \in Seq(S)
           /\ Range(RemoveAt(q, k)) = Range(q) \ {q[k]}
           /\ NoRepeat(RemoveAt(q, k))
<1> DEFINE left == SubSeq(q, 1, k - 1)
           right == SubSeq(q, k + 1, Len(q))
<1>1. /\ left \in Seq(S) /\ Len(left) = k - 1
      /\ \A i \in 1..(k - 1) : left[i] = q[i]
  BY SubSeqProperties
<1>2. /\ right \in Seq(S) /\ Len(right) = Len(q) - k
      /\ \A i \in 1..(Len(q) - k) : right[i] = q[k + i]
  BY SubSeqProperties
<1> HIDE DEF left, right
<1>3. /\ RemoveAt(q, k) \in Seq(S) /\ Len(RemoveAt(q, k)) = Len(q) - 1
      /\ \A i \in 1..(k - 1) : RemoveAt(q, k)[i] = q[i]
      /\ \A i \in k..(Len(q) - 1) : RemoveAt(q, k)[i] = q[i + 1]
  <2>1. RemoveAt(q, k) = left \o right
    BY DEF RemoveAt, left, right
  <2>2. /\ left \o right \in Seq(S) /\ Len(left \o right) = Len(q) - 1
        /\ \A i \in 1..(Len(q) - 1) :
             (left \o right)[i] = IF i <= k - 1 THEN left[i] ELSE right[i - (k - 1)]
    <3>1. Len(left) + Len(right) = Len(q) - 1
      BY <1>1, <1>2
    <3>2. /\ left \o right \in Seq(S)
          /\ Len(left \o right) = Len(left) + Len(right)
          /\ \A i \in 1..(Len(left) + Len(right)) : (left \o right)[i] =
                 IF i <= Len(left) THEN left[i] ELSE right[i - Len(left)]
      BY <1>1, <1>2, ConcatProperties
    <3> QED
      BY <1>1, <3>1, <3>2
  <2>3. \A i \in 1..(k - 1) : (left \o right)[i] = q[i]
    BY <1>1, <2>2
  <2>4. ASSUME NEW i \in k..(Len(q) - 1) PROVE (left \o right)[i] = q[i + 1]
    <3>1. i - (k - 1) \in 1..(Len(q) - k) /\ k + (i - (k - 1)) = i + 1 /\ ~(i <= k - 1)
      OBVIOUS
    <3> QED
      BY <1>2, <2>2, <3>1
  <2> QED
    BY <2>1, <2>2, <2>3, <2>4
<1>4. NoRepeat(RemoveAt(q, k))
  BY <1>3 DEF NoRepeat
<1>5. \A x : x \in Range(RemoveAt(q, k)) <=> x \in Range(q) \ {q[k]}
  <2>1. ASSUME NEW x, x \in Range(RemoveAt(q, k)) PROVE x \in Range(q) \ {q[k]}
    <3>1. PICK i \in 1..(Len(q) - 1) : x = RemoveAt(q, k)[i]
      BY <1>3, <2>1 DEF Range
    <3>2. \E j \in 1..Len(q) : x = q[j] /\ j # k
      <4>1. CASE i \in 1..(k - 1)
        BY <1>3, <3>1, <4>1
      <4>2. CASE i \in k..(Len(q) - 1)
        BY <1>3, <3>1, <4>2
      <4> QED
        BY <4>1, <4>2
    <3> QED
      BY <3>2 DEF Range, NoRepeat
  <2>2. ASSUME NEW x, x \in Range(q) \ {q[k]} PROVE x \in Range(RemoveAt(q, k))
    <3>1. PICK j \in 1..Len(q) : x = q[j] /\ j # k
      BY <2>2 DEF Range
    <3>2. \E i \in 1..(Len(q) - 1) : RemoveAt(q, k)[i] = x
      <4>1. CASE j < k
        BY <1>3, <3>1, <4>1
      <4>2. CASE j > k
        <5>1. j - 1 \in k..(Len(q) - 1) /\ (j - 1) + 1 = j
          BY <4>2
        <5>2. RemoveAt(q, k)[j - 1] = q[(j - 1) + 1]
          BY <1>3, <5>1
        <5>3. j - 1 \in 1..(Len(q) - 1)
          BY <5>1
        <5> QED
          BY <3>1, <5>1, <5>2, <5>3
      <4> QED
        BY <3>1, <4>1, <4>2
    <3> QED
      BY <1>3, <3>2 DEF Range
  <2> QED
    BY <2>1, <2>2
<1> QED
  BY <1>3, <1>4, <1>5

\* Concatenation, the tail and the empty queue, place by place.
LEMMA Joined ==
    ASSUME NEW S, NEW p \in Seq(S), NEW q \in Seq(S)
    PROVE  /\ p \o q \in Seq(S)
           /\ Len(p \o q) = Len(p) + Len(q) /\ Len(p) \in Nat /\ Len(q) \in Nat
           /\ \A i \in 1..Len(p) : i \in 1..Len(p \o q) /\ (p \o q)[i] = p[i]
           /\ \A i \in 1..Len(q) : Len(p) + i \in 1..Len(p \o q) /\ (p \o q)[Len(p) + i] = q[i]
           /\ \A k \in 1..Len(p \o q) : \/ k \in 1..Len(p) /\ (p \o q)[k] = p[k]
                                        \/ /\ k - Len(p) \in 1..Len(q) /\ k > Len(p)
                                           /\ (p \o q)[k] = q[k - Len(p)]
OBVIOUS

\* What a queue is once x and then y have been put behind a: a's places stay,
\* all of x is there, and every other place is one of theirs.
Extends(o, a, x, y) ==
    /\ \A i \in 1..Len(a) : i \in 1..Len(o) /\ o[i] = a[i]
    /\ \A i \in 1..Len(x) : \E k \in 1..Len(o) : o[k] = x[i]
    /\ \A k \in 1..Len(o) : \/ k \in 1..Len(a) /\ o[k] = a[k]
                            \/ \E i \in 1..Len(x) : o[k] = x[i]
                            \/ \E i \in 1..Len(y) : o[k] = y[i]

\* Two sequences joined to a third: what a reply of two parts leaves on a queue.
LEMMA JoinedTwice ==
    ASSUME NEW S, NEW a \in Seq(S), NEW x \in Seq(S), NEW y \in Seq(S)
    PROVE  Extends((a \o x) \o y, a, x, y)
<1> SUFFICES ASSUME NEW p, p = a \o x, NEW o, o = p \o y PROVE Extends(o, a, x, y)
  OBVIOUS
<1>1. /\ p \in Seq(S)
      /\ \A i \in 1..Len(a) : i \in 1..Len(p) /\ p[i] = a[i]
      /\ \A i \in 1..Len(x) : Len(a) + i \in 1..Len(p) /\ p[Len(a) + i] = x[i]
      /\ \A k \in 1..Len(p) : \/ k \in 1..Len(a) /\ p[k] = a[k]
                              \/ k - Len(a) \in 1..Len(x) /\ p[k] = x[k - Len(a)]
  <2> DEFINE Fits(t) ==
        /\ t \in Seq(S)
        /\ \A i \in 1..Len(a) : i \in 1..Len(t) /\ t[i] = a[i]
        /\ \A i \in 1..Len(x) : Len(a) + i \in 1..Len(t) /\ t[Len(a) + i] = x[i]
        /\ \A k \in 1..Len(t) : \/ k \in 1..Len(a) /\ t[k] = a[k]
                                \/ k - Len(a) \in 1..Len(x) /\ t[k] = x[k - Len(a)]
  <2>1. Fits(a \o x) BY Joined
  <2> HIDE DEF Fits
  <2>2. Fits(p) BY <2>1, Zenon
  <2> QED BY <2>2 DEF Fits
<1>2. /\ o \in Seq(S)
      /\ \A i \in 1..Len(p) : i \in 1..Len(o) /\ o[i] = p[i]
      /\ \A k \in 1..Len(o) : \/ k \in 1..Len(p) /\ o[k] = p[k]
                              \/ k - Len(p) \in 1..Len(y) /\ o[k] = y[k - Len(p)]
  <2> DEFINE Fits(t) ==
        /\ t \in Seq(S)
        /\ \A i \in 1..Len(p) : i \in 1..Len(t) /\ t[i] = p[i]
        /\ \A k \in 1..Len(t) : \/ k \in 1..Len(p) /\ t[k] = p[k]
                                \/ k - Len(p) \in 1..Len(y) /\ t[k] = y[k - Len(p)]
  <2>1. Fits(p \o y) BY <1>1, Joined
  <2> HIDE DEF Fits
  <2>2. Fits(o) BY <2>1, Zenon
  <2> QED BY <2>2 DEF Fits
<1>3. \A i \in 1..Len(a) : i \in 1..Len(o) /\ o[i] = a[i] BY <1>1, <1>2
<1>4. ASSUME NEW i \in 1..Len(x) PROVE \E k \in 1..Len(o) : o[k] = x[i]
  <2>1. Len(a) + i \in 1..Len(o) /\ o[Len(a) + i] = x[i] BY <1>1, <1>2
  <2> QED BY <2>1
<1>5. ASSUME NEW k \in 1..Len(o)
      PROVE  \/ k \in 1..Len(a) /\ o[k] = a[k]
             \/ \E i \in 1..Len(x) : o[k] = x[i]
             \/ \E i \in 1..Len(y) : o[k] = y[i]
  <2>1. CASE k \in 1..Len(p) /\ o[k] = p[k] BY <1>1, <2>1
  <2>2. CASE k - Len(p) \in 1..Len(y) /\ o[k] = y[k - Len(p)] BY <2>2
  <2> QED BY <1>2, <2>1, <2>2
<1> QED BY <1>3, <1>4, <1>5 DEF Extends

\* What the tail holds, and where it stood.
LEMMA Tailed ==
    ASSUME NEW S, NEW q \in Seq(S), q # <<>>
    PROVE  /\ Tail(q) \in Seq(S) /\ Head(q) \in S /\ Head(q) = q[1] /\ 1 \in 1..Len(q)
           /\ Len(q) \in Nat /\ Len(Tail(q)) = Len(q) - 1
           /\ \A i \in 1..Len(Tail(q)) : i + 1 \in 1..Len(q) /\ Tail(q)[i] = q[i + 1]
           /\ \A k \in 1..Len(q) : k # 1 => k - 1 \in 1..Len(Tail(q)) /\ Tail(q)[k - 1] = q[k]
OBVIOUS

\* An empty queue has no place.
LEMMA EmptyQueue == Len(<<>>) = 0 /\ \A i \in 1..Len(<<>>) : FALSE
OBVIOUS

-----------------------------------------------------------------------------
(* Least elements *)

\* Among subsets of a finite set, some is least.
LEMMA FiniteLeast ==
    ASSUME NEW S, IsFiniteSet(S), NEW F \in SUBSET SUBSET S, F # {}
    PROVE  \E T \in F : \A U \in F : U \subseteq T => U = T
<1>1. IsWellFoundedOn(StrictSubsetOrdering(S), FiniteSubsetsOf(S))
  BY FS_StrictSubsetOrderingWellFounded
<1>2. F \subseteq FiniteSubsetsOf(S)
  BY FS_Subset DEF FiniteSubsetsOf
<1>3. PICK T \in F : \A U \in F : <<U, T>> \notin StrictSubsetOrdering(S)
  BY <1>1, <1>2, WFMin
<1> QED BY <1>3 DEF StrictSubsetOrdering

\* A set of natural numbers has a least element.
LEMMA LeastNatural ==
    ASSUME NEW X \in SUBSET Nat, X # {}
    PROVE  \E m \in X : \A k \in X : m <= k
<1> PICK n \in X : TRUE OBVIOUS
<1> DEFINE Low == {0..m : m \in {k \in X : k <= n}}
           All == 0..n
<1>1. IsFiniteSet(All) BY FS_Interval
<1>2. Low \in SUBSET SUBSET All /\ Low # {} OBVIOUS
<1> HIDE DEF Low, All
<1>3. PICK T \in Low : \A U \in Low : U \subseteq T => U = T
  BY <1>1, <1>2, FiniteLeast
<1> USE DEF Low, All
<1>4. PICK m \in X : m <= n /\ T = 0..m BY <1>3
<1>5. ASSUME NEW k \in X, k < m PROVE FALSE
  <2>1. 0..k \in Low /\ 0..k \subseteq T BY <1>4, <1>5
  <2>2. 0..k = 0..m BY <2>1, <1>3, <1>4
  <2> QED BY <2>2, <1>5
<1> QED BY <1>4, <1>5

\* The community module's least element of a set of naturals.
LEMMA LeastOf ==
    ASSUME NEW S \in SUBSET Nat, S # {}
    PROVE  Min(S) \in S /\ \A k \in S : Min(S) <= k
<1>1. PICK m \in S : \A k \in S : m <= k BY LeastNatural
<1> QED BY <1>1 DEF Min

-----------------------------------------------------------------------------
(* Division *)

\* Integer division, as the provers know it.
LEMMA DivisionIs ==
    ASSUME NEW n \in Nat \ {0}, NEW x \in Int
    PROVE  /\ x \div n \in Int /\ x % n \in 0..(n - 1)
           /\ x = (x \div n) * n + (x % n)
OBVIOUS

\* A greater factor adds a whole multiple.
LEMMA OneMultiple ==
    ASSUME NEW n \in Nat \ {0}, NEW q \in Int, NEW p \in Int, q < p
    PROVE  q * n + n <= p * n
<1>1. (p - q - 1) * n >= 0 OBVIOUS
<1> QED BY <1>1

\* Quotient and remainder are the only ones.
LEMMA DivisionIsUnique ==
    ASSUME NEW n \in Nat \ {0}, NEW q \in Int, NEW r \in 0..(n - 1)
    PROVE  (q * n + r) \div n = q /\ (q * n + r) % n = r
<1> DEFINE x == q * n + r
           p == x \div n
           s == x % n
<1>1. x \in Int /\ p \in Int /\ s \in 0..(n - 1) /\ x = p * n + s /\ x = q * n + r BY DivisionIs
<1> HIDE DEF p, s, x
<1>2. q * n \in Int /\ p * n \in Int BY <1>1
<1>3. ~(q < p) BY <1>1, <1>2, OneMultiple
<1>4. ~(p < q) BY <1>1, <1>2, OneMultiple
<1>5. p = q BY <1>1, <1>3, <1>4
<1> QED BY <1>1, <1>2, <1>5 DEF p, s, x

-----------------------------------------------------------------------------
(* Sums *)

\* The equation that defines the sum of f over each part of S.
Sums(g, f, S) == g = [s \in SUBSET S |-> IF s = {} THEN 0
                           ELSE f[CHOOSE x \in s : TRUE] + g[s \ {CHOOSE x \in s : TRUE}]]

\* It has one solution: two that differ would differ on a least set.
LEMMA SumsUnique ==
    ASSUME NEW S, IsFiniteSet(S), NEW f, NEW g, NEW h, Sums(g, f, S), Sums(h, f, S)
    PROVE  g = h
<1>1. SUFFICES ASSUME g # h PROVE FALSE OBVIOUS
<1> DEFINE F == {s \in SUBSET S : g[s] # h[s]}
<1>2. F # {} BY <1>1 DEF Sums
<1>22. F \in SUBSET SUBSET S OBVIOUS
<1> HIDE DEF F
<1>3. PICK T \in F : \A U \in F : U \subseteq T => U = T BY <1>2, <1>22, FiniteLeast
<1> USE DEF F
<1> DEFINE x == CHOOSE x \in T : TRUE
<1>4. CASE T = {} BY <1>4, <1>3 DEF Sums
<1>5. CASE T # {}
  <2>1. x \in T BY <1>5
  <2>2. T \ {x} \in SUBSET S /\ T \ {x} # T /\ T \ {x} \subseteq T BY <2>1
  <2>3. g[T \ {x}] = h[T \ {x}] BY <2>2, <1>3
  <2> HIDE DEF x
  <2>4. g[T] = f[x] + g[T \ {x}] BY <1>5 DEF Sums, x
  <2>5. h[T] = f[x] + h[T \ {x}] BY <1>5 DEF Sums, x
  <2> QED BY <2>3, <2>4, <2>5, <1>3
<1> QED BY <1>4, <1>5

\* The library's sum is the one function that satisfies its recursion.
LEMMA SumSolves ==
    ASSUME NEW S, IsFiniteSet(S), NEW f, DOMAIN f = S, NEW g, Sums(g, f, S)
    PROVE  SumFunction(f) = g[S]
<1> DEFINE iter == CHOOSE h : Sums(h, f, S)
<1>1. Sums(iter, f, S) OBVIOUS
<1>2. iter = g BY <1>1, SumsUnique
<1>3. SumFunction(f) = iter[S]
  BY DEF SumFunction, SumFunctionOnSet, FoldFunctionOnSet, MapThenFoldSet, Sums
<1> QED BY <1>2, <1>3

Disjoint(C, S) == \A x, y \in S : x # y => C[x] \cap C[y] = {}

\* The sizes of disjoint sets add up to the size of their union.
LEMMA SizesAddUp ==
    ASSUME NEW S, IsFiniteSet(S), NEW C, \A x \in S : IsFiniteSet(C[x]), Disjoint(C, S)
    PROVE  /\ SumFunction([x \in S |-> Cardinality(C[x])]) = Cardinality(UNION {C[x] : x \in S})
           /\ IsFiniteSet(UNION {C[x] : x \in S})
<1> DEFINE All(s) == UNION {C[x] : x \in s}
           f == [x \in S |-> Cardinality(C[x])]
           g == [s \in SUBSET S |-> Cardinality(All(s))]
<1>1. ASSUME NEW s \in SUBSET S PROVE IsFiniteSet(All(s))
  <2>1. IsFiniteSet(s) BY FS_Subset
  <2> DEFINE T == {C[x] : x \in s}
             pick == [x \in s |-> C[x]]
  <2>2. pick \in Surjection(s, T) BY DEF Surjection
  <2>3. IsFiniteSet(T) BY <2>1, <2>2, FS_Surjection
  <2> QED BY <2>3, FS_UNION
<1>2. ASSUME NEW s \in SUBSET S, s # {}
      PROVE  g[s] = f[CHOOSE x \in s : TRUE] + g[s \ {CHOOSE x \in s : TRUE}]
  <2> DEFINE x == CHOOSE y \in s : TRUE
             rest == s \ {x}
  <2>1. x \in s BY <1>2
  <2> HIDE DEF x
  <2>2. All(s) = C[x] \cup All(rest) /\ C[x] \cap All(rest) = {}
    BY <2>1 DEF Disjoint
  <2>3. IsFiniteSet(All(rest)) BY <1>1
  <2>4. Cardinality(All(s)) = Cardinality(C[x]) + Cardinality(All(rest)) - Cardinality({})
    BY <2>1, <2>2, <2>3, FS_Union
  <2>5. Cardinality(All(s)) = Cardinality(C[x]) + Cardinality(All(rest))
    BY <2>1, <2>3, <2>4, FS_EmptySet, FS_CardinalityType
  <2> QED BY <2>1, <2>5 DEF x
<1>3. Sums(g, f, S)
  <2>1. g[{}] = 0 BY FS_EmptySet
  <2> QED BY <1>2, <2>1 DEF Sums
<1>4. SumFunction(f) = g[S] BY <1>3, SumSolves
<1> QED BY <1>1, <1>4

\* A natural number as the size of a set: f[x] marks for each x.
Marks(f) == [x \in DOMAIN f |-> {x} \X (1..f[x])]

\* A row of n marks is finite and counts n.
LEMMA MarksCount ==
    ASSUME NEW x, NEW n \in Nat
    PROVE  IsFiniteSet({x} \X (1..n)) /\ Cardinality({x} \X (1..n)) = n
<1> DEFINE A == {x}
           B == 1..n
<1>1. IsFiniteSet(A) /\ Cardinality(A) = 1 BY FS_Singleton
<1>2. IsFiniteSet(B) /\ Cardinality(B) = n BY FS_Interval
<1> HIDE DEF A, B
<1>3. IsFiniteSet(A \X B) /\ Cardinality(A \X B) = Cardinality(A) * Cardinality(B)
  BY <1>1, <1>2, FS_Product
<1>4. Cardinality(A \X B) = n BY <1>1, <1>2, <1>3
<1> QED BY <1>3, <1>4 DEF A, B

\* The marks of one element.
LEMMA MarksAre ==
    ASSUME NEW S, NEW f \in [S -> Nat], NEW x \in S
    PROVE  /\ Marks(f)[x] = {x} \X (1..f[x])
           /\ IsFiniteSet(Marks(f)[x]) /\ Cardinality(Marks(f)[x]) = f[x]
BY MarksCount DEF Marks

\* A sum of naturals is the number of marks in the disjoint rows drawn for it.
LEMMA SumCounts ==
    ASSUME NEW S, IsFiniteSet(S), NEW f \in [S -> Nat]
    PROVE  LET all == UNION {Marks(f)[x] : x \in S}
           IN  SumFunction(f) = Cardinality(all) /\ IsFiniteSet(all)
<1> DEFINE C == Marks(f)
<1>1. ASSUME NEW x \in S PROVE IsFiniteSet(C[x]) /\ Cardinality(C[x]) = f[x]
  BY MarksAre
<1>2. Disjoint(C, S) BY DEF Disjoint, Marks
<1>3. [x \in S |-> Cardinality(C[x])] = f BY <1>1
<1> HIDE DEF C
<1>4. /\ SumFunction([x \in S |-> Cardinality(C[x])]) = Cardinality(UNION {C[x] : x \in S})
      /\ IsFiniteSet(UNION {C[x] : x \in S})
  BY <1>1, <1>2, SizesAddUp
<1> QED BY <1>3, <1>4 DEF C

\* A sum is a part of it and the rest.
LEMMA SumSplits ==
    ASSUME NEW S, IsFiniteSet(S), NEW f \in [S -> Nat], NEW x \in S
    PROVE  /\ SumFunction(f) \in Nat
           /\ SumFunction(f) = f[x] + SumFunction([y \in S \ {x} |-> f[y]])
           /\ SumFunction([y \in S \ {x} |-> f[y]]) \in Nat
<1> DEFINE rest == [y \in S \ {x} |-> f[y]]
           one == [y \in {x} |-> f[x]]
           all(h, T) == UNION {Marks(h)[y] : y \in T}
<1>1. IsFiniteSet(S \ {x}) /\ IsFiniteSet({x}) BY FS_RemoveElement, FS_Singleton
<1>2. rest \in [S \ {x} -> Nat] /\ one \in [{x} -> Nat] OBVIOUS
<1>3. SumFunction(f) = Cardinality(all(f, S)) /\ IsFiniteSet(all(f, S)) BY SumCounts
<1>4. SumFunction(rest) = Cardinality(all(rest, S \ {x})) /\ IsFiniteSet(all(rest, S \ {x}))
  <2> HIDE DEF rest
  <2> QED BY <1>1, <1>2, SumCounts
<1>5. IsFiniteSet(Marks(f)[x]) /\ Cardinality(Marks(f)[x]) = f[x]
  BY MarksAre
<1>6. /\ all(f, S) = Marks(f)[x] \cup all(rest, S \ {x})
      /\ Marks(f)[x] \cap all(rest, S \ {x}) = {}
  <2>1. \A y \in S \ {x} : Marks(rest)[y] = Marks(f)[y] BY DEF Marks
  <2>2. all(rest, S \ {x}) = all(f, S \ {x}) BY <2>1
  <2>3. all(f, S) = Marks(f)[x] \cup all(f, S \ {x}) OBVIOUS
  <2>4. \A y \in S : Marks(f)[y] = {y} \X (1..f[y]) BY DEF Marks
  <2>5. Marks(f)[x] \cap all(f, S \ {x}) = {} BY <2>4
  <2> QED BY <2>2, <2>3, <2>5
<1>7. Cardinality(all(f, S)) = f[x] + Cardinality(all(rest, S \ {x})) - Cardinality({})
  BY <1>4, <1>5, <1>6, FS_Union
<1>8. Cardinality(all(rest, S \ {x})) \in Nat /\ Cardinality({}) = 0 /\ Cardinality(all(f, S)) \in Nat
  BY <1>3, <1>4, FS_CardinalityType, FS_EmptySet
<1> HIDE DEF all, rest
<1>9. f[x] \in Nat OBVIOUS
<1> QED BY <1>3, <1>4, <1>7, <1>8, <1>9 DEF rest

\* A sum of terms under a bound.
LEMMA SumBounded ==
    ASSUME NEW S, IsFiniteSet(S), NEW bound \in Nat, NEW f \in [S -> 0..bound]
    PROVE  SumFunction(f) \in Nat /\ SumFunction(f) <= bound * Cardinality(S)
<1> DEFINE all == UNION {Marks(f)[x] : x \in S}
<1>1. f \in [S -> Nat] OBVIOUS
<1>2. SumFunction(f) = Cardinality(all) /\ IsFiniteSet(all) BY <1>1, SumCounts
<1>3. all \subseteq S \X (1..bound)
  <2>1. ASSUME NEW x \in S PROVE Marks(f)[x] \subseteq S \X (1..bound)
    <3>1. Marks(f)[x] = {x} \X (1..f[x]) /\ f[x] \in 0..bound BY <1>1, MarksAre
    <3> QED BY <3>1
  <2> QED BY <2>1
<1>4. IsFiniteSet(1..bound) /\ Cardinality(1..bound) = bound BY FS_Interval
<1>5. IsFiniteSet(S \X (1..bound)) /\ Cardinality(S \X (1..bound)) = Cardinality(S) * bound
  BY <1>4, FS_Product
<1> HIDE DEF all
<1>6. Cardinality(all) <= Cardinality(S) * bound BY <1>3, <1>5, FS_Subset
<1>7. Cardinality(all) \in Nat /\ Cardinality(S) \in Nat BY <1>2, FS_CardinalityType
<1>8. Cardinality(S) * bound = bound * Cardinality(S) BY <1>7
<1> QED BY <1>2, <1>6, <1>7, <1>8

\* The sum of no terms.
LEMMA SumOfNone ==
    ASSUME NEW f, DOMAIN f = {}
    PROVE  SumFunction(f) = 0
<1> DEFINE g == [s \in SUBSET {} |-> 0]
<1>1. Sums(g, f, {}) BY DEF Sums
<1>2. IsFiniteSet({}) BY FS_EmptySet
<1> HIDE DEF g
<1>3. SumFunction(f) = g[{}] BY <1>1, <1>2, SumSolves
<1> QED BY <1>3 DEF g
=============================================================================

---------------------------- MODULE SharedLemmas ----------------------------
(* Facts that several proofs need: what a cascade answers, what appending to  *)
(* a log keeps, the least and greatest of a set of numbers, and what a sum    *)
(* over a finite set is: any element and the sum of the others.               *)
EXTENDS OrderedTests, FiniteSetTheorems, TLAPS

\* A test that holds after tests that do not is the one that decides.
LEMMA FirstIs ==
    ASSUME NEW tests, NEW n \in Nat, DOMAIN tests = 1 .. n,
           NEW k \in 1 .. n, tests[k][1], \A j \in 1 .. k - 1 : ~tests[j][1]
    PROVE  FirstOf(tests) = tests[k][2]
<1> DEFINE First(i) == tests[i][1] /\ \A j \in 1 .. i - 1 : ~tests[j][1]
<1>1. First(k) /\ k \in DOMAIN tests
  OBVIOUS
<1>2. \A i \in DOMAIN tests : First(i) => i = k
  OBVIOUS
<1>3. (CHOOSE i \in DOMAIN tests : First(i)) = k
  BY <1>1, <1>2
<1> QED BY <1>3 DEF FirstOf

\* When the last of the tests holds, the answer belongs to one of them.
LEMMA FirstOfAnswers ==
    ASSUME NEW tests, NEW n \in Nat \ {0}, DOMAIN tests = 1 .. n, tests[n][1], n <= 12
    PROVE  \E k \in 1 .. n : /\ tests[k][1] /\ FirstOf(tests) = tests[k][2]
                             /\ \A j \in 1 .. k - 1 : ~tests[j][1]
<1> DEFINE First(i) == tests[i][1] /\ \A j \in 1 .. i - 1 : ~tests[j][1]
<1>1. \E k \in 1 .. n : First(k)
  OBVIOUS
<1> QED BY <1>1, FirstIs

\* A test that holds keeps the tests behind it from being asked.
LEMMA AnswersUpTo ==
    ASSUME NEW tests, NEW n \in Nat \ {0}, DOMAIN tests = 1 .. n, n <= 12,
           NEW m \in 1 .. n, tests[m][1]
    PROVE  \E k \in 1 .. m : tests[k][1] /\ FirstOf(tests) = tests[k][2]
<1> DEFINE First(i) == tests[i][1] /\ \A j \in 1 .. i - 1 : ~tests[j][1]
<1>1. m \in Nat \ {0} /\ m <= 12 /\ 1 .. m \subseteq 1 .. n
  OBVIOUS
<1>2. \E k \in 1 .. m : First(k)
  BY <1>1
<1> QED BY <1>1, <1>2, FirstIs

\* The answer is one of the list's.
LEMMA AnswersWithin ==
    ASSUME NEW tests, NEW n \in Nat \ {0}, DOMAIN tests = 1 .. n, tests[n][1], n <= 12,
           NEW A, \A k \in 1 .. n : tests[k][2] \in A
    PROVE  FirstOf(tests) \in A
BY FirstOfAnswers

\* Three tests, written out.
LEMMA ThreeTests ==
    ASSUME NEW tests, DOMAIN tests = 1 .. 3, tests[3][1]
    PROVE  FirstOf(tests) = IF tests[1][1] THEN tests[1][2]
                            ELSE IF tests[2][1] THEN tests[2][2] ELSE tests[3][2]
<1>1. 1 .. 0 = {} /\ 1 .. 1 = {1} /\ 1 .. 2 = {1, 2} /\ 1 \in 1 .. 3 /\ 2 \in 1 .. 3 /\ 3 \in 1 .. 3
  OBVIOUS
<1>2. 1 - 1 = 0 /\ 2 - 1 = 1 /\ 3 - 1 = 2 /\ 3 \in Nat
  OBVIOUS
<1>3. \A k \in 1 .. 3 : tests[k][1] /\ (\A j \in 1 .. k - 1 : ~tests[j][1])
                           => FirstOf(tests) = tests[k][2]
  BY <1>2, FirstIs
<1>4. ASSUME tests[1][1] PROVE FirstOf(tests) = tests[1][2]
  <2>1. tests[1][1] /\ \A j \in 1 .. 1 - 1 : ~tests[j][1]
    BY <1>1, <1>2, <1>4
  <2> QED BY <1>3, <1>1, <2>1
<1>5. ASSUME ~tests[1][1], tests[2][1] PROVE FirstOf(tests) = tests[2][2]
  <2>1. tests[2][1] /\ \A j \in 1 .. 2 - 1 : ~tests[j][1]
    BY <1>1, <1>2, <1>5
  <2> QED BY <1>3, <1>1, <2>1
<1>6. ASSUME ~tests[1][1], ~tests[2][1] PROVE FirstOf(tests) = tests[3][2]
  <2>1. tests[3][1] /\ \A j \in 1 .. 3 - 1 : ~tests[j][1]
    BY <1>1, <1>2, <1>6
  <2> QED BY <1>3, <1>1, <2>1
<1> QED BY <1>4, <1>5, <1>6

\* Seven tests, written out.
LEMMA SevenTests ==
    ASSUME NEW tests, DOMAIN tests = 1 .. 7, tests[7][1]
    PROVE  FirstOf(tests) = IF tests[1][1] THEN tests[1][2]
                            ELSE IF tests[2][1] THEN tests[2][2]
                            ELSE IF tests[3][1] THEN tests[3][2]
                            ELSE IF tests[4][1] THEN tests[4][2]
                            ELSE IF tests[5][1] THEN tests[5][2]
                            ELSE IF tests[6][1] THEN tests[6][2] ELSE tests[7][2]
<1>1. 7 \in Nat /\ 1 .. 7 = {1, 2, 3, 4, 5, 6, 7}
  OBVIOUS
<1>2. \A k \in 1 .. 7 : tests[k][1] /\ (\A j \in 1 .. k - 1 : ~tests[j][1])
                           => FirstOf(tests) = tests[k][2]
  BY <1>1, FirstIs
<1>3. /\ 1 .. 1 - 1 = {} /\ 1 .. 2 - 1 = {1} /\ 1 .. 3 - 1 = {1, 2} /\ 1 .. 4 - 1 = {1, 2, 3}
      /\ 1 .. 5 - 1 = {1, 2, 3, 4} /\ 1 .. 6 - 1 = {1, 2, 3, 4, 5}
      /\ 1 .. 7 - 1 = {1, 2, 3, 4, 5, 6}
  OBVIOUS
<1>4. ASSUME tests[1][1] PROVE FirstOf(tests) = tests[1][2]
  BY <1>1, <1>2, <1>3, <1>4
<1>5. ASSUME ~tests[1][1], tests[2][1] PROVE FirstOf(tests) = tests[2][2]
  BY <1>1, <1>2, <1>3, <1>5
<1>6. ASSUME ~tests[1][1], ~tests[2][1], tests[3][1] PROVE FirstOf(tests) = tests[3][2]
  BY <1>1, <1>2, <1>3, <1>6
<1>7. ASSUME ~tests[1][1], ~tests[2][1], ~tests[3][1], tests[4][1]
      PROVE  FirstOf(tests) = tests[4][2]
  BY <1>1, <1>2, <1>3, <1>7
<1>8. ASSUME ~tests[1][1], ~tests[2][1], ~tests[3][1], ~tests[4][1], tests[5][1]
      PROVE  FirstOf(tests) = tests[5][2]
  BY <1>1, <1>2, <1>3, <1>8
<1>9. ASSUME ~tests[1][1], ~tests[2][1], ~tests[3][1], ~tests[4][1], ~tests[5][1], tests[6][1]
      PROVE  FirstOf(tests) = tests[6][2]
  BY <1>1, <1>2, <1>3, <1>9
<1>10. ASSUME ~tests[1][1], ~tests[2][1], ~tests[3][1], ~tests[4][1], ~tests[5][1], ~tests[6][1]
       PROVE  FirstOf(tests) = tests[7][2]
  BY <1>1, <1>2, <1>3, <1>10
<1> QED BY <1>4, <1>5, <1>6, <1>7, <1>8, <1>9, <1>10

-----------------------------------------------------------------------------
\* Records are only appended: an old position keeps its record.
Sequence(q) == q \in Seq({q[i] : i \in DOMAIN q})

\* Append keeps a sequence, its elements and their places.
LEMMA Appended ==
    ASSUME NEW q, Sequence(q), NEW e
    PROVE  LET w == Append(q, e)
           IN  /\ Sequence(w) /\ Len(q) \in Nat /\ DOMAIN q = 1 .. Len(q)
               /\ DOMAIN w = 1 .. Len(q) + 1 /\ Len(w) = Len(q) + 1
               /\ w[Len(q) + 1] = e
               /\ \A i \in DOMAIN q : i \in DOMAIN w /\ w[i] = q[i]
<1> DEFINE S == {q[i] : i \in DOMAIN q}
           T == S \cup {e}
           w == Append(q, e)
<1>1. q \in Seq(T) /\ e \in T
  <2>1. q \in Seq(S)
    BY DEF Sequence
  <2> QED BY <2>1
<1>2. /\ w \in Seq(T) /\ Len(w) = Len(q) + 1 /\ w[Len(q) + 1] = e
      /\ Len(q) \in Nat /\ DOMAIN q = 1 .. Len(q) /\ DOMAIN w = 1 .. Len(q) + 1
      /\ \A i \in 1 .. Len(q) : w[i] = q[i]
  BY <1>1
<1>3. Sequence(w)
  <2>1. \A i \in 1 .. Len(w) : w[i] \in {w[j] : j \in DOMAIN w}
    BY <1>2
  <2> QED BY <1>2, <2>1 DEF Sequence
<1> QED BY <1>2, <1>3

\* w has the records of q at their places, and perhaps more.
Grows(q, w) == Sequence(w) /\ \A i \in DOMAIN q : i \in DOMAIN w /\ w[i] = q[i]

\* A log that is kept or gets one more entry keeps the entries it has.
LEMMA Grown ==
    ASSUME NEW q, Sequence(q), NEW w, w = q \/ \E e : w = Append(q, e)
    PROVE  Sequence(w) /\ \A i \in DOMAIN q : i \in DOMAIN w /\ w[i] = q[i]
<1>1. CASE w = q
  BY <1>1
<1>2. ASSUME NEW e, w = Append(q, e) PROVE Sequence(w) /\ \A i \in DOMAIN q : i \in DOMAIN w /\ w[i] = q[i]
  BY <1>2, Appended
<1> QED BY <1>1, <1>2

\* Where every log starts.
LEMMA EmptySequence == Sequence(<<>>) /\ DOMAIN <<>> = {}
  BY DEF Sequence

-----------------------------------------------------------------------------
\* An argument by the smallest number that is not as it should be.
LEMMA Least ==
    ASSUME NEW S \in SUBSET Nat, S # {}
    PROVE  \E i \in S : \A j \in S : i <= j
<1>1. PICK i \in S : \A j \in S : ~(<<j, i>> \in OpToRel(<, Nat))
  BY WFMin, NatLessThanWellFounded, Zenon
<1>2. \A j \in S : ~(j < i)
  BY <1>1 DEF OpToRel
<1> QED BY <1>2

\* Seen from the end, the greatest is the least.
LEMMA Greatest ==
    ASSUME NEW n \in Nat, NEW S \in SUBSET (1 .. n), S # {}
    PROVE  \E i \in S : \A j \in S : j <= i
<1> DEFINE T == {k \in 0 .. n : n - k \in S}
<1>1. T \in SUBSET Nat
  OBVIOUS
<1>2. \A i \in S : n - i \in T
  OBVIOUS
<1>3. PICK t \in T : \A u \in T : t <= u
  BY <1>1, <1>2, Least
<1>4. n - t \in S
  BY <1>3
<1>5. \A j \in S : j <= n - t
  BY <1>2, <1>3
<1> QED BY <1>4, <1>5

-----------------------------------------------------------------------------
(* Sums over finite sets *)

\* What the sum over S is built from: one value for every subset.
Partial(c, S, g) ==
    g = [s \in SUBSET S |->
            IF s = {} THEN 0
            ELSE c[CHOOSE x \in s : TRUE] + g[s \ {CHOOSE x \in s : TRUE}]]

\* The sum is the value such a function has on the whole set.
LEMMA SumDef ==
    ASSUME NEW c, NEW S
    PROVE  SumFunctionOnSet(c, S) = (CHOOSE g : Partial(c, S, g))[S]
BY DEF SumFunctionOnSet, FoldFunctionOnSet, MapThenFoldSet, Partial

\* The values a function has on the subsets of up to n elements.
Small(S, n) == {s \in SUBSET S : Cardinality(s) <= n}

UpTo(c, S, n, g) ==
    /\ DOMAIN g = Small(S, n)
    /\ \A s \in Small(S, n) :
          g[s] = IF s = {} THEN 0
                 ELSE c[CHOOSE x \in s : TRUE] + g[s \ {CHOOSE x \in s : TRUE}]

\* Taking an element out of a finite set.
LEMMA OneOut ==
    ASSUME NEW S, IsFiniteSet(S), NEW s \in SUBSET S, NEW x \in s
    PROVE  /\ IsFiniteSet(s) /\ Cardinality(s) \in Nat \ {0}
           /\ IsFiniteSet(s \ {x}) /\ s \ {x} \in SUBSET S
           /\ Cardinality(s \ {x}) = Cardinality(s) - 1 /\ Cardinality(s \ {x}) \in Nat
<1>1. IsFiniteSet(s)
  BY FS_Subset
<1>2. IsFiniteSet(s \ {x}) /\ Cardinality(s \ {x}) = Cardinality(s) - 1
  BY <1>1, FS_RemoveElement
<1>3. Cardinality(s) \in Nat /\ Cardinality(s \ {x}) \in Nat
  BY <1>1, <1>2, FS_CardinalityType
<1> QED BY <1>1, <1>2, <1>3

\* Such values can be given up to any size.
LEMMA UpToAny ==
    ASSUME NEW c, NEW S, IsFiniteSet(S), NEW n \in Nat
    PROVE  \E g : UpTo(c, S, n, g)
<1> DEFINE Bad == {m \in Nat : ~\E g : UpTo(c, S, m, g)}
<1>1. SUFFICES ASSUME Bad # {} PROVE FALSE
  OBVIOUS
<1>2. PICK m \in Bad : \A k \in Bad : m <= k
  BY <1>1, Least
<1>3. m # 0
  <2>1. SUFFICES ASSUME m = 0 PROVE FALSE
    OBVIOUS
  <2>2. \A s \in Small(S, 0) : s = {}
    <3>1. ASSUME NEW s \in SUBSET S, Cardinality(s) <= 0, s # {} PROVE FALSE
      <4>1. PICK x \in s : TRUE
        BY <3>1
      <4>2. Cardinality(s) \in Nat \ {0}
        BY <4>1, OneOut
      <4> QED BY <3>1, <4>2
    <3> QED BY <3>1 DEF Small
  <2>3. PICK g : g = [s \in Small(S, 0) |-> 0]
    OBVIOUS
  <2>4. UpTo(c, S, 0, g)
    BY <2>2, <2>3 DEF UpTo
  <2> QED BY <1>2, <2>1, <2>4
<1>4. m - 1 \in Nat /\ m - 1 \notin Bad
  BY <1>2, <1>3
<1>5. PICK g : UpTo(c, S, m - 1, g)
  BY <1>4
<1> DEFINE pick(s) == CHOOSE x \in s : TRUE
<1>6. PICK h : h = [s \in Small(S, m) |->
                       IF s = {} THEN 0 ELSE c[pick(s)] + g[s \ {pick(s)}]]
  OBVIOUS
<1>7. \A s : s # {} => pick(s) \in s
  OBVIOUS
<1> HIDE DEF pick
<1>8. \A s \in Small(S, m - 1) : h[s] = g[s]
  <2>1. Small(S, m - 1) \subseteq Small(S, m)
    <3>1. \A s \in SUBSET S : Cardinality(s) \in Nat
      BY FS_Subset, FS_CardinalityType
    <3> QED BY <1>2, <3>1 DEF Small
  <2> QED BY <1>5, <1>6, <2>1 DEF UpTo, pick
<1>9. ASSUME NEW s \in Small(S, m), s # {}
      PROVE  s \ {pick(s)} \in Small(S, m - 1)
  <2>1. /\ Cardinality(s) \in Nat \ {0} /\ Cardinality(s) <= m
        /\ Cardinality(s \ {pick(s)}) = Cardinality(s) - 1
    BY <1>7, <1>9, OneOut DEF Small
  <2> QED BY <1>2, <2>1 DEF Small
<1>10. UpTo(c, S, m, h)
  <2>1. \A s \in Small(S, m) :
           h[s] = IF s = {} THEN 0 ELSE c[pick(s)] + h[s \ {pick(s)}]
    <3>1. ASSUME NEW s \in Small(S, m)
          PROVE  h[s] = IF s = {} THEN 0 ELSE c[pick(s)] + h[s \ {pick(s)}]
      <4>1. CASE s = {}
        BY <1>6, <4>1
      <4>2. CASE s # {}
        <5>1. h[s \ {pick(s)}] = g[s \ {pick(s)}]
          BY <1>8, <1>9, <4>2
        <5> QED BY <1>6, <4>2, <5>1
      <4> QED BY <4>1, <4>2
    <3> QED BY <3>1
  <2> QED BY <1>6, <2>1 DEF UpTo, pick
<1> QED BY <1>2, <1>10

\* So there is one for all subsets.
LEMMA PartialExists ==
    ASSUME NEW c, NEW S, IsFiniteSet(S)
    PROVE  Partial(c, S, CHOOSE g : Partial(c, S, g))
<1>1. Cardinality(S) \in Nat /\ \A s \in SUBSET S : Cardinality(s) <= Cardinality(S)
  BY FS_CardinalityType, FS_Subset
<1>2. PICK g : UpTo(c, S, Cardinality(S), g)
  BY <1>1, UpToAny
<1>3. Small(S, Cardinality(S)) = SUBSET S
  BY <1>1 DEF Small
<1>4. PICK h : h = [s \in SUBSET S |->
            IF s = {} THEN 0
            ELSE c[CHOOSE x \in s : TRUE] + g[s \ {CHOOSE x \in s : TRUE}]]
  OBVIOUS
<1>5. \A s \in SUBSET S : h[s] = g[s]
  BY <1>2, <1>3, <1>4 DEF UpTo
<1>6. \A s \in SUBSET S : s # {} => s \ {CHOOSE x \in s : TRUE} \in SUBSET S
  OBVIOUS
<1>7. h = [s \in SUBSET S |->
            IF s = {} THEN 0
            ELSE c[CHOOSE x \in s : TRUE] + h[s \ {CHOOSE x \in s : TRUE}]]
  BY <1>4, <1>5, <1>6
<1>8. Partial(c, S, h)
  BY <1>7 DEF Partial
<1> QED BY <1>8

\* There is no other.
LEMMA PartialAgree ==
    ASSUME NEW c, NEW S, IsFiniteSet(S), NEW R \in SUBSET S, NEW g, NEW h,
           Partial(c, S, g), Partial(c, R, h), NEW t \in SUBSET R
    PROVE  g[t] = h[t]
<1> DEFINE Wrong == {s \in SUBSET R : g[s] # h[s]}
           Bad == {Cardinality(s) : s \in Wrong}
<1>1. SUFFICES ASSUME Wrong # {} PROVE FALSE
  OBVIOUS
<1>2. IsFiniteSet(R) /\ \A s \in SUBSET R : Cardinality(s) \in Nat
  BY FS_Subset, FS_CardinalityType
<1>3. PICK m \in Bad : \A k \in Bad : m <= k
  <2>1. Bad \in SUBSET Nat /\ Bad # {}
    BY <1>1, <1>2
  <2> QED BY <2>1, Least
<1>4. PICK s \in Wrong : m = Cardinality(s)
  BY <1>3
<1>5. s # {} /\ s \in SUBSET R /\ s \in SUBSET S
  BY <1>4 DEF Partial
<1>6. PICK x : x = CHOOSE y \in s : TRUE
  OBVIOUS
<1>7. x \in s
  BY <1>5, <1>6
<1>8. g[s] = c[x] + g[s \ {x}] /\ h[s] = c[x] + h[s \ {x}]
  BY <1>5, <1>6 DEF Partial
<1>9. Cardinality(s \ {x}) < m
  BY <1>2, <1>4, <1>5, <1>7, OneOut
<1>10. s \ {x} \notin Wrong
  BY <1>2, <1>3, <1>9, <1>4
<1> QED BY <1>4, <1>5, <1>8, <1>10

\* A sum is the value of one of its elements and the sum of the others.
LEMMA SumChosen ==
    ASSUME NEW c, NEW S, IsFiniteSet(S)
    PROVE  /\ S = {} => SumFunctionOnSet(c, S) = 0
           /\ S # {} => \E x \in S :
                 SumFunctionOnSet(c, S) = c[x] + SumFunctionOnSet(c, S \ {x})
<1>1. PICK g : g = CHOOSE f : Partial(c, S, f)
  OBVIOUS
<1>2. Partial(c, S, g) /\ SumFunctionOnSet(c, S) = g[S]
  BY <1>1, PartialExists, SumDef
<1>3. CASE S = {}
  BY <1>2, <1>3 DEF Partial
<1>4. CASE S # {}
  <2>1. PICK x : x = CHOOSE y \in S : TRUE
    OBVIOUS
  <2>2. x \in S
    BY <1>4, <2>1
  <2>3. g[S] = c[x] + g[S \ {x}]
    BY <1>2, <1>4, <2>1 DEF Partial
  <2>4. PICK R : R = S \ {x}
    OBVIOUS
  <2>5. PICK h : h = CHOOSE f : Partial(c, R, f)
    OBVIOUS
  <2>6. IsFiniteSet(R) /\ R \in SUBSET S
    BY <2>4, FS_Subset
  <2>7. Partial(c, R, h) /\ SumFunctionOnSet(c, R) = h[R]
    BY <2>5, <2>6, PartialExists, SumDef
  <2>8. g[R] = h[R]
    BY <1>2, <2>6, <2>7, PartialAgree
  <2> QED BY <1>2, <2>2, <2>3, <2>4, <2>7, <2>8
<1> QED BY <1>3, <1>4

\* A sum of integers is one, and any of its elements may be taken out.
LEMMA SumOut ==
    ASSUME NEW c, NEW S, IsFiniteSet(S), \A x \in S : c[x] \in Int
    PROVE  /\ SumFunctionOnSet(c, S) \in Int
           /\ \A x \in S : SumFunctionOnSet(c, S) = c[x] + SumFunctionOnSet(c, S \ {x})
<1> DEFINE Sum(s) == SumFunctionOnSet(c, s)
           Good(s) == Sum(s) \in Int /\ \A x \in s : Sum(s) = c[x] + Sum(s \ {x})
           Wrong == {s \in SUBSET S : ~Good(s)}
           Bad == {Cardinality(s) : s \in Wrong}
<1>1. SUFFICES ASSUME Wrong # {} PROVE FALSE
  OBVIOUS
<1>2. \A s \in SUBSET S : IsFiniteSet(s) /\ Cardinality(s) \in Nat
  BY FS_Subset, FS_CardinalityType
<1>3. PICK m \in Bad : \A k \in Bad : m <= k
  <2>1. Bad \in SUBSET Nat /\ Bad # {}
    BY <1>1, <1>2
  <2> QED BY <2>1, Least
<1>4. PICK s \in Wrong : m = Cardinality(s)
  BY <1>3
<1>5. \A x \in s : Good(s \ {x})
  <2>1. ASSUME NEW x \in s, ~Good(s \ {x}) PROVE FALSE
    <3>1. s \ {x} \in Wrong /\ Cardinality(s \ {x}) = Cardinality(s) - 1
      BY <2>1, OneOut
    <3>2. m <= Cardinality(s \ {x}) /\ Cardinality(s) \in Nat
      BY <1>2, <1>3, <3>1
    <3> QED BY <1>4, <3>1, <3>2
  <2> QED BY <2>1
<1>6. IsFiniteSet(s)
  BY <1>2
<1>7. CASE s = {}
  <2>1. Sum(s) = 0
    BY <1>6, <1>7, SumChosen
  <2> QED BY <1>4, <1>7, <2>1
<1>8. CASE s # {}
  <2>1. PICK y \in s : Sum(s) = c[y] + Sum(s \ {y})
    BY <1>6, <1>8, SumChosen
  <2>2. c[y] \in Int /\ Sum(s \ {y}) \in Int
    BY <1>5, <2>1
  <2>3. ASSUME NEW x \in s PROVE Sum(s) = c[x] + Sum(s \ {x})
    <3>1. CASE x = y
      BY <2>1, <3>1
    <3>2. CASE x # y
      <4>1. PICK r : r = (s \ {y}) \ {x}
        OBVIOUS
      <4>2. r = (s \ {x}) \ {y} /\ x \in s \ {y} /\ y \in s \ {x}
        BY <3>2, <4>1
      <4>3. Good(s \ {x}) /\ Good(s \ {y})
        BY <1>5
      <4>4. Sum(s \ {y}) = c[x] + Sum(r) /\ Sum(s \ {x}) = c[y] + Sum(r)
        BY <4>1, <4>2, <4>3
      <4>5. Sum(r) \in Int
        <5>1. Sum(s \ {x}) \in Int
          BY <4>3
        <5>2. y \in s \ {x} /\ s \ {x} \in SUBSET S
          BY <4>2
        <5>3. Good(r)
          <6>1. r \in SUBSET S /\ Cardinality(r) < m
            <7>1. Cardinality(s \ {x}) = Cardinality(s) - 1
              BY OneOut
            <7>2. Cardinality((s \ {x}) \ {y}) = Cardinality(s \ {x}) - 1
              BY <5>2, OneOut
            <7> QED BY <1>2, <1>4, <4>2, <7>1, <7>2
          <6> QED BY <1>2, <1>3, <6>1
        <5> QED BY <5>3
      <4>6. c[x] \in Int
        OBVIOUS
      <4> HIDE DEF Sum
      <4> QED BY <2>1, <2>2, <4>4, <4>5, <4>6
    <3> QED BY <3>1, <3>2
  <2> HIDE DEF Sum
  <2>4. Sum(s) \in Int
    BY <2>1, <2>2
  <2> QED BY <1>4, <2>3, <2>4
<1> QED BY <1>7, <1>8

\* A sum does not depend on what its elements are called.
LEMMA SumRenamed ==
    ASSUME NEW c, NEW S, IsFiniteSet(S), \A x \in S : c[x] \in Int,
           NEW d, NEW f, \A x, y \in S : f[x] = f[y] => x = y, \A x \in S : d[f[x]] = c[x]
    PROVE  SumFunctionOnSet(d, {f[x] : x \in S}) = SumFunctionOnSet(c, S)
<1> DEFINE Image(s) == {f[x] : x \in s}
           Wrong == {s \in SUBSET S : SumFunctionOnSet(d, Image(s)) # SumFunctionOnSet(c, s)}
           Bad == {Cardinality(s) : s \in Wrong}
<1>1. SUFFICES ASSUME Wrong # {} PROVE FALSE
  OBVIOUS
<1>2. \A s \in SUBSET S : IsFiniteSet(s) /\ Cardinality(s) \in Nat
  BY FS_Subset, FS_CardinalityType
<1>3. PICK m \in Bad : \A k \in Bad : m <= k
  <2> HIDE DEF Image
  <2>1. Bad # {}
    BY <1>1
  <2>2. Bad \in SUBSET Nat
    BY <1>2
  <2> QED BY <2>1, <2>2, Least
<1>4. PICK s \in Wrong : m = Cardinality(s)
  BY <1>3
<1>5. IsFiniteSet(s) /\ IsFiniteSet(Image(s))
  <2>1. IsFiniteSet(s)
    BY <1>2
  <2>2. PICK g : g = [x \in s |-> f[x]]
    OBVIOUS
  <2>3. g \in Surjection(s, Image(s))
    BY <2>2 DEF Surjection
  <2> HIDE DEF Image
  <2> QED BY <2>1, <2>3, FS_Surjection
<1>6. \A y \in Image(s) : d[y] \in Int
  OBVIOUS
<1>7. CASE s = {}
  <2>1. Image(s) = {}
    BY <1>7
  <2>2. IsFiniteSet({})
    BY FS_EmptySet
  <2>3. SumFunctionOnSet(c, {}) = 0 /\ SumFunctionOnSet(d, {}) = 0
    BY <2>2, SumChosen
  <2> QED BY <1>4, <1>7, <2>1, <2>3
<1>8. CASE s # {}
  <2>1. PICK x \in s : TRUE
    BY <1>8
  <2>2. Image(s) \ {f[x]} = Image(s \ {x})
    OBVIOUS
  <2>3. s \ {x} \notin Wrong
    <3>1. Cardinality(s \ {x}) = Cardinality(s) - 1
      BY OneOut
    <3>2. Cardinality(s \ {x}) \in Nat /\ Cardinality(s) \in Nat /\ s \ {x} \in SUBSET S
      BY <1>2
    <3> HIDE DEF Image
    <3>3. s \ {x} \in Wrong => m <= Cardinality(s \ {x})
      BY <1>3
    <3> QED BY <1>4, <3>1, <3>2, <3>3
  <2>4. SumFunctionOnSet(d, Image(s \ {x})) = SumFunctionOnSet(c, s \ {x})
    BY <2>3
  <2>5. SumFunctionOnSet(c, s) = c[x] + SumFunctionOnSet(c, s \ {x})
    BY <1>5, SumOut
  <2>6. f[x] \in Image(s)
    OBVIOUS
  <2> HIDE DEF Image
  <2>7. SumFunctionOnSet(d, Image(s)) = d[f[x]] + SumFunctionOnSet(d, Image(s) \ {f[x]})
    BY <1>5, <1>6, <2>6, SumOut
  <2>8. d[f[x]] = c[x]
    OBVIOUS
  <2> QED BY <1>4, <2>2, <2>4, <2>5, <2>7, <2>8
<1> QED BY <1>7, <1>8
=============================================================================

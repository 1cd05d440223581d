----------------------------- MODULE NumberFacts -----------------------------
(***************************************************************************)
(* Facts about numbers that several proofs rest on: the least element of a *)
(* set of naturals, which is induction in the form the provers can use,    *)
(* division with a remainder, for walking round a table of slots, sums     *)
(* over finite sets, powers of two, and finite sets put in order.          *)
(***************************************************************************)
EXTENDS Ordering, Functions, SequenceTheorems, FiniteSetTheorems, WellFoundedInduction, TLAPS

\* A non-empty set of natural numbers has a least element.
LEMMA LeastNatural ==
  ASSUME NEW S, S \subseteq Nat, S # {}
  PROVE  \E x \in S : \A y \in S : x <= y
<1> DEFINE R == {ss \in Nat \X Nat : ss[1] < ss[2]}
<1>1. IsWellFoundedOn(R, Nat)
  BY NatLessThanWellFounded DEF OpToRel
<1>2. PICK x \in S : \A y \in S : ~ (<<y, x>> \in R)
  <2> HIDE DEF R
  <2> QED BY <1>1, WFMin
<1>3. ASSUME NEW y \in S, y < x PROVE FALSE
  <2>1. <<y, x>> \in R BY <1>3
  <2> QED BY <2>1, <1>2
<1> QED BY <1>3

\* A non-empty set of natural numbers bounded by n has a greatest element.
LEMMA GreatestNatural ==
  ASSUME NEW n \in Nat, NEW S, S \subseteq 0 .. n, S # {}
  PROVE  \E x \in S : \A y \in S : y <= x
<1> DEFINE T == {k \in Nat : n - k \in S}
<1>1. T \subseteq Nat OBVIOUS
<1>2. \A y \in S : n - y \in T
  <2> TAKE y \in S
  <2>1. y \in 0 .. n /\ n - (n - y) = y OBVIOUS
  <2> QED BY <2>1
<1>3. PICK k \in T : \A l \in T : k <= l
  <2>1. T # {} BY <1>2
  <2> HIDE DEF T
  <2> QED BY <1>1, <2>1, LeastNatural
<1>4. n - k \in S OBVIOUS
<1>5. \A y \in S : y <= n - k
  <2> TAKE y \in S
  <2>1. k <= n - y BY <1>2, <1>3
  <2>2. y \in 0 .. n /\ k \in Nat OBVIOUS
  <2> QED BY <2>1, <2>2
<1> QED BY <1>4, <1>5

\* The function that is x0 at 0 and at every successor what H makes of its value
\* before: recursion in the form the provers can use.
IsRecursion(f, A, x0, H) ==
  f \in [Nat -> A] /\ f[0] = x0 /\ \A n \in Nat : f[n + 1] = H[n][f[n]]

LEMMA RecursionExists ==
  ASSUME NEW A, NEW x0 \in A, NEW H \in [Nat -> [A -> A]]
  PROVE  \E f : IsRecursion(f, A, x0, H)
<1> DEFINE Good(f, n) == f[0] = x0 /\ \A k \in 0 .. n - 1 : f[k + 1] = H[k][f[k]]
           Fs(n) == {f \in [0 .. n -> A] : Good(f, n)}
           Bad == {n \in Nat : Fs(n) = {}}
\* Two of them agree where both are defined.
<1>1. ASSUME NEW n \in Nat, NEW m \in Nat, NEW f \in Fs(n), NEW g \in Fs(m),
             NEW k \in Nat, k <= n, k <= m
      PROVE  f[k] = g[k]
  <2> DEFINE D == {l \in Nat : l <= n /\ l <= m /\ f[l] # g[l]}
  <2>1. SUFFICES ASSUME D # {} PROVE FALSE
    BY <1>1
  <2>2. PICK l \in D : \A y \in D : l <= y
    <3>1. D \subseteq Nat OBVIOUS
    <3> HIDE DEF D
    <3> QED BY <2>1, <3>1, LeastNatural
  <2>3. l # 0 BY <1>1, <2>2
  <2>4. l - 1 \in 0 .. n - 1 /\ l - 1 \in 0 .. m - 1 /\ l - 1 \notin D /\ l = (l - 1) + 1
    BY <1>1, <2>2, <2>3
  <2>5. f[l - 1] = g[l - 1] BY <2>4
  <2>6. f[(l - 1) + 1] = H[l - 1][f[l - 1]] /\ g[(l - 1) + 1] = H[l - 1][g[l - 1]]
    BY <1>1, <2>4
  <2> QED BY <2>2, <2>4, <2>5, <2>6
\* There is one of every length.
<1>2. ASSUME Bad # {} PROVE FALSE
  <2>1. PICK n \in Bad : \A y \in Bad : n <= y
    <3>1. Bad \subseteq Nat OBVIOUS
    <3> HIDE DEF Bad
    <3> QED BY <1>2, <3>1, LeastNatural
  <2>2. n # 0
    <3>1. [k \in 0 .. 0 |-> x0] \in Fs(0) OBVIOUS
    <3> QED BY <2>1, <3>1
  <2>3. n - 1 \in Nat /\ n - 1 \notin Bad BY <2>1, <2>2
  <2>4. PICK f \in [0 .. n - 1 -> A] : Good(f, n - 1) BY <2>3
  <2> DEFINE g == [k \in 0 .. n |-> IF k = n THEN H[n - 1][f[n - 1]] ELSE f[k]]
  <2>5. g \in [0 .. n -> A] BY <2>3, <2>4
  <2>6. g[0] = x0 BY <2>2, <2>3, <2>4
  <2>7. ASSUME NEW k \in 0 .. n - 1 PROVE g[k + 1] = H[k][g[k]]
    <3>1. CASE k = n - 1
      <4>1. k + 1 = n /\ k # n /\ k \in 0 .. n /\ n \in 0 .. n BY <2>3, <3>1
      <4> QED BY <3>1, <4>1
    <3>2. CASE k # n - 1
      <4>1. /\ k + 1 # n /\ k # n /\ k \in 0 .. n /\ k + 1 \in 0 .. n
            /\ k \in 0 .. (n - 1) - 1
        BY <2>3, <3>2
      <4>2. g[k + 1] = f[k + 1] /\ g[k] = f[k] BY <4>1
      <4> QED BY <2>4, <4>1, <4>2
    <3> QED BY <3>1, <3>2
  <2>8. g \in Fs(n) BY <2>5, <2>6, <2>7
  <2> QED BY <2>1, <2>8
<1> DEFINE Some(n) == CHOOSE f \in Fs(n) : TRUE
           F == [n \in Nat |-> Some(n)[n]]
<1>3. \A n \in Nat : Some(n) \in Fs(n)
  <2>1. \A n \in Nat : Fs(n) # {} BY <1>2
  <2> HIDE DEF Fs
  <2> QED BY <2>1
<1> HIDE DEF Some
<1>4. ASSUME NEW n \in Nat, NEW f \in Fs(n), NEW k \in 0 .. n PROVE F[k] = f[k]
  <2>1. k \in Nat /\ k <= k /\ k <= n OBVIOUS
  <2> HIDE DEF Fs
  <2>2. Some(k) \in Fs(k) BY <1>3, <2>1
  <2>3. F[k] = Some(k)[k] BY <2>1
  <2> QED BY <1>1, <2>1, <2>2, <2>3
<1>5. F \in [Nat -> A]
  <2> SUFFICES ASSUME NEW n \in Nat PROVE F[n] \in A OBVIOUS
  <2>1. Some(n) \in [0 .. n -> A] BY <1>3
  <2> QED BY <2>1
<1>6. ASSUME NEW n \in Nat PROVE F[n + 1] = H[n][F[n]]
  <2> DEFINE f == Some(n + 1)
  <2>1. f \in Fs(n + 1) BY <1>3
  <2>2. n + 1 \in Nat /\ n \in 0 .. (n + 1) - 1 /\ n \in 0 .. n + 1 /\ n + 1 \in 0 .. n + 1 OBVIOUS
  <2>3. f[n + 1] = H[n][f[n]] BY <2>1, <2>2
  <2> HIDE DEF f, F, Fs
  <2>4. F[n] = f[n] /\ F[n + 1] = f[n + 1] BY <1>4, <2>1, <2>2
  <2> QED BY <2>3, <2>4
<1>7. F[0] = x0
  <2>1. Some(0) \in Fs(0) BY <1>3
  <2> QED BY <2>1
<1> HIDE DEF F
<1> QED BY <1>5, <1>6, <1>7 DEF IsRecursion

-----------------------------------------------------------------------------
\* Euclidean division: quotient, remainder and the range of both.
LEMMA DivMod ==
  ASSUME NEW M \in Nat \ {0}, NEW a \in Nat
  PROVE  /\ a = M * (a \div M) + (a % M)
         /\ a \div M \in Nat
         /\ a % M \in 0 .. M - 1
OBVIOUS

\* A larger quotient is a whole M further.
LEMMA QuotientGap ==
  ASSUME NEW M \in Nat \ {0}, NEW p \in Int, NEW q \in Int, p < q
  PROVE  M * p + M <= M * q
<1>1. q - p - 1 \in Nat
  OBVIOUS
<1>2. M * (q - p - 1) \in Nat
  BY <1>1
<1>3. M * (q - p - 1) = M * q - M * p - M
  OBVIOUS
<1> QED
  BY <1>2, <1>3

\* Remainders are unique.
LEMMA RemainderUnique ==
  ASSUME NEW M \in Nat \ {0}, NEW p \in Int, NEW q \in Int,
         NEW r \in 0 .. M - 1, NEW s \in 0 .. M - 1,
         M * p + r = M * q + s
  PROVE  r = s
<1> DEFINE x == M * p
           y == M * q
<1>0. x \in Int /\ y \in Int /\ x + r = y + s
  OBVIOUS
<1>1. CASE p < q
  <2>1. x + M <= y
    BY <1>1, QuotientGap
  <2> HIDE DEF x, y
  <2> QED
    BY <1>0, <2>1
<1>2. CASE q < p
  <2>1. y + M <= x
    BY <1>2, QuotientGap
  <2> HIDE DEF x, y
  <2> QED
    BY <1>0, <2>1
<1>3. CASE p = q
  BY <1>3
<1> QED
  BY <1>1, <1>2, <1>3

\* A number is determined by, and determines, its quotient and remainder.
LEMMA QuotientRemainder ==
  ASSUME NEW M \in Nat \ {0}, NEW q \in Nat, NEW r \in 0 .. M - 1
  PROVE  (M * q + r) \div M = q /\ (M * q + r) % M = r
<1> DEFINE x == M * q + r
           Q == x \div M
           R == x % M
<1>1. M * q \in Nat OBVIOUS
<1>2. x \in Nat BY <1>1
<1>3. x = M * Q + R /\ Q \in Nat /\ R \in 0 .. M - 1
  <2> HIDE DEF x
  <2> QED BY <1>2, DivMod
<1>4. M * q \in Int /\ M * Q \in Int /\ M * q + r = M * Q + R BY <1>3
<1> HIDE DEF Q, R, x
<1>5. R = r BY <1>3, <1>4, RemainderUnique
<1>6. ~(q < Q)
  <2>1. q < Q => M * q + M <= M * Q BY <1>3, QuotientGap
  <2> DEFINE u == M * q
             v == M * Q
  <2> HIDE DEF u, v
  <2>2. u \in Int /\ v \in Int /\ u + r = v + R BY <1>4 DEF u, v
  <2>3. ~(u + M <= v) BY <2>2, <1>3
  <2> QED BY <2>1, <2>3 DEF u, v
<1>7. ~(Q < q)
  <2>1. Q < q => M * Q + M <= M * q BY <1>3, QuotientGap
  <2> DEFINE u == M * q
             v == M * Q
  <2> HIDE DEF u, v
  <2>2. u \in Int /\ v \in Int /\ u + r = v + R BY <1>4 DEF u, v
  <2>3. ~(v + M <= u) BY <2>2, <1>3
  <2> QED BY <2>1, <2>3 DEF u, v
<1> QED BY <1>3, <1>5, <1>6, <1>7 DEF Q, R, x

\* Two numbers a whole multiple of M apart have the same remainder.
LEMMA ModShift ==
  ASSUME NEW M \in Nat \ {0}, NEW k \in Nat, NEW b \in Nat
  PROVE  (M * k + b) % M = b % M
<1> DEFINE a == M * k + b
           P == a \div M
           R == a % M
           Q == b \div M
           S == b % M
<1>1. M * k \in Nat
  OBVIOUS
<1>2. a \in Nat
  BY <1>1
<1>3. a = M * P + R /\ P \in Nat /\ R \in 0 .. M - 1
  <2> HIDE DEF a
  <2> QED
    BY <1>2, DivMod
<1>4. b = M * Q + S /\ Q \in Nat /\ S \in 0 .. M - 1
  BY DivMod
<1>5. M * (k + Q) + S = M * P + R
  <2>1. M * (k + Q) = M * k + M * Q
    BY <1>4
  <2>2. M * k \in Int /\ M * Q \in Int /\ M * P \in Int
    BY <1>3, <1>4
  <2>3. M * k + (M * Q + S) = M * P + R
    BY <1>3, <1>4
  <2> DEFINE u == M * k
             v == M * Q
             w == M * P
  <2> HIDE DEF u, v, w, R, S, P, Q
  <2>4. u + (v + S) = w + R => (u + v) + S = w + R
    BY <1>3, <1>4, <2>2 DEF u, v, w
  <2> QED
    BY <2>1, <2>3, <2>4 DEF u, v, w
<1> HIDE DEF P, Q, R, S, a
<1>6. k + Q \in Int
  BY <1>4
<1>7. S = R
  BY <1>3, <1>4, <1>5, <1>6, RemainderUnique
<1> QED
  BY <1>7 DEF R, S, a

\* The slot after the slot of a is the slot of a + 1.
LEMMA NextSlot ==
  ASSUME NEW M \in Nat \ {0}, NEW a \in Nat
  PROVE  ((a % M) + 1) % M = (a + 1) % M
<1> DEFINE q == a \div M
           b == (a % M) + 1
<1>1. a = M * q + (a % M) /\ q \in Nat /\ a % M \in 0 .. M - 1
  BY DivMod
<1>2. b \in Nat
  BY <1>1
<1>3. a + 1 = M * q + b
  BY <1>1
<1> HIDE DEF q, b
<1>4. (M * q + b) % M = b % M
  BY <1>1, <1>2, ModShift
<1> QED
  BY <1>3, <1>4 DEF b

\* M slots on, the walk is back where it started.
LEMMA WrapSlot ==
  ASSUME NEW M \in Nat \ {0}, NEW a \in Nat
  PROVE  (a + M) % M = a % M
<1>1. a + M = M * 1 + a
  OBVIOUS
<1>2. (M * 1 + a) % M = a % M
  BY ModShift
<1> QED
  BY <1>1, <1>2

-----------------------------------------------------------------------------
(* Sums.                                                                    *)

\* A sum over a set is a recursion over its subsets, which there is.
Pick(s) == CHOOSE x \in s : TRUE
SumsTaken(it, f, S) ==
  it = [s \in SUBSET S |-> IF s = {} THEN 0 ELSE f[Pick(s)] + it[s \ {Pick(s)}]]

\* SumFunctionOnSet is such a recursion.
LEMMA SumIsTaken ==
  ASSUME NEW f, NEW S
  PROVE  SumFunctionOnSet(f, S) = (CHOOSE it : SumsTaken(it, f, S))[S]
BY DEF SumFunctionOnSet, FoldFunctionOnSet, MapThenFoldSet, SumsTaken, Pick

\* There is one for every finite set, built up by size.
LEMMA SumsCanBeTaken ==
  ASSUME NEW S, IsFiniteSet(S), NEW f, \A x \in S : f[x] \in Int
  PROVE  \E it : SumsTaken(it, f, S)
<1> DEFINE D == SUBSET S
           A == [D -> Int]
           Round(s, g) == IF s = {} THEN 0 ELSE f[Pick(s)] + g[s \ {Pick(s)}]
           H == [k \in Nat |-> [g \in A |-> [s \in D |-> Round(s, g)]]]
           none == [s \in D |-> 0]
<1>1. ASSUME NEW s \in D, s # {}
      PROVE  Pick(s) \in s /\ f[Pick(s)] \in Int /\ s \ {Pick(s)} \in D
  BY <1>1 DEF Pick
<1>2. none \in A OBVIOUS
<1>3. ASSUME NEW g \in A, NEW s \in D PROVE Round(s, g) \in Int
  <2>1. CASE s = {} BY <2>1
  <2>2. CASE s # {}
    <3>1. f[Pick(s)] \in Int /\ g[s \ {Pick(s)}] \in Int BY <1>1, <2>2
    <3> QED BY <2>2, <3>1
  <2> QED BY <2>1, <2>2
<1>4. H \in [Nat -> [A -> A]]
  <2>1. \A g \in A : [s \in D |-> Round(s, g)] \in A BY <1>3
  <2> HIDE DEF A, Round, D
  <2> QED BY <2>1
<1>5. PICK r : IsRecursion(r, A, none, H)
  <2> HIDE DEF A, H, none
  <2> QED BY <1>2, <1>4, RecursionExists
<1>6. r \in [Nat -> A] /\ r[0] = none /\ \A k \in Nat : r[k + 1] = [s \in D |-> Round(s, r[k])]
  <2>1. r \in [Nat -> A] /\ r[0] = none /\ \A k \in Nat : r[k + 1] = H[k][r[k]]
    BY <1>5 DEF IsRecursion
  <2> HIDE DEF A, Round, D, none
  <2> QED BY <2>1
<1>7. \A s \in D : IsFiniteSet(s) /\ Cardinality(s) \in Nat BY FS_Subset, FS_CardinalityType
<1> DEFINE it == [s \in D |-> r[Cardinality(s)][s]]
<1>8. ASSUME NEW s \in D PROVE it[s] = Round(s, it)
  <2>1. CASE s = {}
    <3>1. Cardinality(s) = 0 BY <2>1, FS_EmptySet
    <3>2. none[s] = 0 OBVIOUS
    <3> QED BY <1>6, <2>1, <3>1, <3>2
  <2>2. CASE s # {}
    <3> DEFINE rest == s \ {Pick(s)}
    <3>1. Pick(s) \in s /\ rest \in D BY <1>1, <2>2
    <3>2. Cardinality(rest) = Cardinality(s) - 1 BY <1>7, <3>1, FS_RemoveElement
    <3>3. Cardinality(rest) \in Nat /\ Cardinality(s) = Cardinality(rest) + 1
      BY <1>7, <3>1, <3>2
    <3>4. r[Cardinality(rest) + 1][s] = Round(s, r[Cardinality(rest)]) BY <1>6, <3>3
    <3>5. it[rest] = r[Cardinality(rest)][rest] BY <3>1
    <3> QED BY <2>2, <3>3, <3>4, <3>5
  <2> QED BY <2>1, <2>2
<1>9. it = [s \in D |-> Round(s, it)]
  <2> HIDE DEF Round
  <2> QED BY <1>8
<1> QED BY <1>9 DEF SumsTaken

\* On the subsets two sets share they agree.
LEMMA SumsAgree ==
  ASSUME NEW S, IsFiniteSet(S), NEW T \in SUBSET S, NEW f, NEW it, NEW jt,
         SumsTaken(it, f, S), SumsTaken(jt, f, T)
  PROVE  \A s \in SUBSET T : it[s] = jt[s]
<1> DEFINE wrong == {Cardinality(s) : s \in {t \in SUBSET T : it[t] # jt[t]}}
<1>1. \A s \in SUBSET T : IsFiniteSet(s) /\ Cardinality(s) \in Nat
  BY FS_Subset, FS_CardinalityType
<1>2. \A s \in SUBSET T :
        /\ it[s] = IF s = {} THEN 0 ELSE f[Pick(s)] + it[s \ {Pick(s)}]
        /\ jt[s] = IF s = {} THEN 0 ELSE f[Pick(s)] + jt[s \ {Pick(s)}]
  BY DEF SumsTaken
<1> SUFFICES ASSUME wrong # {} PROVE FALSE BY <1>1
<1>3. wrong \subseteq Nat BY <1>1
<1>4. PICK k \in wrong : \A l \in wrong : k <= l
  <2> HIDE DEF wrong
  <2> QED BY <1>3, LeastNatural
<1>5. PICK s \in SUBSET T : it[s] # jt[s] /\ k = Cardinality(s) BY <1>4
<1>6. s # {} BY <1>2, <1>5
<1>7. Pick(s) \in s BY <1>6 DEF Pick
<1>8. s \ {Pick(s)} \in SUBSET T /\ Cardinality(s \ {Pick(s)}) = Cardinality(s) - 1
  BY <1>1, <1>7, FS_RemoveElement
<1>9. it[s \ {Pick(s)}] = jt[s \ {Pick(s)}]
  <2> SUFFICES ASSUME it[s \ {Pick(s)}] # jt[s \ {Pick(s)}] PROVE FALSE OBVIOUS
  <2>1. Cardinality(s \ {Pick(s)}) \in wrong BY <1>8
  <2> QED BY <1>1, <1>4, <1>5, <1>8, <2>1
<1> QED BY <1>2, <1>5, <1>6, <1>9

\* A sum is one of its terms and the rest.
LEMMA SumUnfolds ==
  ASSUME NEW S, IsFiniteSet(S), S # {}, NEW f, \A x \in S : f[x] \in Int
  PROVE  SumFunctionOnSet(f, S) = f[Pick(S)] + SumFunctionOnSet(f, S \ {Pick(S)})
<1> DEFINE T == S \ {Pick(S)}
           it == CHOOSE it : SumsTaken(it, f, S)
           jt == CHOOSE jt : SumsTaken(jt, f, T)
<1>1. T \in SUBSET S /\ IsFiniteSet(T) BY FS_Subset
<1>2. SumsTaken(it, f, S) BY SumsCanBeTaken
<1>3. SumsTaken(jt, f, T) BY <1>1, SumsCanBeTaken
<1>4. SumFunctionOnSet(f, S) = it[S] /\ SumFunctionOnSet(f, T) = jt[T] BY SumIsTaken
<1> HIDE DEF it, jt
<1>5. it[T] = jt[T] BY <1>1, <1>2, <1>3, SumsAgree
<1>6. it[S] = f[Pick(S)] + it[T] BY <1>2 DEF SumsTaken
<1> QED BY <1>4, <1>5, <1>6

\* Nothing sums to zero.
LEMMA EmptySum == ASSUME NEW f PROVE SumFunctionOnSet(f, {}) = 0
<1> DEFINE it == CHOOSE it : SumsTaken(it, f, {})
<1>1. SumsTaken(it, f, {}) BY FS_EmptySet, SumsCanBeTaken
<1>2. SumFunctionOnSet(f, {}) = it[{}] BY SumIsTaken
<1> HIDE DEF it
<1> QED BY <1>1, <1>2 DEF SumsTaken

\* A finite sum of integers is an integer.
LEMMA SumIsInt ==
  ASSUME NEW S, IsFiniteSet(S), NEW f, \A x \in S : f[x] \in Int
  PROVE  SumFunctionOnSet(f, S) \in Int
<1> DEFINE wrong == {Cardinality(s) : s \in {t \in SUBSET S : SumFunctionOnSet(f, t) \notin Int}}
<1>1. \A s \in SUBSET S : IsFiniteSet(s) /\ Cardinality(s) \in Nat
  BY FS_Subset, FS_CardinalityType
<1> SUFFICES ASSUME wrong # {} PROVE FALSE BY <1>1
<1>3. wrong \subseteq Nat BY <1>1
<1>4. PICK k \in wrong : \A l \in wrong : k <= l
  <2> HIDE DEF wrong
  <2> QED BY <1>3, LeastNatural
<1>5. PICK s \in SUBSET S : SumFunctionOnSet(f, s) \notin Int /\ k = Cardinality(s) BY <1>4
<1>6. s # {} BY <1>5, EmptySum
<1>7. Pick(s) \in s BY <1>6 DEF Pick
<1>8. s \ {Pick(s)} \in SUBSET S /\ Cardinality(s \ {Pick(s)}) = Cardinality(s) - 1
  BY <1>1, <1>7, FS_RemoveElement
<1>9. SumFunctionOnSet(f, s \ {Pick(s)}) \in Int
  <2> SUFFICES ASSUME SumFunctionOnSet(f, s \ {Pick(s)}) \notin Int PROVE FALSE OBVIOUS
  <2>1. Cardinality(s \ {Pick(s)}) \in wrong BY <1>8
  <2> HIDE DEF wrong
  <2>2. k \in Nat /\ k - 1 \in wrong BY <1>1, <1>5, <1>8, <2>1
  <2> QED BY <1>4, <2>2
<1>10. SumFunctionOnSet(f, s) = f[Pick(s)] + SumFunctionOnSet(f, s \ {Pick(s)})
  BY <1>1, <1>6, SumUnfolds
<1> QED BY <1>5, <1>7, <1>9, <1>10

\* Any element may be taken out first.
LEMMA SumSplits ==
  ASSUME NEW S, IsFiniteSet(S), NEW y \in S, NEW f, \A x \in S : f[x] \in Int
  PROVE  SumFunctionOnSet(f, S) = f[y] + SumFunctionOnSet(f, S \ {y})
<1> DEFINE Sum(s) == SumFunctionOnSet(f, s)
           Splits(s) == \A x \in s : Sum(s) = f[x] + Sum(s \ {x})
           wrong == {Cardinality(s) : s \in {t \in SUBSET S : ~Splits(t)}}
<1>1. \A s \in SUBSET S : IsFiniteSet(s) /\ Cardinality(s) \in Nat
  BY FS_Subset, FS_CardinalityType
<1>2. \A s \in SUBSET S : Sum(s) \in Int BY <1>1, SumIsInt
<1>3. \A s \in SUBSET S : s # {} => Sum(s) = f[Pick(s)] + Sum(s \ {Pick(s)})
  BY <1>1, SumUnfolds
<1> HIDE DEF Sum
<1> SUFFICES ASSUME wrong # {} PROVE FALSE BY <1>1 DEF Sum
<1>4. wrong \subseteq Nat BY <1>1
<1>5. PICK k \in wrong : \A l \in wrong : k <= l
  <2> HIDE DEF wrong
  <2> QED BY <1>4, LeastNatural
<1>6. PICK s \in SUBSET S : ~Splits(s) /\ k = Cardinality(s) BY <1>5
<1>7. PICK x \in s : Sum(s) # f[x] + Sum(s \ {x}) BY <1>6
<1> DEFINE p == Pick(s)
<1>8. p \in s /\ p # x /\ f[p] \in Int /\ f[x] \in Int
  <2>1. Pick(s) \in s BY <1>7 DEF Pick
  <2> QED BY <1>3, <1>7, <2>1
<1>9. \A z \in s : Splits(s \ {z})
  <2> SUFFICES ASSUME NEW z \in s, ~Splits(s \ {z}) PROVE FALSE OBVIOUS
  <2> HIDE DEF Splits
  <2>1. s \ {z} \in SUBSET S /\ Cardinality(s \ {z}) = Cardinality(s) - 1
    BY <1>1, FS_RemoveElement
  <2>2. Cardinality(s \ {z}) \in wrong BY <2>1
  <2> QED BY <1>1, <1>5, <1>6, <2>1, <2>2
<1>10. Sum(s) = f[p] + Sum(s \ {p}) BY <1>3, <1>8
<1> HIDE DEF p
<1>11. Sum(s \ {p}) = f[x] + Sum((s \ {p}) \ {x}) BY <1>7, <1>8, <1>9
<1>12. Sum(s \ {x}) = f[p] + Sum((s \ {x}) \ {p}) BY <1>7, <1>8, <1>9
<1>13. (s \ {x}) \ {p} = (s \ {p}) \ {x} OBVIOUS
<1>14. Sum((s \ {p}) \ {x}) \in Int /\ Sum(s \ {p}) \in Int /\ Sum(s \ {x}) \in Int BY <1>2
<1> DEFINE least == Sum((s \ {p}) \ {x})
<1>15. Sum((s \ {x}) \ {p}) = least BY <1>13
<1> HIDE DEF least
<1>16. Sum(s) = f[p] + (f[x] + least) /\ Sum(s \ {x}) = f[p] + least /\ least \in Int
  BY <1>10, <1>11, <1>12, <1>14, <1>15 DEF least
<1>17. f[p] + (f[x] + least) = f[x] + (f[p] + least) BY <1>8, <1>16
<1> QED BY <1>7, <1>16, <1>17

\* A list of n bits has twice as many values with one more bit.
LEMMA Doubling ==
  ASSUME NEW n \in Nat
  PROVE  2 ^ n \in Nat /\ 2 ^ (n + 1) = 2 * 2 ^ n
<1> DEFINE x == n + 1
           A == SUBSET (1 .. n)
           B == {t \in SUBSET (1 .. x) : x \in t}
           g == [t \in A |-> t \cup {x}]
<1>1. /\ IsFiniteSet(1 .. n) /\ Cardinality(1 .. n) = n
      /\ IsFiniteSet(1 .. x) /\ Cardinality(1 .. x) = x
  BY FS_Interval
<1>2. IsFiniteSet(A) /\ Cardinality(A) = 2 ^ n /\ Cardinality(SUBSET (1 .. x)) = 2 ^ x
  BY <1>1, FS_SUBSET
<1>3. 1 .. x = (1 .. n) \cup {x} /\ x \notin 1 .. n OBVIOUS
<1> HIDE DEF x
<1>4. g \in Bijection(A, B)
  <2>1. g \in [A -> B] BY <1>3
  <2>2. \A s, t \in A : g[s] = g[t] => s = t BY <1>3
  <2>3. \A t \in B : \E s \in A : g[s] = t
    <3> SUFFICES ASSUME NEW t \in B PROVE \E s \in A : g[s] = t OBVIOUS
    <3>1. t \ {x} \in A /\ (t \ {x}) \cup {x} = t BY <1>3
    <3> QED BY <3>1
  <2> HIDE DEF g, A, B
  <2> QED BY <2>1, <2>2, <2>3 DEF Bijection, Injection, Surjection, IsInjective
<1>5. IsFiniteSet(B) /\ Cardinality(B) = 2 ^ n
  <2> HIDE DEF g, A, B
  <2> QED BY <1>2, <1>4, FS_Bijection DEF ExistsBijection
<1>6. A \cup B = SUBSET (1 .. x) /\ A \cap B = {} BY <1>3
<1>7. Cardinality(SUBSET (1 .. x)) = 2 ^ n + 2 ^ n - 0
  <2> HIDE DEF A, B
  <2> QED BY <1>2, <1>5, <1>6, FS_Union, FS_EmptySet
<1>8. 2 ^ n \in Nat BY <1>2, FS_CardinalityType
<1> DEFINE p == 2 ^ n
           q == 2 ^ x
<1>9. p \in Nat /\ q = p + p - 0 BY <1>2, <1>7, <1>8
<1> HIDE DEF p, q
<1>10. q = 2 * p BY <1>9
<1> QED BY <1>8, <1>10 DEF p, q, x

\* Powers of two are positive and double.
LEMMA Powers ==
  /\ 2 ^ 0 = 1
  /\ \A n \in Nat : 2 ^ n \in Nat \ {0} /\ 2 ^ (n + 1) = 2 * 2 ^ n
<1> DEFINE zero == {n \in Nat : 2 ^ n = 0}
<1>1. 2 ^ 0 = 1 OBVIOUS
<1>2. \A n \in Nat : 2 ^ n \in Nat /\ 2 ^ (n + 1) = 2 * 2 ^ n BY Doubling
<1>3. zero = {}
  <2> SUFFICES ASSUME zero # {} PROVE FALSE OBVIOUS
  <2>1. PICK n \in zero : \A m \in zero : n <= m
    <3>1. zero \subseteq Nat OBVIOUS
    <3> HIDE DEF zero
    <3> QED BY <3>1, LeastNatural
  <2>2. n \in Nat /\ 2 ^ n = 0 /\ n # 0
    <3>1. n \in Nat /\ 2 ^ n = 0 BY <2>1
    <3>2. ASSUME n = 0 PROVE FALSE
      <4>1. 1 = 0 BY <1>1, <3>1, <3>2, Zenon
      <4> QED BY <4>1
    <3> QED BY <3>1, <3>2
  <2>3. n - 1 \in Nat /\ (n - 1) + 1 = n BY <2>2
  <2>4. 2 ^ n = 2 * 2 ^ (n - 1) /\ 2 ^ (n - 1) \in Nat BY <1>2, <2>3
  <2> DEFINE p == 2 ^ (n - 1)
  <2>5. p \in Nat /\ 2 * p = 0 BY <2>2, <2>4
  <2> HIDE DEF p
  <2>6. p = 0 BY <2>5
  <2>7. n - 1 \in zero BY <2>3, <2>6 DEF p
  <2> QED BY <2>1, <2>2, <2>7
<1> QED BY <1>1, <1>2, <1>3

\* They grow.
LEMMA PowersGrow ==
  ASSUME NEW k \in Nat, NEW n \in Nat, k <= n
  PROVE  2 ^ k <= 2 ^ n
<1> DEFINE wrong == {m \in Nat : k <= m /\ ~(2 ^ k <= 2 ^ m)}
<1> SUFFICES ASSUME wrong # {} PROVE FALSE OBVIOUS
<1>1. PICK m \in wrong : \A l \in wrong : m <= l
  <2>1. wrong \subseteq Nat OBVIOUS
  <2> HIDE DEF wrong
  <2> QED BY <2>1, LeastNatural
<1>2. 2 ^ k \in Nat /\ 2 ^ m \in Nat /\ m \in Nat BY <1>1, Powers
<1>3. m # k /\ k <= m BY <1>1, <1>2
<1>4. m - 1 \in Nat /\ k <= m - 1 /\ (m - 1) + 1 = m BY <1>2, <1>3
<1>5. 2 ^ k <= 2 ^ (m - 1) BY <1>1, <1>4
<1>6. 2 ^ m = 2 * 2 ^ (m - 1) /\ 2 ^ (m - 1) \in Nat BY <1>4, Powers
<1> DEFINE p == 2 ^ (m - 1)
           q == 2 ^ m
           r == 2 ^ k
<1>7. p \in Nat /\ r \in Nat /\ q = 2 * p /\ r <= p BY <1>2, <1>5, <1>6
<1> HIDE DEF p, q, r
<1>8. r <= q BY <1>7
<1> QED BY <1>1, <1>8 DEF q, r

\* A number of bits is less than the numbers it can hold.
LEMMA PowerAbove ==
  ASSUME NEW n \in Nat
  PROVE  n < 2 ^ n
<1> DEFINE wrong == {m \in Nat : ~(m < 2 ^ m)}
<1> SUFFICES ASSUME wrong # {} PROVE FALSE OBVIOUS
<1>1. PICK m \in wrong : \A y \in wrong : m <= y
  <2>1. wrong \subseteq Nat OBVIOUS
  <2> HIDE DEF wrong
  <2> QED BY <2>1, LeastNatural
<1>2. m \in Nat /\ ~(m < 2 ^ m) OBVIOUS
<1>3. m # 0
  <2>1. 0 < 1 /\ 2 ^ 0 = 1 BY Powers
  <2> QED BY <1>2, <2>1
<1>4. PICK k \in Nat : m = k + 1
  <2>1. m - 1 \in Nat /\ m = (m - 1) + 1 BY <1>2, <1>3
  <2> QED BY <2>1
<1>5. k < 2 ^ k
  <2>1. ~(m <= k) BY <1>4
  <2> QED BY <1>1, <2>1
<1>6. PICK p \in Nat : p = 2 ^ k BY Powers
<1>7. 2 ^ m = 2 * p BY <1>4, <1>6, Powers
<1>8. k < p BY <1>5, <1>6
<1>9. m < 2 * p BY <1>4, <1>8
<1> QED BY <1>2, <1>7, <1>9

\* Exponents add up.
LEMMA PowerSum ==
  ASSUME NEW a \in Nat, NEW b \in Nat
  PROVE  2 ^ (a + b) = 2 ^ a * 2 ^ b
<1> DEFINE wrong == {m \in Nat : 2 ^ (a + m) # 2 ^ a * 2 ^ m}
<1> SUFFICES ASSUME wrong # {} PROVE FALSE OBVIOUS
<1>1. PICK m \in wrong : \A y \in wrong : m <= y
  <2>1. wrong \subseteq Nat OBVIOUS
  <2> HIDE DEF wrong
  <2> QED BY <2>1, LeastNatural
<1>2. m \in Nat /\ 2 ^ (a + m) # 2 ^ a * 2 ^ m OBVIOUS
<1>3. PICK p \in Nat : p = 2 ^ a BY Powers
<1>4. m # 0
  <2> SUFFICES ASSUME m = 0 PROVE FALSE OBVIOUS
  <2>1. a + m = a BY <1>2
  <2>2. 2 ^ m = 1 BY Powers
  <2>3. p * 1 = p OBVIOUS
  <2> QED BY <1>2, <1>3, <2>1, <2>2, <2>3, Zenon
<1>5. PICK k \in Nat : m = k + 1
  <2>1. m - 1 \in Nat /\ m = (m - 1) + 1 BY <1>2, <1>4
  <2> QED BY <2>1
<1>6. 2 ^ (a + k) = 2 ^ a * 2 ^ k
  <2>1. ~(m <= k) BY <1>5
  <2> QED BY <1>1, <2>1
<1>7. PICK q \in Nat : q = 2 ^ k BY Powers
<1>8. 2 ^ m = 2 * q BY <1>5, <1>7, Powers
<1>9. 2 ^ (a + m) = 2 * 2 ^ (a + k)
  <2>1. a + m = (a + k) + 1 /\ a + k \in Nat BY <1>5
  <2> QED BY <2>1, Powers
<1>10. 2 ^ (a + k) = p * q BY <1>3, <1>6, <1>7
<1>11. 2 ^ (a + m) = 2 * (p * q) BY <1>9, <1>10
<1>12. p * (2 * q) = 2 * (p * q) OBVIOUS
<1> QED BY <1>2, <1>3, <1>8, <1>11, <1>12, Zenon

\* A number is its low digits and the digit above them.
LEMMA DigitStep ==
  ASSUME NEW P \in Nat \ {0}, NEW Q \in Nat \ {0}, NEW v \in Nat
  PROVE  v % (P * Q) = (v % P) + ((v \div P) % Q) * P
<1>1. PICK q \in Nat, r \in 0 .. P - 1 : v \div P = q /\ v % P = r /\ v = P * q + r BY DivMod
<1>2. PICK d \in Nat, e \in 0 .. Q - 1 : q \div Q = d /\ q % Q = e /\ q = Q * d + e BY DivMod
<1>3. PICK M \in Nat \ {0} : M = P * Q OBVIOUS
<1>4. P * e + r \in 0 .. M - 1
  <2>1. P * e + P <= P * Q BY <1>2, QuotientGap
  <2>2. PICK x \in Nat : x = P * e BY <1>2
  <2> QED BY <1>1, <1>3, <2>1, <2>2
<1>5. v = M * d + (P * e + r)
  <2>1. P * (Q * d + e) = (P * Q) * d + P * e BY <1>2
  <2>2. PICK x \in Nat : x = P * e BY <1>2
  <2>3. PICK y \in Nat : y = M * d BY <1>2, <1>3
  <2>4. P * q = y + x BY <1>2, <1>3, <2>1, <2>2, <2>3
  <2>5. v = y + x + r BY <1>1, <2>4
  <2> QED BY <1>1, <2>2, <2>3, <2>5
<1>6. v % M = P * e + r BY <1>2, <1>4, <1>5, QuotientRemainder
<1>7. P * e + r = r + e * P BY <1>1, <1>2
<1> QED BY <1>1, <1>2, <1>3, <1>6, <1>7

\* The digits of a number, of B bits each, add up to the number below n digits.
LEMMA DigitsSum ==
  ASSUME NEW B \in Nat \ {0}, NEW v \in Nat, NEW n \in Nat, NEW f,
         \A b \in 0 .. n - 1 : f[b] = ((v \div 2 ^ (B * b)) % 2 ^ B) * 2 ^ (B * b)
  PROVE  SumFunctionOnSet(f, 0 .. n - 1) = v % 2 ^ (B * n)
<1> DEFINE Sum(m) == SumFunctionOnSet(f, 0 .. m - 1)
           Right(m) == Sum(m) = v % 2 ^ (B * m)
           wrong == {m \in 0 .. n : ~Right(m)}
<1>0. ASSUME NEW b \in Nat
      PROVE  B * b \in Nat /\ 2 ^ (B * b) \in Nat \ {0} /\ 2 ^ B \in Nat \ {0}
             /\ (v \div 2 ^ (B * b)) % 2 ^ B \in Nat
  <2>1. B * b \in Nat OBVIOUS
  <2>2. PICK p \in Nat \ {0} : p = 2 ^ (B * b) BY <2>1, Powers
  <2>3. PICK q \in Nat \ {0} : q = 2 ^ B BY Powers
  <2>4. v \div p \in Nat BY DivMod
  <2>5. PICK x \in Nat : x = v \div p BY <2>4
  <2>6. x % q \in Nat BY DivMod
  <2> QED BY <2>1, <2>2, <2>3, <2>5, <2>6
<1> SUFFICES ASSUME wrong # {} PROVE FALSE
  <2>1. n \in 0 .. n OBVIOUS
  <2>2. wrong = {} => Right(n)
    <3> HIDE DEF Right
    <3> QED BY <2>1
  <2> QED BY <2>2
<1> HIDE DEF Right
<1>1. PICK m \in wrong : \A y \in wrong : m <= y
  <2>1. wrong \subseteq Nat OBVIOUS
  <2> HIDE DEF wrong
  <2> QED BY <2>1, LeastNatural
<1>2. m \in 0 .. n /\ ~Right(m) OBVIOUS
<1>3. m # 0
  <2> SUFFICES ASSUME m = 0 PROVE FALSE OBVIOUS
  <2>1. 0 .. m - 1 = {} BY <1>2
  <2>2. Sum(m) = 0 BY <2>1, EmptySum
  <2>3. B * m = 0 /\ 2 ^ 0 = 1 BY Powers
  <2>4. v % 1 = 0 OBVIOUS
  <2> HIDE DEF Sum
  <2>5. Right(m) BY <2>2, <2>3, <2>4, Zenon DEF Right
  <2> QED BY <1>2, <2>5
<1>4. PICK k \in 0 .. n - 1 : m = k + 1 /\ k \in Nat
  <2>1. m - 1 \in 0 .. n - 1 /\ m = (m - 1) + 1 BY <1>2, <1>3
  <2> QED BY <2>1
<1>5. Sum(k) = v % 2 ^ (B * k)
  <2>1. k \in 0 .. n /\ ~(m <= k) BY <1>4
  <2>2. Right(k) BY <1>1, <2>1
  <2> QED BY <2>2 DEF Right
<1>6. \A b \in 0 .. n - 1 : f[b] \in Int
  <2> SUFFICES ASSUME NEW b \in 0 .. n - 1 PROVE f[b] \in Int OBVIOUS
  <2>0. b \in Nat OBVIOUS
  <2>1. PICK p \in Nat : p = 2 ^ (B * b) BY <1>0, <2>0
  <2>2. PICK x \in Nat : x = (v \div 2 ^ (B * b)) % 2 ^ B BY <1>0, <2>0
  <2>3. f[b] = x * p BY <2>1, <2>2
  <2> QED BY <2>3
<1>7. Sum(m) = f[k] + Sum(k)
  <2>1. 0 .. m - 1 \subseteq 0 .. n - 1 /\ k \in 0 .. m - 1 /\ (0 .. m - 1) \ {k} = 0 .. k - 1
    BY <1>2, <1>4
  <2>2. IsFiniteSet(0 .. m - 1)
    <3>1. m - 1 \in Int BY <1>2
    <3> QED BY <3>1, FS_Interval
  <2>3. \A b \in 0 .. m - 1 : f[b] \in Int BY <1>6, <2>1
  <2>4. SumFunctionOnSet(f, 0 .. m - 1) = f[k] + SumFunctionOnSet(f, (0 .. m - 1) \ {k})
    BY <2>1, <2>2, <2>3, SumSplits
  <2> QED BY <2>1, <2>4
<1> HIDE DEF Sum
<1>8. PICK P \in Nat \ {0} : P = 2 ^ (B * k) BY <1>0, <1>4
<1>9. PICK Q \in Nat \ {0} : Q = 2 ^ B BY <1>0, <1>4
<1>10. 2 ^ (B * m) = P * Q
  <2>1. B * m = B * k + B /\ B * k \in Nat BY <1>4
  <2>2. 2 ^ (B * k + B) = 2 ^ (B * k) * 2 ^ B BY <2>1, PowerSum
  <2> QED BY <1>8, <1>9, <2>1, <2>2
<1>11. v % (P * Q) = (v % P) + ((v \div P) % Q) * P BY DigitStep
<1>12. PICK x \in Nat : x = (v \div P) % Q BY <1>0, <1>4, <1>8, <1>9
<1>13. f[k] = x * P BY <1>8, <1>9, <1>12
<1>14. PICK r \in Nat : r = v % P
  <2>1. v % P \in 0 .. P - 1 BY DivMod
  <2> QED BY <2>1
<1>15. PICK y \in Nat : y = x * P OBVIOUS
<1>16. Sum(m) = y + r BY <1>5, <1>7, <1>8, <1>13, <1>14, <1>15
<1>17. v % 2 ^ (B * m) = r + y BY <1>10, <1>11, <1>12, <1>14, <1>15
<1> QED BY <1>2, <1>16, <1>17 DEF Right

-----------------------------------------------------------------------------
(* Order.                                                                  *)

\* A strictly growing list has as many elements as places.
LEMMA GrowingCount ==
  ASSUME NEW n \in Nat, NEW s \in [1 .. n -> Int],
         \A k, l \in 1 .. n : k < l => s[k] < s[l], NEW m \in 0 .. n
  PROVE  /\ IsFiniteSet({s[k] : k \in 1 .. m})
         /\ Cardinality({s[k] : k \in 1 .. m}) = m
<1> DEFINE S == {s[k] : k \in 1 .. m}
           f == [k \in 1 .. m |-> s[k]]
<1>1. IsFiniteSet(1 .. m) /\ Cardinality(1 .. m) = m BY FS_Interval
<1>2. f \in [1 .. m -> S] OBVIOUS
<1>3. \A k, l \in 1 .. m : f[k] = f[l] => k = l
  <2> SUFFICES ASSUME NEW k \in 1 .. m, NEW l \in 1 .. m, s[k] = s[l] PROVE k = l
    OBVIOUS
  <2>1. k \in 1 .. n /\ l \in 1 .. n /\ s[k] \in Int OBVIOUS
  <2>2. ~(k < l) /\ ~(l < k) BY <2>1
  <2> QED BY <2>1, <2>2
<1>4. \A y \in S : \E k \in 1 .. m : f[k] = y OBVIOUS
<1> HIDE DEF S, f
<1>5. f \in Bijection(1 .. m, S)
  BY <1>2, <1>3, <1>4 DEF Bijection, Injection, Surjection, IsInjective
<1>6. IsFiniteSet(S) /\ Cardinality(S) = m
  BY <1>1, <1>5, FS_Bijection DEF ExistsBijection
<1> QED BY <1>6 DEF S

\* The elements of a strictly growing list, in order, are the list.
LEMMA InOrderIs ==
  ASSUME NEW n \in Nat, NEW s \in [1 .. n -> Int],
         \A k, l \in 1 .. n : k < l => s[k] < s[l]
  PROVE  InOrder({s[k] : k \in 1 .. n}) = s
<1> DEFINE S == {s[k] : k \in 1 .. n}
           Below(x) == Cardinality({y \in S : y < x})
<1>1. IsFiniteSet(S) /\ Cardinality(S) = n
  <2>1. n \in 0 .. n OBVIOUS
  <2> QED BY <2>1, GrowingCount
<1>2. ASSUME NEW k \in 1 .. n PROVE Below(s[k]) = k - 1
  <2>1. k - 1 \in 0 .. n OBVIOUS
  <2>2. {y \in S : y < s[k]} = {s[l] : l \in 1 .. k - 1}
    <3>1. ASSUME NEW l \in 1 .. n PROVE s[l] < s[k] <=> l \in 1 .. k - 1
      <4>1. s[l] \in Int /\ s[k] \in Int OBVIOUS
      <4>2. CASE l < k BY <4>1, <4>2
      <4>3. CASE l = k BY <4>1, <4>3
      <4>4. CASE k < l BY <4>1, <4>4
      <4> QED BY <4>2, <4>3, <4>4
    <3>2. \A l \in 1 .. k - 1 : l \in 1 .. n OBVIOUS
    <3> QED BY <3>1, <3>2
  <2>3. Cardinality({s[l] : l \in 1 .. k - 1}) = k - 1 BY <2>1, GrowingCount
  <2> QED BY <2>2, <2>3, Zenon
<1> HIDE DEF Below
<1>3. ASSUME NEW k \in 1 .. n PROVE (CHOOSE x \in S : Below(x) = k - 1) = s[k]
  <2> DEFINE c == CHOOSE x \in S : Below(x) = k - 1
  <2>1. s[k] \in S /\ Below(s[k]) = k - 1 BY <1>2
  <2>2. c \in S /\ Below(c) = k - 1
    <3> HIDE DEF S
    <3> QED BY <2>1
  <2> HIDE DEF c
  <2>3. PICK l \in 1 .. n : c = s[l] BY <2>2
  <2>4. l - 1 = k - 1 BY <1>2, <2>2, <2>3
  <2>5. l = k BY <2>4
  <2> QED BY <2>3, <2>5 DEF c
<1>4. InOrder(S) = [k \in 1 .. n |-> CHOOSE x \in S : Below(x) = k - 1]
  BY <1>1 DEF InOrder, Below
<1> HIDE DEF S
<1>5. InOrder(S) = [k \in 1 .. n |-> s[k]] BY <1>3, <1>4
<1> QED BY <1>5 DEF S

\* A list of the elements of S in order.
Ordered(s, n, S) ==
  /\ s \in [1 .. n -> S]
  /\ \A k, l \in 1 .. n : k < l => s[k] < s[l]
  /\ S = {s[k] : k \in 1 .. n}

\* An element above all others comes last.
LEMMA OrderedLast ==
  ASSUME NEW S, S \subseteq Int, NEW n \in Nat, NEW s, Ordered(s, n, S),
         NEW x \in Int, \A y \in S : y < x
  PROVE  Ordered([k \in 1 .. n + 1 |-> IF k = n + 1 THEN x ELSE s[k]], n + 1, S \cup {x})
<1> DEFINE t == [k \in 1 .. n + 1 |-> IF k = n + 1 THEN x ELSE s[k]]
           T == S \cup {x}
<1>1. \A k \in 1 .. n + 1 : k # n + 1 => k \in 1 .. n OBVIOUS
<1>2. \A k \in 1 .. n : k \in 1 .. n + 1 /\ k # n + 1 /\ t[k] = s[k] OBVIOUS
<1>3. n + 1 \in 1 .. n + 1 /\ t[n + 1] = x OBVIOUS
<1>4. t \in [1 .. n + 1 -> T] BY <1>1 DEF Ordered
<1>5. ASSUME NEW k \in 1 .. n + 1, NEW l \in 1 .. n + 1, k < l PROVE t[k] < t[l]
  <2>1. k \in 1 .. n BY <1>5
  <2>2. CASE l = n + 1
    <3>1. t[k] = s[k] /\ s[k] \in S BY <1>2, <2>1 DEF Ordered
    <3> HIDE DEF t
    <3> QED BY <1>3, <2>2, <3>1
  <2>3. CASE l # n + 1
    <3>1. l \in 1 .. n BY <1>1, <2>3
    <3>2. t[k] = s[k] /\ t[l] = s[l] BY <1>2, <2>1, <3>1
    <3> HIDE DEF t
    <3> QED BY <1>5, <2>1, <3>1, <3>2 DEF Ordered
  <2> QED BY <2>2, <2>3
<1>6. T = {t[k] : k \in 1 .. n + 1}
  <2>1. ASSUME NEW y \in S PROVE \E k \in 1 .. n + 1 : t[k] = y
    <3>1. PICK k \in 1 .. n : s[k] = y BY DEF Ordered
    <3> QED BY <1>2, <3>1
  <2> HIDE DEF t
  <2>2. \A k \in 1 .. n + 1 : t[k] \in T BY <1>4
  <2> QED BY <1>3, <2>1, <2>2
<1> QED BY <1>4, <1>5, <1>6 DEF Ordered

\* Every bounded set of naturals can be put in order.
LEMMA OrderedExists ==
  ASSUME NEW b \in Nat, NEW S, S \subseteq 0 .. b - 1
  PROVE  \E n \in Nat : \E s : Ordered(s, n, S)
<1> DEFINE Listed(U) == \E n \in Nat : \E s : Ordered(s, n, U)
           wrong == {c \in Nat : \E U \in SUBSET (0 .. c - 1) : ~Listed(U)}
<1> SUFFICES ASSUME wrong # {} PROVE FALSE OBVIOUS
<1>1. PICK c \in wrong : \A d \in wrong : c <= d
  <2>1. wrong \subseteq Nat OBVIOUS
  <2> HIDE DEF wrong
  <2> QED BY <2>1, LeastNatural
<1>2. PICK U \in SUBSET (0 .. c - 1) : ~Listed(U) BY <1>1
<1>3. c # 0
  <2> SUFFICES ASSUME c = 0 PROVE FALSE OBVIOUS
  <2>1. U = {} /\ 1 .. 0 = {} /\ 0 \in Nat OBVIOUS
  <2>2. Ordered([k \in 1 .. 0 |-> 0], 0, U) BY <2>1 DEF Ordered
  <2> QED BY <1>2, <2>1, <2>2
<1> DEFINE x == c - 1
           V == U \ {x}
<1>4. x \in Nat /\ x \notin wrong /\ V \in SUBSET (0 .. x - 1)
  <2>1. c \in Nat BY <1>1
  <2>2. x \in Nat /\ ~(c <= x) BY <1>3, <2>1
  <2>3. V \subseteq 0 .. x - 1 BY <2>1
  <2> HIDE DEF wrong, x, V
  <2> QED BY <1>1, <2>2, <2>3
<1>5. Listed(V) BY <1>4
<1>6. PICK n \in Nat : \E s : Ordered(s, n, V) BY <1>5
<1>7. PICK s : Ordered(s, n, V) BY <1>6
<1>8. CASE x \in U
  <2>1. V \cup {x} = U BY <1>8
  <2>2. V \subseteq Int /\ x \in Int /\ \A y \in V : y < x BY <1>4
  <2> HIDE DEF x, V
  <2>3. Ordered([k \in 1 .. n + 1 |-> IF k = n + 1 THEN x ELSE s[k]], n + 1, V \cup {x})
    BY <1>7, <2>2, OrderedLast
  <2>4. n + 1 \in Nat OBVIOUS
  <2> QED BY <1>2, <2>1, <2>3, <2>4
<1>9. CASE x \notin U
  <2>1. V = U BY <1>9
  <2> QED BY <1>2, <1>6, <2>1
<1> QED BY <1>8, <1>9

\* InOrder is that list, and the one with an element above all others behind it.
LEMMA InOrderLast ==
  ASSUME NEW b \in Nat, NEW S, S \subseteq 0 .. b - 1
  PROVE  \E n \in Nat :
           /\ Ordered(InOrder(S), n, S)
           /\ \A x \in Int : (\A y \in S : y < x) =>
                InOrder(S \cup {x}) =
                  [k \in 1 .. n + 1 |-> IF k = n + 1 THEN x ELSE InOrder(S)[k]]
<1>1. PICK n \in Nat : \E s : Ordered(s, n, S) BY OrderedExists
<1>2. PICK s : Ordered(s, n, S) BY <1>1
<1>3. ASSUME NEW m \in Nat, NEW t, NEW U, U \subseteq Int, Ordered(t, m, U)
      PROVE  InOrder(U) = t
  <2>1. t \in [1 .. m -> Int] /\ (\A k, l \in 1 .. m : k < l => t[k] < t[l])
        /\ U = {t[k] : k \in 1 .. m}
    BY <1>3 DEF Ordered
  <2> QED BY <2>1, InOrderIs
<1>4. S \subseteq Int OBVIOUS
<1>5. InOrder(S) = s BY <1>2, <1>3, <1>4
<1>6. ASSUME NEW x \in Int, \A y \in S : y < x
      PROVE  InOrder(S \cup {x}) = [k \in 1 .. n + 1 |-> IF k = n + 1 THEN x ELSE s[k]]
  <2>1. n + 1 \in Nat /\ S \cup {x} \subseteq Int BY <1>4
  <2>2. Ordered([k \in 1 .. n + 1 |-> IF k = n + 1 THEN x ELSE s[k]], n + 1, S \cup {x})
    BY <1>2, <1>4, <1>6, OrderedLast
  <2> QED BY <1>3, <2>1, <2>2
<1> QED BY <1>2, <1>5, <1>6

-----------------------------------------------------------------------------
(* Sequences in one.                                                       *)

\* Sequences one behind the other, as SequencesExt's FlattenSeq has them.
Concatenated(seqs) ==
  LET flat[j \in 1 .. Len(seqs)] == IF j = 1 THEN seqs[j] ELSE flat[j - 1] \o seqs[j]
  IN IF Len(seqs) = 0 THEN seqs ELSE flat[Len(seqs)]

\* They are the last of their prefixes.
LEMMA FlattenedBy ==
  ASSUME NEW S, NEW seqs \in Seq(Seq(S)), Len(seqs) # 0
  PROVE  \E g \in [Nat -> Seq(S)] :
           /\ g[0] = <<>>
           /\ \A k \in 0 .. Len(seqs) - 1 : g[k + 1] = g[k] \o seqs[k + 1]
           /\ Concatenated(seqs) = g[Len(seqs)]
<1> DEFINE n == Len(seqs)
           A == Seq(S)
           H == [k \in Nat |-> [g \in A |-> IF k < n THEN g \o seqs[k + 1] ELSE g]]
           Solves(h) == h = [k \in 1 .. n |-> IF k = 1 THEN seqs[k] ELSE h[k - 1] \o seqs[k]]
<1>1. n \in Nat \ {0} /\ \A k \in 1 .. n : seqs[k] \in A BY LenProperties, ElementOfSeq
<1>2. H \in [Nat -> [A -> A]] /\ <<>> \in A
  <2>1. \A k \in Nat : k < n => seqs[k + 1] \in A BY <1>1
  <2> HIDE DEF n
  <2> SUFFICES ASSUME NEW k \in Nat, NEW g \in A
               PROVE  (IF k < n THEN g \o seqs[k + 1] ELSE g) \in A
    BY EmptySeq
  <2> QED BY <2>1, ConcatProperties
<1>3. PICK f : IsRecursion(f, A, <<>>, H)
  <2> HIDE DEF H, A
  <2> QED BY <1>2, RecursionExists
<1>4. f \in [Nat -> A] /\ f[0] = <<>> /\ \A k \in 0 .. n - 1 : f[k + 1] = f[k] \o seqs[k + 1]
  <2>1. f \in [Nat -> A] /\ f[0] = <<>> /\ \A k \in Nat : f[k + 1] = H[k][f[k]]
    BY <1>3 DEF IsRecursion
  <2> HIDE DEF n, A
  <2> SUFFICES ASSUME NEW k \in 0 .. n - 1 PROVE f[k + 1] = f[k] \o seqs[k + 1] BY <2>1
  <2>2. k \in Nat /\ k < n /\ f[k] \in A BY <1>1, <2>1
  <2>3. H[k][f[k]] = f[k] \o seqs[k + 1] BY <2>2
  <2> QED BY <2>1, <2>2, <2>3
<1>5. f[1] = seqs[1]
  <2>0. 0 \in 0 .. n - 1 /\ 0 + 1 = 1 BY <1>1
  <2>1. f[1] = f[0] \o seqs[1] /\ f[0] = <<>>
    <3> HIDE DEF n, A
    <3> QED BY <1>4, <2>0
  <2>2. seqs[1] \in A BY <1>1
  <2>3. <<>> \o seqs[1] = seqs[1] BY <2>2, ConcatEmptySeq
  <2> QED BY <2>1, <2>3
<1>6. Solves([k \in 1 .. n |-> f[k]])
  <2> SUFFICES ASSUME NEW k \in 1 .. n, k # 1
               PROVE  f[k] = [l \in 1 .. n |-> f[l]][k - 1] \o seqs[k]
    BY <1>5
  <2>1. k - 1 \in 1 .. n /\ k - 1 \in 0 .. n - 1 /\ (k - 1) + 1 = k BY <1>1
  <2> QED BY <1>4, <2>1
<1> DEFINE h == CHOOSE it : Solves(it)
<1>7. Solves(h)
  <2> HIDE DEF Solves
  <2> QED BY <1>6
<1>8. Concatenated(seqs) = h[n] BY SMTT(30) DEF Concatenated
<1>9. \A k \in 1 .. n : h[k] = IF k = 1 THEN seqs[k] ELSE h[k - 1] \o seqs[k] BY <1>7
<1> HIDE DEF h, n, H, A
<1> DEFINE wrong == {k \in 1 .. n : h[k] # f[k]}
<1>10. wrong = {}
  <2> SUFFICES ASSUME wrong # {} PROVE FALSE OBVIOUS
  <2>1. PICK k \in wrong : \A y \in wrong : k <= y
    <3>1. wrong \subseteq Nat OBVIOUS
    <3> HIDE DEF wrong
    <3> QED BY <3>1, LeastNatural
  <2>2. k \in 1 .. n /\ h[k] # f[k] OBVIOUS
  <2>3. k # 1 BY <1>5, <1>9, <2>2
  <2>4. k - 1 \in 1 .. n /\ k - 1 \in 0 .. n - 1 /\ (k - 1) + 1 = k /\ ~(k <= k - 1)
    BY <1>1, <2>2, <2>3
  <2>5. h[k - 1] = f[k - 1] BY <2>1, <2>4
  <2>6. f[k] = f[k - 1] \o seqs[k] BY <1>4, <2>4
  <2> QED BY <1>9, <2>2, <2>3, <2>5, <2>6
<1>11. h[n] = f[n] BY <1>1, <1>10
<1> QED BY <1>4, <1>8, <1>11 DEF n, A

\* Flattening keeps the elements: those of the result are of its parts, and a part
\* that has one leaves none out.
LEMMA FlattenedElements ==
  ASSUME NEW S, NEW seqs \in Seq(Seq(S))
  PROVE  /\ Concatenated(seqs) \in Seq(S)
         /\ \A x \in Range(Concatenated(seqs)) : \E j \in 1 .. Len(seqs) : x \in Range(seqs[j])
         /\ \A j \in 1 .. Len(seqs) : Len(seqs[j]) <= Len(Concatenated(seqs))
<1>0. Len(seqs) \in Nat /\ \A j \in 1 .. Len(seqs) : seqs[j] \in Seq(S) BY LenProperties, ElementOfSeq
<1>1. CASE Len(seqs) = 0
  <2>1. seqs = <<>> BY <1>1, EmptySeq
  <2>2. Concatenated(seqs) = <<>> BY <1>1, <2>1 DEF Concatenated
  <2>3. Range(Concatenated(seqs)) = {} BY <2>2 DEF Range
  <2> QED BY <1>1, <2>2, <2>3, EmptySeq
<1>2. CASE Len(seqs) # 0
  <2> DEFINE n == Len(seqs)
  <2>1. PICK g \in [Nat -> Seq(S)] :
          /\ g[0] = <<>>
          /\ \A m \in 0 .. n - 1 : g[m + 1] = g[m] \o seqs[m + 1]
          /\ Concatenated(seqs) = g[n]
    BY <1>2, FlattenedBy
  <2> HIDE DEF n
  <2> DEFINE Good(m) == /\ \A x \in Range(g[m]) : \E j \in 1 .. n : x \in Range(seqs[j])
                        /\ \A j \in 1 .. m : Len(seqs[j]) <= Len(g[m])
             bad == {m \in 0 .. n : ~Good(m)}
  <2>2. n \in Nat BY <1>0 DEF n
  <2>3. bad = {}
    <3> SUFFICES ASSUME bad # {} PROVE FALSE OBVIOUS
    <3>1. PICK m \in bad : \A l \in bad : m <= l
      <4>1. bad \subseteq Nat BY <2>2
      <4> HIDE DEF bad
      <4> QED BY <4>1, LeastNatural
    <3>2. m # 0
      <4>1. Range(g[0]) = {} BY <2>1 DEF Range
      <4>2. Good(0) BY <4>1
      <4> QED BY <3>1, <4>2
    <3>3. /\ m \in 0 .. n /\ m - 1 \in 0 .. n - 1 /\ m - 1 \in 0 .. n /\ (m - 1) + 1 = m /\ m \in 1 .. n
          /\ ~(m <= m - 1) /\ m - 1 \in Nat
      BY <2>2, <3>1, <3>2
    <3>4. m - 1 \notin bad
      <4> HIDE DEF bad
      <4> QED BY <3>1, <3>3
    <3>5. Good(m - 1) BY <3>3, <3>4
    <3>6. PICK a \in Seq(S) : a = g[m - 1] BY <3>3
    <3>7. PICK b \in Seq(S) : b = seqs[m] BY <1>0, <3>3 DEF n
    <3>8. g[m] = a \o b
      <4> HIDE DEF bad, Good
      <4> QED BY <2>1, <3>3, <3>6, <3>7
    <3>9. /\ a \o b \in Seq(S) /\ Len(a \o b) = Len(a) + Len(b) /\ Len(a) \in Nat /\ Len(b) \in Nat
          /\ \A j \in 1 .. Len(a) + Len(b) : (a \o b)[j] = IF j <= Len(a) THEN a[j] ELSE b[j - Len(a)]
          /\ DOMAIN (a \o b) = 1 .. Len(a) + Len(b) /\ DOMAIN a = 1 .. Len(a) /\ DOMAIN b = 1 .. Len(b)
      <4>1. a \o b \in Seq(S) /\ Len(a \o b) = Len(a) + Len(b) BY ConcatProperties
      <4>2. \A j \in 1 .. Len(a) + Len(b) : (a \o b)[j] = IF j <= Len(a) THEN a[j] ELSE b[j - Len(a)]
        BY ConcatProperties
      <4>3. DOMAIN (a \o b) = 1 .. Len(a \o b) BY <4>1, LenProperties
      <4>4. DOMAIN a = 1 .. Len(a) /\ DOMAIN b = 1 .. Len(b) /\ Len(a) \in Nat /\ Len(b) \in Nat
        BY LenProperties
      <4> QED BY <4>1, <4>2, <4>3, <4>4
    <3>10. ASSUME NEW x \in Range(g[m]) PROVE \E j \in 1 .. n : x \in Range(seqs[j])
      <4>1. PICK j \in 1 .. Len(a) + Len(b) : x = (a \o b)[j] BY <3>8, <3>9 DEF Range
      <4>2. CASE j <= Len(a)
        <5>1. x = a[j] /\ j \in DOMAIN a BY <3>9, <4>1, <4>2
        <5>2. x \in Range(g[m - 1]) BY <3>6, <5>1 DEF Range
        <5> QED BY <3>5, <5>2
      <4>3. CASE ~(j <= Len(a))
        <5>1. x = b[j - Len(a)] /\ j - Len(a) \in DOMAIN b BY <3>9, <4>1, <4>3
        <5>2. x \in Range(seqs[m]) BY <3>7, <5>1 DEF Range
        <5> QED BY <3>3, <5>2
      <4> QED BY <4>2, <4>3
    <3>11. ASSUME NEW j \in 1 .. m PROVE Len(seqs[j]) <= Len(g[m])
      <4>0. \A i \in 1 .. m - 1 : Len(seqs[i]) <= Len(a) BY <3>5, <3>6
      <4> HIDE DEF bad, Good
      <4>1. Len(g[m]) = Len(a) + Len(b) BY <3>8, <3>9
      <4>2. CASE j = m
        <5>1. Len(seqs[j]) = Len(b) BY <3>7, <4>2
        <5> QED BY <3>9, <4>1, <5>1
      <4>3. CASE j # m
        <5>1. j \in 1 .. m - 1 BY <3>3, <4>3
        <5>2. Len(seqs[j]) <= Len(a) BY <4>0, <5>1
        <5>3. j \in 1 .. Len(seqs) BY <3>3, <5>1, <2>2 DEF n
        <5>4. Len(seqs[j]) \in Nat BY <1>0, <5>3, LenProperties
        <5>5. Len(a) \in Nat /\ Len(b) \in Nat BY <3>9
        <5>6. PICK x \in Nat : x = Len(seqs[j]) BY <5>4
        <5>7. PICK y \in Nat : y = Len(a) BY <5>5
        <5>8. PICK z \in Nat : z = Len(b) BY <5>5
        <5>9. x <= y BY <5>2, <5>6, <5>7
        <5>10. x <= y + z BY <5>9
        <5> QED BY <4>1, <5>6, <5>7, <5>8, <5>10
      <4> QED BY <4>2, <4>3
    <3>12. Good(m) BY <3>10, <3>11
    <3> QED BY <3>1, <3>12
  <2>4. n \in 0 .. n BY <2>2
  <2>5. Good(n)
    <3> HIDE DEF Good
    <3> QED BY <2>3, <2>4
  <2>6. g[n] \in Seq(S) BY <2>2
  <2> HIDE DEF bad
  <2> QED BY <2>1, <2>5, <2>6 DEF n
<1> QED BY <1>1, <1>2
=============================================================================

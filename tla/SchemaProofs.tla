---------------------------- MODULE SchemaProofs ----------------------------
(***************************************************************************)
(* Proofs about a schema's elements and their names.                       *)
(*                                                                         *)
(* The schema walk of SchemaTree.  WalkInvariant says that the stack       *)
(* BuildLeaves keeps is, at every element, the chain of groups that        *)
(* enclose it, root first; the parents, paths and leaves recorded so far   *)
(* are then the ones the layout of the schema calls for, and the paths     *)
(* tell the leaves apart.                                                  *)
(*                                                                         *)
(* The hash table of SchemaIndex, for every set of schemas, every hash     *)
(* function and every sequence of lookups: the type invariant, the probe   *)
(* chains and the answer of a lookup.  Up to there BuildPath and the walk  *)
(* stay opaque: all that matters of them is that they no longer change     *)
(* once the table is being filled.  The walk's own invariant then gives    *)
(* the path that a reader rebuilds, the first leaf as the answer, and the  *)
(* name map that the index implements.                                     *)
(*                                                                         *)
(* The name table of a jump table, JumpNames.  Each slot is free or has    *)
(* the bytes of one element, wide enough for its number, and a probe       *)
(* reaches it past elements inserted earlier only; so every path leads to  *)
(* its own column, by name and by hash, and so does every field id.        *)
(***************************************************************************)
EXTENDS SchemaIndex, JumpNames, NumberFacts, FiniteSetTheorems, SequenceTheorems

-----------------------------------------------------------------------------
(* Operators of the walk.                                                  *)

\* The greatest element, whatever set it is the greatest of.
LEMMA MaxIs ==
  ASSUME NEW S, S \subseteq Int, NEW m \in S, \A y \in S : y <= m
  PROVE  Max(S) = m
<1>1. m \in S /\ \A y \in S : m >= y OBVIOUS
<1>2. Max(S) \in S /\ \A y \in S : Max(S) >= y BY <1>1 DEF Max
<1>3. m \in Int /\ Max(S) \in Int /\ Max(S) >= m /\ m >= Max(S) BY <1>1, <1>2
<1> QED BY <1>3

\* The least element of a set of naturals is the Min of it.
LEMMA MinIs ==
  ASSUME NEW S, S \subseteq Nat, S # {}
  PROVE  /\ Min(S) \in S /\ \A y \in S : Min(S) <= y
         /\ \A m \in S : (\A y \in S : m <= y) => Min(S) = m
<1>1. PICK l \in S : \A y \in S : l <= y BY LeastNatural
<1>2. Min(S) \in S /\ \A y \in S : Min(S) <= y BY <1>1 DEF Min
<1>3. ASSUME NEW m \in S, \A y \in S : m <= y PROVE Min(S) = m
  <2>1. m \in Nat /\ Min(S) \in Nat /\ m <= Min(S) /\ Min(S) <= m BY <1>2, <1>3
  <2> QED BY <2>1
<1> QED BY <1>2, <1>3

\* What is known of the schema being walked.
LEMMA SchemaTyped ==
  ASSUME schema \in Schemas
  PROVE  /\ schema.size \in Nat
         /\ schema.num_children \in [Elements -> Int]
         /\ \A e \in Elements : Segment(e) \in Seq(Symbols)
<1>1. /\ schema.size \in Nat
      /\ schema.name \in [0 .. schema.size - 1 -> Names]
      /\ schema.num_children \in [0 .. schema.size - 1 -> Int]
  BY SchemasAssumption
<1> QED BY <1>1, LowerTextAssumption DEF Elements, Segment

\* The children an element is followed by; a negative count stands for none.
Children(j) == Max({0, schema.num_children[j]})

LEMMA ChildrenIs ==
  ASSUME schema \in Schemas, NEW j \in Elements
  PROVE  Children(j) = IF schema.num_children[j] > 0 THEN schema.num_children[j] ELSE 0
<1>1. schema.num_children[j] \in Int BY SchemaTyped
<1> DEFINE c == schema.num_children[j]
           S == {0, c}
<1> HIDE DEF c
<1>2. S \subseteq Int /\ 0 \in S /\ c \in S BY <1>1 DEF c
<1>3. CASE c > 0
  <2>1. \A y \in S : y <= c BY <1>1, <1>3 DEF c
  <2> HIDE DEF S
  <2>2. Max(S) = c BY <1>2, <2>1, MaxIs
  <2> QED BY <1>3, <2>2 DEF Children, c, S
<1>4. CASE ~(c > 0)
  <2>1. \A y \in S : y <= 0 BY <1>1, <1>4 DEF c
  <2> HIDE DEF S
  <2>2. Max(S) = 0 BY <1>2, <2>1, MaxIs
  <2> QED BY <1>4, <2>2 DEF Children, c, S
<1> QED BY <1>3, <1>4 DEF c

\* The expected elements, by recursion over the elements.
LEMMA ExpectedSteps ==
  ASSUME schema \in Schemas, NEW i \in Elements
  PROVE  /\ Expected(i, i) = 1
         /\ \A j \in i .. schema.size : Expected(i, j) \in Int
         /\ \A j \in i .. schema.size - 1 : Expected(i, j + 1) = Expected(i, j) - 1 + Children(j)
<1> DEFINE n == schema.size
           H == [m \in Nat |-> [v \in Int |->
                   IF i + m < n THEN v - 1 + Children(i + m) ELSE v]]
<1>1. n \in Nat /\ i \in 0 .. n - 1 /\ \A j \in 0 .. n - 1 : Children(j) \in Int
  <2>1. n \in Nat /\ i \in 0 .. n - 1 BY SchemaTyped DEF Elements
  <2>2. ASSUME NEW j \in 0 .. n - 1 PROVE Children(j) \in Int
    <3>1. j \in Elements BY <2>2 DEF Elements
    <3>2. schema.num_children[j] \in Int BY <3>1, SchemaTyped
    <3> QED BY <3>1, <3>2, ChildrenIs
  <2> QED BY <2>1, <2>2
<1>2. H \in [Nat -> [Int -> Int]]
  <2> HIDE DEF n
  <2>1. ASSUME NEW m \in Nat, NEW v \in Int
        PROVE  (IF i + m < n THEN v - 1 + Children(i + m) ELSE v) \in Int
    <3>1. i + m < n => i + m \in 0 .. n - 1 BY <1>1
    <3>2. i + m < n => Children(i + m) \in Int BY <1>1, <3>1
    <3> QED BY <3>2
  <2> QED BY <2>1
<1>3. PICK f \in [Nat -> Int] : f[0] = 1 /\ \A m \in Nat : f[m + 1] = H[m][f[m]]
  <2> HIDE DEF H
  <2>1. 1 \in Int OBVIOUS
  <2>2. \E f : IsRecursion(f, Int, 1, H) BY <1>2, <2>1, RecursionExists
  <2> QED BY <2>2 DEF IsRecursion
<1>4. ASSUME NEW m \in Nat, i + m < n PROVE f[m + 1] = f[m] - 1 + Children(i + m)
  BY <1>3, <1>4
<1> HIDE DEF H
<1> HIDE DEF n
<1>5. ASSUME NEW j \in i .. n PROVE Expected(i, j) = f[j - i]
  <2> DEFINE Body(r) == [e \in i .. j |->
                           IF e = i THEN 1
                           ELSE r[e - 1] - 1 + Max({0, schema.num_children[e - 1]})]
             room == CHOOSE r : r = Body(r)
             g == [e \in i .. j |-> f[e - i]]
  <2>1. Expected(i, j) = room[j] BY DEF Expected
  <2>2. i \in Nat /\ j \in Nat /\ i <= j /\ j <= n BY <1>1
  <2>3. g = Body(g)
    <3> SUFFICES ASSUME NEW e \in i .. j
                 PROVE  f[e - i] = IF e = i THEN 1
                                   ELSE g[e - 1] - 1 + Max({0, schema.num_children[e - 1]})
      OBVIOUS
    <3>1. CASE e = i
      <4>1. e - i = 0 BY <2>2, <3>1
      <4> QED BY <1>3, <3>1, <4>1
    <3>2. CASE e # i
      <4>1. /\ e - 1 \in i .. j /\ (e - 1) - i \in Nat /\ i + ((e - 1) - i) < n
            /\ ((e - 1) - i) + 1 = e - i /\ i + ((e - 1) - i) = e - 1
        BY <1>1, <2>2, <3>2
      <4>2. f[e - i] = f[(e - 1) - i] - 1 + Children(e - 1)
        BY <1>4, <4>1
      <4>3. g[e - 1] = f[(e - 1) - i] BY <4>1
      <4> QED BY <3>2, <4>2, <4>3 DEF Children
    <3> QED BY <3>1, <3>2
  <2> HIDE DEF Body, g
  <2>4. room = Body(room) BY <2>3
  <2> HIDE DEF room
  <2> DEFINE D == {e \in i .. j : room[e] # f[e - i]}
  <2>5. D = {}
    <3> SUFFICES ASSUME D # {} PROVE FALSE OBVIOUS
    <3>1. PICK e \in D : \A y \in D : e <= y
      <4>1. D \subseteq Nat BY <2>2
      <4> HIDE DEF D
      <4> QED BY <4>1, LeastNatural
    <3>2. room[e] = IF e = i THEN 1
                    ELSE room[e - 1] - 1 + Max({0, schema.num_children[e - 1]})
      BY <2>4, <3>1 DEF Body
    <3>3. e # i
      <4>1. e = i => room[e] = 1 /\ e - i = 0 BY <2>2, <3>2
      <4> QED BY <1>3, <3>1, <4>1
    <3>4. /\ e - 1 \in i .. j /\ (e - 1) - i \in Nat /\ i + ((e - 1) - i) < n
          /\ ((e - 1) - i) + 1 = e - i /\ i + ((e - 1) - i) = e - 1 /\ e - 1 \notin D
      BY <1>1, <2>2, <3>1, <3>3
    <3>5. f[e - i] = f[(e - 1) - i] - 1 + Children(e - 1) BY <1>4, <3>4
    <3>6. room[e - 1] = f[(e - 1) - i] BY <3>4
    <3> QED BY <3>1, <3>2, <3>3, <3>5, <3>6 DEF Children
  <2> QED BY <2>1, <2>2, <2>5
<1>6. Expected(i, i) = 1
  <2>1. i \in i .. n /\ i - i = 0 BY <1>1
  <2> QED BY <1>3, <1>5, <2>1
<1>7. ASSUME NEW j \in i .. n PROVE Expected(i, j) \in Int
  <2>1. j - i \in Nat BY <1>1
  <2> QED BY <1>3, <1>5, <2>1
<1>8. ASSUME NEW j \in i .. n - 1 PROVE Expected(i, j + 1) = Expected(i, j) - 1 + Children(j)
  <2>1. /\ j \in i .. n /\ j + 1 \in i .. n /\ j - i \in Nat
        /\ i + (j - i) < n /\ i + (j - i) = j /\ (j + 1) - i = (j - i) + 1
    BY <1>1
  <2>2. Expected(i, j) = f[j - i] /\ Expected(i, j + 1) = f[(j + 1) - i] BY <1>5, <2>1
  <2>3. f[(j - i) + 1] = f[j - i] - 1 + Children(i + (j - i)) BY <1>4, <2>1
  <2> QED BY <2>1, <2>2, <2>3
<1> QED BY <1>6, <1>7, <1>8 DEF n

\* What only reads the schema does not change with the rest of the state.
LEMMA SchemaFixed ==
  ASSUME schema' = schema
  PROVE  /\ Elements' = Elements
         /\ \A e : Segment(e)' = Segment(e)
         /\ \A i, j : Expected(i, j)' = Expected(i, j)
         /\ \A j : Ancestors(j)' = Ancestors(j)
BY DEF Elements, Segment, Expected, Ancestors, Encloses

\* An element encloses the next one when it enclosed this one, or is this one,
\* and still expects an element.
LEMMA AncestorsStep ==
  ASSUME schema \in Schemas, NEW c \in Elements
  PROVE  Ancestors(c + 1) = {i \in Ancestors(c) \cup {c} : Expected(i, c + 1) > 0}
<1>1. c \in Nat BY DEF Elements
<1>2. ASSUME NEW i \in 0 .. c
      PROVE  Encloses(i, c + 1) <=> (i = c \/ Encloses(i, c)) /\ Expected(i, c + 1) > 0
  <2>1. i + 1 .. c + 1 = (i + 1 .. c) \cup {c + 1} BY <1>1, <1>2
  <2>2. i = c => i + 1 .. c = {} BY <1>1, <1>2
  <2>3. i < c + 1 /\ (i # c => i < c) BY <1>1, <1>2
  <2> QED BY <2>1, <2>2, <2>3 DEF Encloses
<1>3. 0 .. (c + 1) - 1 = (0 .. c - 1) \cup {c} BY <1>1
<1>4. 0 .. c = (0 .. c - 1) \cup {c} BY <1>1
<1>5. c \notin 0 .. c - 1 BY <1>1
<1>6. ASSUME NEW i
      PROVE  i \in Ancestors(c + 1) <=>
               i \in Ancestors(c) \cup {c} /\ Expected(i, c + 1) > 0
  <2>1. i \in Ancestors(c + 1) <=> i \in (0 .. c - 1) \cup {c} /\ Encloses(i, c + 1)
    BY <1>3 DEF Ancestors
  <2>2. i \in Ancestors(c) <=> i \in 0 .. c - 1 /\ Encloses(i, c) BY DEF Ancestors
  <2>3. CASE i \in 0 .. c BY <1>2, <1>4, <1>5, <2>1, <2>2, <2>3
  <2>4. CASE i \notin 0 .. c BY <1>4, <2>1, <2>2, <2>4
  <2> QED BY <2>3, <2>4
<1> QED BY <1>6

\* An enclosing element expects one, has children, and comes before.
LEMMA AncestorFacts ==
  ASSUME schema \in Schemas, NEW j \in 0 .. schema.size, NEW i \in Ancestors(j)
  PROVE  i \in Elements /\ i < j /\ Expected(i, j) > 0 /\ schema.num_children[i] > 0
<1>1. schema.size \in Nat BY SchemaTyped
<1>2. /\ i \in 0 .. j - 1 /\ i < j
      /\ \A e \in i + 1 .. j : Expected(i, e) > 0
  BY DEF Ancestors, Encloses
<1>3. i \in Elements /\ j \in i + 1 .. j /\ i + 1 \in i + 1 .. j BY <1>1, <1>2 DEF Elements
<1>4. Expected(i, j) > 0 /\ Expected(i, i + 1) > 0 BY <1>2, <1>3
<1>5. Expected(i, i + 1) = Expected(i, i) - 1 + Children(i)
  <2>1. i \in i .. schema.size - 1 BY <1>1, <1>2
  <2> QED BY <1>3, <2>1, ExpectedSteps
<1>6. Expected(i, i) = 1 BY <1>3, ExpectedSteps
<1>7. schema.num_children[i] \in Int BY <1>3, SchemaTyped
<1>8. Children(i) = IF schema.num_children[i] > 0 THEN schema.num_children[i] ELSE 0
  BY <1>3, ChildrenIs
<1>9. schema.num_children[i] > 0 BY <1>4, <1>5, <1>6, <1>7, <1>8
<1> QED BY <1>2, <1>3, <1>4, <1>9

-----------------------------------------------------------------------------
(* The stack.                                                              *)

\* Each group waits for what it expects less what the one inside it expects: the
\* groups up to the last that still waits expect something, the others nothing.
LEMMA WaitingGroups ==
  ASSUME NEW N \in Nat, NEW L \in [1 .. N -> Nat], NEW X \in [1 .. N -> Int],
         \A k \in 1 .. N : L[k] = X[k] - IF k = N THEN 0 ELSE X[k + 1],
         NEW K \in 0 .. N, K > 0 => L[K] # 0, \A k \in K + 1 .. N : L[k] = 0
  PROVE  \A k \in 1 .. N : (X[k] > 0 <=> k <= K) /\ (k > K => X[k] = 0)
<1>1. ASSUME NEW k \in K + 1 .. N PROVE X[k] = 0
  <2> DEFINE S == {x \in 1 .. N : x > K /\ X[x] # 0}
  <2>0. k \in 1 .. N /\ k > K BY <1>1
  <2>1. SUFFICES ASSUME S # {} PROVE FALSE
    BY <2>0
  <2>2. PICK x \in S : \A y \in S : y <= x
    <3>1. S \subseteq 0 .. N OBVIOUS
    <3> HIDE DEF S
    <3> QED BY <2>1, <3>1, GreatestNatural
  <2>3. L[x] = 0 BY <2>2
  <2>4. CASE x = N BY <2>2, <2>3, <2>4
  <2>5. CASE x # N
    <3>1. x + 1 \in 1 .. N /\ x + 1 > K /\ x + 1 \notin S BY <2>2, <2>5
    <3>2. X[x + 1] = 0 BY <3>1
    <3> QED BY <2>2, <2>3, <2>5, <3>2
  <2> QED BY <2>4, <2>5
<1>2. ASSUME NEW k \in 1 .. K PROVE X[k] > 0
  <2> DEFINE S == {x \in 1 .. K : ~(X[x] > 0)}
  <2>1. SUFFICES ASSUME S # {} PROVE FALSE
    BY <1>2
  <2>2. PICK x \in S : \A y \in S : y <= x
    <3>1. S \subseteq 0 .. N OBVIOUS
    <3> HIDE DEF S
    <3> QED BY <2>1, <3>1, GreatestNatural
  <2>3. x \in 1 .. N /\ L[x] \in Nat /\ X[x] \in Int BY <2>2
  <2>4. CASE x = K
    <3>1. L[x] > 0 BY <2>3, <2>4
    <3>2. x # N => X[x + 1] = 0 BY <1>1, <2>3, <2>4
    <3> QED BY <2>2, <2>3, <3>1, <3>2
  <2>5. CASE x # K
    <3>1. x + 1 \in 1 .. K /\ x + 1 \notin S /\ x # N BY <2>2, <2>5
    <3>2. X[x + 1] > 0 /\ X[x + 1] \in Int BY <3>1
    <3> QED BY <2>2, <2>3, <3>1, <3>2
  <2> QED BY <2>4, <2>5
<1> QED BY <1>1, <1>2

\* PopFinished cuts the stack behind the last group that still waits.
LEMMA PopFinishedIs ==
  ASSUME NEW T, NEW st \in Seq([elem : T, left : Nat])
  PROVE  \E K \in 0 .. Len(st) :
           /\ PopFinished(st) = SubSeq(st, 1, K)
           /\ K > 0 => st[K].left # 0
           /\ \A k \in K + 1 .. Len(st) : st[k].left = 0
<1> DEFINE S == {0} \cup {k \in DOMAIN st : st[k].left # 0}
<1>1. Len(st) \in Nat /\ DOMAIN st = 1 .. Len(st) OBVIOUS
<1>2. S \subseteq 0 .. Len(st) /\ 0 \in S BY <1>1
<1>3. PICK K \in S : \A y \in S : y <= K
  <2> HIDE DEF S
  <2> QED BY <1>1, <1>2, GreatestNatural
<1>4. Max(S) = K
  <2>1. S \subseteq Int BY <1>1, <1>2
  <2> HIDE DEF S
  <2> QED BY <1>3, <2>1, MaxIs
<1>5. K \in 0 .. Len(st) BY <1>2, <1>3
<1>6. \A k \in K + 1 .. Len(st) : st[k].left = 0
  <2> SUFFICES ASSUME NEW k \in K + 1 .. Len(st), st[k].left # 0 PROVE FALSE
    OBVIOUS
  <2>1. k \in S BY <1>1, <1>5
  <2> QED BY <1>3, <1>5, <2>1
<1>7. K > 0 => st[K].left # 0 BY <1>3
<1>8. PopFinished(st) = SubSeq(st, 1, K) BY <1>4 DEF PopFinished
<1> QED BY <1>5, <1>6, <1>7, <1>8

\* A sequence with one more element.
LEMMA Pushed ==
  ASSUME NEW E, NEW s \in Seq(E), NEW e \in E
  PROVE  /\ Append(s, e) \in Seq(E)
         /\ Len(Append(s, e)) = Len(s) + 1
         /\ \A k \in 1 .. Len(s) : Append(s, e)[k] = s[k]
         /\ Append(s, e)[Len(s) + 1] = e
BY AppendProperties

\* Visiting an element charges the innermost group and opens the element when it
\* has children: the stack still holds what every group waits for, before the
\* finished groups are cut off ...
LEMMA OpenedStack ==
  ASSUME schema \in Schemas, phase = "parents", StackInv, cursor < schema.size
  PROVE  LET st == OpenGroup(ChargeTop(stack), cursor)
             opened == schema.num_children[cursor] > 0
         IN  /\ cursor \in Elements
             /\ st \in Seq([elem : 0 .. cursor, left : Nat])
             /\ Len(st) = IF opened THEN Len(stack) + 1 ELSE Len(stack)
             /\ \A k \in 1 .. Len(stack) : st[k].elem = stack[k].elem
             /\ opened => st[Len(stack) + 1].elem = cursor
             /\ \A k \in 1 .. Len(st) :
                  /\ Expected(st[k].elem, cursor + 1) \in Int
                  /\ st[k].left = Expected(st[k].elem, cursor + 1)
                                  - IF k = Len(st) THEN 0
                                    ELSE Expected(st[k + 1].elem, cursor + 1)
<1> DEFINE c == cursor
           n == Len(stack)
           opened == schema.num_children[c] > 0
           Entry == [elem : 0 .. c, left : Nat]
           st1 == ChargeTop(stack)
           st2 == OpenGroup(st1, c)
<1>1. /\ schema.size \in Nat /\ c \in 0 .. schema.size - 1 /\ c \in Elements
      /\ c \in 0 .. schema.size
      /\ stack \in Seq([elem : 0 .. c - 1, left : Nat])
      /\ Ancestors(c) = {stack[k].elem : k \in DOMAIN stack}
      /\ \A k \in DOMAIN stack :
           stack[k].left = Expected(stack[k].elem, c)
                           - IF k = Len(stack) THEN 0 ELSE Expected(stack[k + 1].elem, c)
  BY SchemaTyped DEF StackInv, Elements
<1>2. /\ n \in Nat /\ DOMAIN stack = 1 .. n /\ n = Len(stack)
      /\ \A k \in 1 .. n : stack[k] \in [elem : 0 .. c - 1, left : Nat]
  <2> DEFINE T == [elem : 0 .. c - 1, left : Nat]
  <2>1. stack \in Seq(T) BY <1>1
  <2> HIDE DEF T
  <2>2. \A k \in 1 .. Len(stack) : stack[k] \in T BY <2>1, ElementOfSeq
  <2> QED BY <2>1, <2>2 DEF T
<1>3. /\ Children(c) \in Nat
      /\ Children(c) = IF opened THEN schema.num_children[c] ELSE 0
      /\ Expected(c, c + 1) = Children(c)
  <2>1. schema.num_children[c] \in Int BY <1>1, SchemaTyped
  <2>2. Children(c) = IF schema.num_children[c] > 0 THEN schema.num_children[c] ELSE 0
    BY <1>1, ChildrenIs
  <2>3. c \in c .. schema.size - 1 BY <1>1
  <2>4. Expected(c, c + 1) = Expected(c, c) - 1 + Children(c) /\ Expected(c, c) = 1
    BY <1>1, <2>3, ExpectedSteps
  <2> QED BY <2>1, <2>2, <2>4
<1> HIDE DEF n
<1>4. ASSUME NEW k \in 1 .. n
      PROVE  /\ stack[k].elem \in Ancestors(c) /\ stack[k].elem \in 0 .. c - 1
             /\ stack[k].left \in Nat
             /\ Expected(stack[k].elem, c) \in Int /\ Expected(stack[k].elem, c) > 0
             /\ Expected(stack[k].elem, c + 1) = Expected(stack[k].elem, c) - 1 + Children(c)
  <2>1. stack[k] \in [elem : 0 .. c - 1, left : Nat] BY <1>2
  <2>2. stack[k].elem \in Ancestors(c) BY <1>1, <1>2
  <2> DEFINE i == stack[k].elem
  <2>3. i \in 0 .. c - 1 /\ i \in Elements /\ Expected(i, c) > 0
    BY <1>1, <2>1, <2>2, AncestorFacts
  <2>4. c \in i .. schema.size - 1 /\ c \in i .. schema.size BY <1>1, <2>3
  <2> HIDE DEF i
  <2>5. Expected(i, c) \in Int /\ Expected(i, c + 1) = Expected(i, c) - 1 + Children(c)
    BY <1>1, <2>3, <2>4, ExpectedSteps
  <2> QED BY <2>1, <2>2, <2>3, <2>5 DEF i
<1>5. n > 0 => stack[n].left = Expected(stack[n].elem, c) /\ stack[n].left > 0
  <2> SUFFICES ASSUME n > 0
               PROVE  stack[n].left = Expected(stack[n].elem, c) /\ stack[n].left > 0
    OBVIOUS
  <2>1. n \in 1 .. n BY <1>2
  <2>2. Expected(stack[n].elem, c) \in Int /\ Expected(stack[n].elem, c) > 0 BY <1>4, <2>1
  <2>3. stack[n].left = Expected(stack[n].elem, c) - 0 BY <1>1, <1>2, <2>1
  <2> QED BY <2>2, <2>3
<1>6. /\ st1 \in Seq(Entry) /\ Len(st1) = n
      /\ \A k \in 1 .. n : /\ st1[k].elem = stack[k].elem
                           /\ st1[k].left = stack[k].left - IF k = n THEN 1 ELSE 0
  <2>1. CASE stack = << >>
    <3>1. n = 0 /\ st1 = << >> BY <1>2, <2>1 DEF ChargeTop
    <3> QED BY <3>1
  <2>2. CASE stack # << >>
    <3>1. n > 0 /\ n \in 1 .. n BY <1>1, <1>2, <2>2
    <3>2. st1 = [k \in 1 .. n |-> IF k = n THEN [stack[k] EXCEPT !.left = @ - 1] ELSE stack[k]]
      BY <1>1, <1>2, <2>2, <3>1 DEF ChargeTop
    <3>3. ASSUME NEW k \in 1 .. n
          PROVE  /\ st1[k] \in Entry /\ st1[k].elem = stack[k].elem
                 /\ st1[k].left = stack[k].left - IF k = n THEN 1 ELSE 0
      <4>1. stack[k] \in [elem : 0 .. c - 1, left : Nat] BY <1>2
      <4>2. k = n => stack[k].left - 1 \in Nat BY <1>4, <1>5, <3>1
      <4>3. stack[k].elem \in 0 .. c BY <1>1, <4>1
      <4> HIDE DEF st1
      <4>4. CASE k = n
        <5>1. st1[k] = [stack[k] EXCEPT !.left = @ - 1] BY <3>2, <4>4
        <5>2. st1[k] = [elem |-> stack[k].elem, left |-> stack[k].left - 1] BY <4>1, <5>1
        <5> QED BY <4>2, <4>3, <4>4, <5>2
      <4>5. CASE k # n
        <5>1. st1[k] = stack[k] BY <3>2, <4>5
        <5>2. stack[k].left \in Nat BY <4>1
        <5>3. stack[k] = [elem |-> stack[k].elem, left |-> stack[k].left] BY <4>1
        <5> QED BY <4>3, <4>5, <5>1, <5>2, <5>3
      <4> QED BY <4>4, <4>5
    <3> HIDE DEF st1, Entry
    <3>4. st1 \in [1 .. n -> Entry] BY <3>2, <3>3
    <3>5. st1 \in Seq(Entry) /\ Len(st1) = n BY <1>2, <3>4
    <3> QED BY <3>3, <3>5
  <2> QED BY <2>1, <2>2
<1>7. /\ st2 \in Seq(Entry)
      /\ opened => Len(st2) = n + 1
      /\ ~opened => Len(st2) = n
      /\ \A k \in 1 .. n : st2[k] = st1[k]
      /\ opened => st2[n + 1] = [elem |-> c, left |-> Children(c)]
  <2> DEFINE top == [elem |-> c, left |-> Children(c)]
  <2>1. CASE opened
    <3>1. top \in Entry BY <1>1, <1>3
    <3>2. st2 = Append(st1, top) BY <1>3, <2>1 DEF OpenGroup
    <3>3. st1 \in Seq(Entry) /\ Len(st1) = n BY <1>6
    <3> HIDE DEF st1, Entry, top, st2
    <3>4. /\ st2 \in Seq(Entry) /\ Len(st2) = n + 1 /\ st2[n + 1] = top
          /\ \A k \in 1 .. n : st2[k] = st1[k]
      BY <3>1, <3>2, <3>3, Pushed
    <3> QED BY <2>1, <3>4 DEF top
  <2>2. CASE ~opened BY <1>6, <2>2 DEF OpenGroup
  <2> QED BY <2>1, <2>2
<1> HIDE DEF st1, st2, Entry
<1> DEFINE m == Len(st2)
<1>m. /\ n \in Nat /\ m \in Nat /\ n <= m
      /\ opened => m = n + 1
      /\ ~opened => m = n
  BY <1>2, <1>7
<1>8. ASSUME NEW k \in 1 .. Len(st2)
      PROVE  /\ Expected(st2[k].elem, c + 1) \in Int
             /\ st2[k].left = Expected(st2[k].elem, c + 1)
                              - IF k = Len(st2) THEN 0 ELSE Expected(st2[k + 1].elem, c + 1)
  <2> DEFINE X(i) == Expected(i, c + 1)
             Y(i) == Expected(i, c)
  <2> HIDE DEF m
  <2>0. k \in Nat /\ k >= 1 /\ k <= m BY <1>m DEF m
  <2>1. CASE k < n
    <3>1. k \in 1 .. n /\ k + 1 \in 1 .. n /\ k # n /\ k # m
      BY <1>m, <2>0, <2>1
    <3>2. /\ st2[k].elem = stack[k].elem /\ st2[k + 1].elem = stack[k + 1].elem
          /\ st2[k].left = stack[k].left - 0
      BY <1>6, <1>7, <3>1
    <3>3. stack[k].left = Y(stack[k].elem) - Y(stack[k + 1].elem)
      BY <1>1, <1>2, <3>1
    <3>4. /\ Y(stack[k].elem) \in Int /\ X(stack[k].elem) = Y(stack[k].elem) - 1 + Children(c)
          /\ Y(stack[k + 1].elem) \in Int
          /\ X(stack[k + 1].elem) = Y(stack[k + 1].elem) - 1 + Children(c)
          /\ stack[k].left \in Nat
      BY <1>4, <3>1
    <3> HIDE DEF X, Y
    <3>5. X(st2[k].elem) \in Int /\ st2[k].left = X(st2[k].elem) - X(st2[k + 1].elem)
      BY <1>3, <3>2, <3>3, <3>4
    <3> QED BY <3>1, <3>5 DEF X, m
  <2>2. CASE k = n
    <3>1. k \in 1 .. n /\ n > 0 BY <1>m, <2>0, <2>2
    <3>2. st2[k].elem = stack[k].elem /\ st2[k].left = stack[k].left - 1
      BY <1>6, <1>7, <2>2, <3>1
    <3>3. stack[k].left = Y(stack[k].elem) BY <1>5, <2>2, <3>1
    <3>4. /\ Y(stack[k].elem) \in Int /\ X(stack[k].elem) = Y(stack[k].elem) - 1 + Children(c)
          /\ stack[k].left \in Nat
      BY <1>4, <3>1
    <3>5. X(c) = Children(c) /\ Children(c) \in Nat BY <1>3
    <3>6. X(st2[k].elem) \in Int /\ st2[k].left = X(st2[k].elem) - Children(c)
      <4> HIDE DEF X, Y
      <4> QED BY <3>2, <3>3, <3>4, <3>5
    <3>7. CASE opened
      <4>1. k # m /\ st2[k + 1].elem = c BY <1>m, <1>7, <2>2, <3>7
      <4> QED BY <3>5, <3>6, <4>1 DEF m
    <3>8. CASE ~opened
      <4>1. k = m /\ Children(c) = 0 BY <1>m, <1>3, <2>2, <3>8
      <4> QED BY <3>6, <4>1 DEF m
    <3> QED BY <3>7, <3>8
  <2>3. CASE k > n
    <3>1. opened /\ k = n + 1 /\ k = m BY <1>m, <2>0, <2>3
    <3>2. st2[k].elem = c /\ st2[k].left = Children(c) BY <1>7, <3>1
    <3>3. X(st2[k].elem) = Children(c) /\ Children(c) \in Nat BY <1>3, <3>2
    <3> QED BY <3>1, <3>2, <3>3 DEF m
  <2> QED BY <1>m, <2>0, <2>1, <2>2, <2>3
<1>9. \A k \in 1 .. n : st2[k].elem = stack[k].elem BY <1>6, <1>7
<1>10. opened => st2[n + 1].elem = c BY <1>7
<1> QED BY <1>1, <1>7, <1>8, <1>9, <1>10 DEF st1, st2, Entry, n

\* ... the innermost open group is the innermost of the enclosing elements ...
LEMMA TopEncloses ==
  ASSUME schema \in Schemas, phase = "parents", StackInv
  PROVE  (IF stack = << >> THEN -1 ELSE stack[Len(stack)].elem)
           = Max({-1} \cup Ancestors(cursor))
<1> DEFINE n == Len(stack)
           T == [elem : 0 .. cursor - 1, left : Nat]
           A == Ancestors(cursor)
<1>1. /\ cursor \in Int /\ stack \in Seq(T)
      /\ \A k, l \in DOMAIN stack : k < l => stack[k].elem < stack[l].elem
      /\ A = {stack[k].elem : k \in DOMAIN stack}
  BY SchemaTyped DEF StackInv
<1>2. n \in Nat /\ DOMAIN stack = 1 .. n /\ \A k \in 1 .. n : stack[k] \in T
  <2> HIDE DEF T
  <2> QED BY <1>1, ElementOfSeq
<1>3. \A k \in 1 .. n : stack[k].elem \in 0 .. cursor - 1 BY <1>2
<1>4. A \subseteq 0 .. cursor - 1 BY <1>1, <1>2, <1>3
<1>5. {-1} \cup A \subseteq Int BY <1>1, <1>4
<1> DEFINE S == {-1} \cup A
<1>6. CASE stack = << >>
  <2>1. S = {-1} BY <1>1, <1>6
  <2>2. -1 \in S /\ \A y \in S : y <= -1 BY <2>1
  <2> HIDE DEF S
  <2>3. Max(S) = -1 BY <1>5, <2>2, MaxIs DEF S
  <2> QED BY <1>6, <2>3 DEF S
<1>7. CASE stack # << >>
  <2>1. n \in 1 .. n BY <1>1, <1>2, <1>7
  <2> DEFINE g == stack[n].elem
  <2>2. g \in S BY <1>1, <1>2, <2>1
  <2>3. ASSUME NEW y \in S PROVE y <= g
    <3>1. CASE y = -1 BY <1>1, <1>3, <2>1, <3>1
    <3>2. CASE y \in A
      <4>1. PICK k \in 1 .. n : y = stack[k].elem BY <1>1, <1>2, <3>2
      <4>2. k < n => stack[k].elem < g BY <1>1, <1>2, <2>1
      <4>3. k = n \/ k < n
        <5>1. n \in Nat BY <1>2
        <5> HIDE DEF n
        <5> QED BY <5>1
      <4>4. g \in Int /\ stack[k].elem \in Int BY <1>1, <1>3, <2>1
      <4> QED BY <4>1, <4>2, <4>3, <4>4
    <3> QED BY <3>1, <3>2
  <2> HIDE DEF S, g
  <2>4. Max(S) = g BY <1>5, <2>2, <2>3, MaxIs DEF S
  <2> QED BY <1>7, <2>4 DEF S, g
<1> QED BY <1>6, <1>7

\* ... and once the finished groups are cut off, the stack is that of the next
\* element.
LEMMA VisitStack ==
  ASSUME schema \in Schemas, StackInv, VisitElement
  PROVE  StackInv'
<1> DEFINE c == cursor
           n == Len(stack)
           opened == schema.num_children[c] > 0
           Entry == [elem : 0 .. c, left : Nat]
           st2 == OpenGroup(ChargeTop(stack), c)
           N == Len(st2)
           X(i) == Expected(i, c + 1)
<1>1. /\ phase = "parents" /\ c < schema.size /\ schema' = schema /\ cursor' = c + 1
      /\ stack' = PopFinished(st2)
  BY DEF VisitElement
<1>2. /\ c \in Elements /\ c \in Nat /\ schema.size \in Nat
      /\ stack \in Seq([elem : 0 .. c - 1, left : Nat])
      /\ n \in Nat /\ DOMAIN stack = 1 .. n
      /\ \A k, l \in 1 .. n : k < l => stack[k].elem < stack[l].elem
      /\ Ancestors(c) = {stack[k].elem : k \in 1 .. n}
  <2>1. schema.size \in Nat BY SchemaTyped
  <2>2. /\ c \in 0 .. schema.size
        /\ stack \in Seq([elem : 0 .. c - 1, left : Nat])
        /\ \A k, l \in DOMAIN stack : k < l => stack[k].elem < stack[l].elem
        /\ Ancestors(c) = {stack[k].elem : k \in DOMAIN stack}
    BY <1>1 DEF StackInv
  <2>3. DOMAIN stack = 1 .. n /\ n \in Nat
    <3> DEFINE T == [elem : 0 .. c - 1, left : Nat]
    <3>1. stack \in Seq(T) BY <2>2
    <3> HIDE DEF T
    <3> QED BY <3>1
  <2>4. c \in Elements /\ c \in Nat BY <1>1, <2>1, <2>2 DEF Elements
  <2> HIDE DEF n
  <2> QED BY <2>1, <2>2, <2>3, <2>4
<1>3. /\ st2 \in Seq(Entry)
      /\ N = IF opened THEN n + 1 ELSE n
      /\ \A k \in 1 .. n : st2[k].elem = stack[k].elem
      /\ opened => st2[n + 1].elem = c
      /\ \A k \in 1 .. N :
           /\ X(st2[k].elem) \in Int
           /\ st2[k].left = X(st2[k].elem) - IF k = N THEN 0 ELSE X(st2[k + 1].elem)
  BY <1>1, OpenedStack
<1>4. X(c) > 0 => opened
  <2>1. c \in c .. schema.size - 1 BY <1>1, <1>2
  <2>2. Expected(c, c) = 1 /\ X(c) = Expected(c, c) - 1 + Children(c)
    BY <1>2, <2>1, ExpectedSteps
  <2>3. Children(c) = IF opened THEN schema.num_children[c] ELSE 0 BY <1>2, ChildrenIs
  <2> QED BY <2>2, <2>3
<1>5. \A k \in 1 .. n : stack[k].elem \in Ancestors(c) /\ stack[k].elem \in 0 .. c - 1
  <2> DEFINE T == [elem : 0 .. c - 1, left : Nat]
  <2>1. \A k \in 1 .. n : stack[k] \in T
    <3>1. stack \in Seq(T) BY <1>2
    <3> HIDE DEF T
    <3> QED BY <3>1, ElementOfSeq
  <2> QED BY <1>2, <2>1
<1>6. Ancestors(c + 1) = {i \in Ancestors(c) \cup {c} : X(i) > 0} BY <1>2, AncestorsStep
<1> HIDE DEF st2, n, opened
<1>7. N \in Nat /\ n <= N /\ (opened => N = n + 1) /\ (~opened => N = n) BY <1>2, <1>3
<1>8. PICK K \in 0 .. N : /\ PopFinished(st2) = SubSeq(st2, 1, K)
                          /\ K > 0 => st2[K].left # 0
                          /\ \A k \in K + 1 .. N : st2[k].left = 0
  BY <1>3, PopFinishedIs
<1>9. \A k \in 1 .. N : st2[k] \in Entry /\ st2[k].left \in Nat /\ st2[k].elem \in 0 .. c
  <2>1. \A k \in 1 .. N : st2[k] \in Entry
    <3> HIDE DEF Entry
    <3> QED BY <1>3, ElementOfSeq
  <2> QED BY <2>1
<1>10. \A k \in 1 .. N : (X(st2[k].elem) > 0 <=> k <= K) /\ (k > K => X(st2[k].elem) = 0)
  <2> DEFINE L == [k \in 1 .. N |-> st2[k].left]
             Y == [k \in 1 .. N |-> X(st2[k].elem)]
  <2> HIDE DEF N, X
  <2>1. L \in [1 .. N -> Nat] /\ Y \in [1 .. N -> Int] BY <1>3, <1>9
  <2>2. \A k \in 1 .. N : L[k] = Y[k] - IF k = N THEN 0 ELSE Y[k + 1]
    <3> SUFFICES ASSUME NEW k \in 1 .. N
                 PROVE  L[k] = Y[k] - IF k = N THEN 0 ELSE Y[k + 1]
      OBVIOUS
    <3>1. k # N => k + 1 \in 1 .. N BY <1>7
    <3> QED BY <1>3, <3>1
  <2>3. K > 0 => L[K] # 0
    <3>1. K > 0 => K \in 1 .. N BY <1>7
    <3> QED BY <1>8, <3>1
  <2>4. \A k \in K + 1 .. N : L[k] = 0
    <3>1. \A k \in K + 1 .. N : k \in 1 .. N BY <1>7
    <3> QED BY <1>8, <3>1
  <2> HIDE DEF L, Y
  <2>5. \A k \in 1 .. N : (Y[k] > 0 <=> k <= K) /\ (k > K => Y[k] = 0)
    BY <1>7, <2>1, <2>2, <2>3, <2>4, WaitingGroups
  <2> QED BY <2>5 DEF Y
<1>11. /\ stack' \in Seq(Entry) /\ Len(stack') = K /\ DOMAIN stack' = 1 .. K
       /\ \A k \in 1 .. K : stack'[k] = st2[k] /\ k \in 1 .. N
  <2> HIDE DEF Entry
  <2>1. 1 \in Int /\ K \in Int /\ K <= N BY <1>7
  <2>2. \A k \in 1 .. K : k \in 1 .. N BY <1>7
  <2> QED BY <1>1, <1>3, <1>7, <1>8, <1>9, <2>1, <2>2
<1>12. \A k, l \in 1 .. K : k < l => stack'[k].elem < stack'[l].elem
  <2> SUFFICES ASSUME NEW k \in 1 .. K, NEW l \in 1 .. K, k < l
               PROVE  st2[k].elem < st2[l].elem
    BY <1>11
  <2>1. k \in 1 .. n BY <1>2, <1>7
  <2>2. CASE l \in 1 .. n BY <1>2, <1>3, <2>1, <2>2
  <2>3. CASE l \notin 1 .. n
    <3>1. opened /\ l = n + 1 BY <1>2, <1>7, <2>3
    <3>2. st2[l].elem = c /\ st2[k].elem = stack[k].elem BY <1>3, <2>1, <3>1
    <3>3. stack[k].elem \in 0 .. c - 1 BY <1>5, <2>1
    <3> QED BY <1>2, <3>2, <3>3
  <2> QED BY <2>2, <2>3
<1>13. Ancestors(c + 1) = {stack'[k].elem : k \in 1 .. K}
  <2>1. ASSUME NEW i \in Ancestors(c + 1) PROVE \E k \in 1 .. K : i = stack'[k].elem
    <3>1. X(i) > 0 /\ (i = c \/ i \in Ancestors(c)) BY <1>6
    <3>2. PICK k \in 1 .. N : i = st2[k].elem
      <4> HIDE DEF N
      <4>1. CASE i = c
        <5>1. opened BY <1>4, <3>1, <4>1
        <5>2. n + 1 \in 1 .. N BY <1>2, <1>7, <5>1
        <5> QED BY <1>3, <4>1, <5>1, <5>2
      <4>2. CASE i \in Ancestors(c)
        <5>1. PICK k \in 1 .. n : i = stack[k].elem BY <1>2, <4>2
        <5>2. k \in 1 .. N BY <1>2, <1>7
        <5> QED BY <1>3, <5>1, <5>2
      <4> QED BY <3>1, <4>1, <4>2
    <3>3. k <= K BY <1>10, <3>1, <3>2
    <3>4. k \in 1 .. K BY <1>7, <3>3
    <3> QED BY <1>11, <3>2, <3>4
  <2>2. ASSUME NEW k \in 1 .. K PROVE stack'[k].elem \in Ancestors(c + 1)
    <3>1. stack'[k] = st2[k] /\ k \in 1 .. N /\ k <= K BY <1>11
    <3>2. X(st2[k].elem) > 0 BY <1>10, <3>1
    <3>3. st2[k].elem \in Ancestors(c) \cup {c}
      <4>1. CASE k \in 1 .. n BY <1>3, <1>5, <4>1
      <4>2. CASE k \notin 1 .. n
        <5>1. opened /\ k = n + 1 BY <1>2, <1>7, <3>1, <4>2
        <5> QED BY <1>3, <5>1
      <4> QED BY <4>1, <4>2
    <3> QED BY <1>6, <3>1, <3>2, <3>3
  <2> QED BY <2>1, <2>2
<1>14. \A k \in 1 .. K :
         stack'[k].left = X(stack'[k].elem) - IF k = K THEN 0 ELSE X(stack'[k + 1].elem)
  <2> SUFFICES ASSUME NEW k \in 1 .. K
               PROVE  stack'[k].left
                        = X(stack'[k].elem) - IF k = K THEN 0 ELSE X(stack'[k + 1].elem)
    OBVIOUS
  <2>1. /\ stack'[k] = st2[k] /\ k \in 1 .. N /\ X(st2[k].elem) \in Int
        /\ st2[k].left = X(st2[k].elem) - IF k = N THEN 0 ELSE X(st2[k + 1].elem)
    BY <1>3, <1>11
  <2>2. CASE k < K
    <3>1. k + 1 \in 1 .. K /\ k # N /\ k # K BY <1>7, <2>2
    <3>2. stack'[k + 1] = st2[k + 1] BY <1>11, <3>1
    <3> QED BY <2>1, <3>1, <3>2
  <2>3. CASE k = K
    <3>1. k # N => k + 1 \in 1 .. N /\ k + 1 > K BY <1>7, <2>3
    <3>2. k # N => X(st2[k + 1].elem) = 0 BY <1>10, <3>1
    <3> QED BY <2>1, <2>3, <3>2
  <2> QED BY <2>2, <2>3
<1>15. /\ cursor' \in 0 .. schema'.size
       /\ Entry = [elem : 0 .. cursor' - 1, left : Nat]
  BY <1>1, <1>2
<1>16. Ancestors(cursor)' = Ancestors(c + 1)
  BY <1>1 DEF Ancestors, Encloses, Expected
<1>17. \A k \in 1 .. K : (Expected(stack[k].elem, cursor))' = X(stack'[k].elem)
  BY <1>1 DEF Expected
<1>18. \A k \in 1 .. K : (Expected(stack[k + 1].elem, cursor))' = X(stack'[k + 1].elem)
  BY <1>1 DEF Expected
<1> HIDE DEF X, Entry, c
<1> QED BY <1>11, <1>12, <1>13, <1>14, <1>15, <1>16, <1>17, <1>18 DEF StackInv

-----------------------------------------------------------------------------
(* The invariant of the walk.                                              *)

\* The innermost enclosing element comes before, and is an ancestor unless there
\* is none.
LEMMA InnermostIs ==
  ASSUME schema \in Schemas, NEW j \in Elements
  PROVE  /\ Max({-1} \cup Ancestors(j)) \in -1 .. j - 1
         /\ Max({-1} \cup Ancestors(j)) # -1 => Max({-1} \cup Ancestors(j)) \in Ancestors(j)
<1> DEFINE A == Ancestors(j)
           S == {-1} \cup A
           m == Max(S)
<1>1. A \subseteq 0 .. j - 1 /\ j \in Nat BY DEF Ancestors, Elements
<1>2. S \subseteq Int /\ -1 \in S BY <1>1
<1>3. CASE A = {}
  <2>1. \A y \in S : y <= -1 BY <1>3
  <2> HIDE DEF S
  <2>2. m = -1 BY <1>2, <2>1, MaxIs
  <2> HIDE DEF m
  <2> QED BY <1>1, <2>2 DEF m, S
<1>4. CASE A # {}
  <2>1. PICK g \in A : \A y \in A : y <= g
    <3>1. A \subseteq 0 .. j BY <1>1
    <3> HIDE DEF A
    <3> QED BY <1>1, <1>4, <3>1, GreatestNatural
  <2>2. g \in 0 .. j - 1 /\ g \in S /\ \A y \in S : y <= g BY <1>1, <2>1
  <2> HIDE DEF S
  <2>3. m = g BY <1>2, <2>2, MaxIs
  <2> HIDE DEF m, A
  <2>4. m \in -1 .. j - 1 /\ m \in A BY <1>1, <2>1, <2>2, <2>3
  <2> QED BY <2>4 DEF m, S, A
<1> QED BY <1>3, <1>4

\* The walk starts where its invariant holds.
LEMMA WalkInit == TreeInit => WalkInv
<1> SUFFICES ASSUME TreeInit PROVE WalkInv OBVIOUS
<1> USE DEF TreeInit
<1>1. schema \in Schemas /\ schema.size \in Nat BY SchemaTyped
<1>2. parent \in [Elements -> Int] /\ path \in [Elements -> Seq(Symbols)] OBVIOUS
<1>3. ParentEncloses
  <2>1. \A j \in Elements : ~(j < 0) BY DEF Elements
  <2> QED BY <2>1 DEF ParentEncloses
<1>4. StackInv
  <2>1. Ancestors(0) = {} BY DEF Ancestors
  <2>2. DOMAIN stack = {} OBVIOUS
  <2>3. stack \in Seq([elem : 0 .. cursor - 1, left : Nat]) OBVIOUS
  <2>4. cursor \in 0 .. schema.size BY <1>1
  <2> QED BY <2>1, <2>2, <2>3, <2>4 DEF StackInv
<1> QED BY <1>1, <1>2, <1>3, <1>4 DEF WalkInv, PathInv, LeafInv

\* Visiting an element keeps it: the parent is read off the top of the stack.
LEMMA VisitWalk == WalkInv /\ VisitElement => WalkInv'
<1> SUFFICES ASSUME WalkInv, VisitElement PROVE WalkInv' OBVIOUS
<1>1. /\ schema \in Schemas /\ schema' = schema /\ cursor \in Nat /\ cursor' = cursor + 1
      /\ phase = "parents" /\ phase' = "parents" /\ cursor < schema.size
      /\ parent' = [parent EXCEPT ![cursor] =
                      IF stack = << >> THEN -1 ELSE stack[Len(stack)].elem]
      /\ parent \in [Elements -> Int] /\ path' = path /\ leaf_elem' = leaf_elem
      /\ StackInv /\ ParentEncloses /\ PathInv /\ LeafInv
  BY DEF WalkInv, VisitElement
<1>2. Elements' = Elements /\ \A j : Ancestors(j)' = Ancestors(j) BY <1>1, SchemaFixed
<1>3. StackInv' BY <1>1, VisitStack
<1> DEFINE top == IF stack = << >> THEN -1 ELSE stack[Len(stack)].elem
<1>4. top = Max({-1} \cup Ancestors(cursor)) BY <1>1, TopEncloses
<1>5. cursor \in Elements BY <1>1, SchemaTyped DEF Elements
<1>6. top \in Int BY <1>1, <1>4, <1>5, InnermostIs
<1> HIDE DEF top
<1>7. parent' \in [Elements -> Int]
  <2>1. parent' = [parent EXCEPT ![cursor] = top] BY <1>1 DEF top
  <2> QED BY <1>1, <1>6, <2>1
<1>8. ParentEncloses'
  <2>1. ASSUME NEW j \in Elements, j < cursor + 1
        PROVE  parent'[j] = Max({-1} \cup Ancestors(j))
    <3>1. parent' = [parent EXCEPT ![cursor] = top] BY <1>1 DEF top
    <3>2. CASE j = cursor BY <1>1, <1>4, <1>5, <3>1, <3>2
    <3>3. CASE j # cursor
      <4>1. j < cursor BY <1>1, <2>1, <3>3 DEF Elements
      <4>2. parent'[j] = parent[j] BY <1>1, <3>1, <3>3
      <4> QED BY <1>1, <4>1, <4>2 DEF ParentEncloses
    <3> QED BY <3>2, <3>3
  <2> QED BY <1>1, <1>2, <2>1 DEF ParentEncloses
<1>9. PathInv' BY <1>1, <1>2 DEF PathInv
<1>10. LeafInv' BY <1>1 DEF LeafInv
<1> QED BY <1>1, <1>2, <1>3, <1>7, <1>8, <1>9, <1>10 DEF WalkInv

\* The end of the parent loop keeps it.
LEMMA EndParentsWalk == WalkInv /\ EndParents => WalkInv'
<1> SUFFICES ASSUME WalkInv, EndParents PROVE WalkInv' OBVIOUS
<1>1. /\ schema \in Schemas /\ schema' = schema /\ cursor' = 1
      /\ phase = "parents" /\ phase' = "paths" /\ cursor = schema.size
      /\ parent' = parent /\ parent \in [Elements -> Int]
      /\ path' = path /\ leaf_elem' = leaf_elem
      /\ ParentEncloses /\ PathInv /\ LeafInv
  BY DEF WalkInv, EndParents
<1>2. Elements' = Elements /\ \A j : Ancestors(j)' = Ancestors(j) BY <1>1, SchemaFixed
<1>3. ParentEncloses'
  <2>1. schema.size \in Nat BY <1>1, SchemaTyped
  <2>2. \A j \in Elements : j < cursor BY <1>1, <2>1 DEF Elements
  <2> QED BY <1>1, <1>2, <2>2 DEF ParentEncloses
<1>4. PathInv'
  <2>1. 1 .. 1 - 1 = {} OBVIOUS
  <2> QED BY <1>1, <1>2, <2>1 DEF PathInv
<1>5. LeafInv'
  <2>1. 1 .. 1 - 1 = {} /\ leaf_elem = << >> /\ phase' # "parents"
    BY <1>1 DEF LeafInv
  <2> QED BY <1>1, <1>2, <2>1 DEF LeafInv, Leaves
<1>6. StackInv' BY <1>1 DEF StackInv
<1> QED BY <1>1, <1>2, <1>3, <1>4, <1>5, <1>6 DEF WalkInv

\* Naming an element keeps it: its path is built on one that stands already.
LEMMA NameWalk == WalkInv /\ NameElement => WalkInv'
<1> SUFFICES ASSUME WalkInv, NameElement PROVE WalkInv' OBVIOUS
<1> DEFINE c == cursor
<1>1. /\ schema \in Schemas /\ schema' = schema /\ c \in Nat /\ c > 0 /\ cursor' = c + 1
      /\ phase = "paths" /\ phase' = "paths" /\ c < schema.size
      /\ parent' = parent /\ parent \in [Elements -> Int]
      /\ path' = [path EXCEPT ![c] = JoinedPath(c)]
      /\ ParentEncloses /\ PathInv /\ LeafInv
  BY DEF WalkInv, NameElement
<1>2. /\ Elements' = Elements /\ \A j : Ancestors(j)' = Ancestors(j)
      /\ \A j : Segment(j)' = Segment(j)
  BY <1>1, SchemaFixed
<1>3. schema.size \in Nat /\ c \in Elements BY <1>1, SchemaTyped DEF Elements
<1>4. ASSUME NEW j \in Elements PROVE parent[j] \in -1 .. j - 1
  <2>1. parent[j] = Max({-1} \cup Ancestors(j)) BY <1>1 DEF ParentEncloses
  <2> QED BY <1>1, <2>1, InnermostIs
<1>5. ParentEncloses' BY <1>1, <1>2 DEF ParentEncloses
<1>6. PathInv'
  <2>1. path \in [Elements -> Seq(Symbols)] BY <1>1 DEF PathInv
  <2>2. JoinedPath(c) \in Seq(Symbols)
    <3>1. Segment(c) \in Seq(Symbols) BY <1>1, <1>3, SchemaTyped
    <3>2. Nul \in Symbols BY DEF Symbols
    <3>3. CASE parent[c] <= 0 BY <3>1, <3>3 DEF JoinedPath
    <3>4. CASE ~(parent[c] <= 0)
      <4>1. parent[c] \in Elements BY <1>1, <1>3, <1>4, <3>4 DEF Elements
      <4>2. path[parent[c]] \in Seq(Symbols) BY <2>1, <4>1
      <4>3. <<Nul>> \in Seq(Symbols) BY <3>2
      <4> QED BY <3>1, <3>4, <4>2, <4>3, ConcatProperties DEF JoinedPath
    <3> QED BY <3>3, <3>4
  <2>3. path' \in [Elements -> Seq(Symbols)] BY <1>1, <2>1, <2>2
  <2>4. ASSUME NEW j \in Elements, j \in 1 .. c PROVE path'[j] = JoinedPath(j)'
    <3>1. parent[j] > 0 => path'[parent[j]] = path[parent[j]]
      <4> SUFFICES ASSUME parent[j] > 0 PROVE path'[parent[j]] = path[parent[j]]
        OBVIOUS
      <4>1. parent[j] \in Elements /\ parent[j] # c
        BY <1>1, <1>3, <1>4, <2>4 DEF Elements
      <4> QED BY <1>1, <2>1, <4>1
    <3>2. parent[j] \in Int BY <1>1
    <3>3. JoinedPath(j)' = JoinedPath(j) BY <1>1, <1>2, <3>1, <3>2 DEF JoinedPath
    <3>4. CASE j = c BY <1>1, <1>3, <2>1, <3>3, <3>4
    <3>5. CASE j # c
      <4>1. j \in 1 .. c - 1 BY <1>1, <2>4, <3>5
      <4>2. path'[j] = path[j] BY <1>1, <2>1, <3>5
      <4>3. path[j] = JoinedPath(j) BY <1>1, <4>1 DEF PathInv
      <4> QED BY <3>3, <4>2, <4>3
    <3> QED BY <3>4, <3>5
  <2>5. (c + 1) - 1 = c BY <1>1
  <2>6. 0 \in Elements => path'[0] = << >>
    <3> SUFFICES ASSUME 0 \in Elements PROVE path'[0] = << >> OBVIOUS
    <3>1. path'[0] = path[0] BY <1>1, <2>1
    <3> QED BY <1>1, <3>1 DEF PathInv
  <2> QED BY <1>1, <1>2, <2>3, <2>4, <2>5, <2>6 DEF PathInv
<1>7. LeafInv'
  <2> DEFINE n == Len(leaf_elem)
             IsLeaf(i) == i \in Elements /\ schema.num_children[i] = 0
  <2>1. /\ leaf_elem \in Seq(Nat) /\ n \in Nat
        /\ \A k \in 1 .. n : leaf_elem[k] \in k .. c - 1 - (n - k) /\ IsLeaf(leaf_elem[k])
        /\ \A k, l \in 1 .. n : k < l => leaf_elem[k] < leaf_elem[l]
        /\ \A i \in Elements :
             i \in 1 .. c - 1 /\ schema.num_children[i] = 0 => \E k \in 1 .. n : leaf_elem[k] = i
    BY <1>1 DEF LeafInv, Leaves
  <2>2. CASE schema.num_children[c] = 0
    <3>1. leaf_elem' = Append(leaf_elem, c) BY <2>2 DEF NameElement
    <3> DEFINE n1 == Len(leaf_elem')
    <3>2. /\ leaf_elem' \in Seq(Nat) /\ n1 = n + 1 /\ leaf_elem'[n + 1] = c
          /\ \A k \in 1 .. n : leaf_elem'[k] = leaf_elem[k]
      BY <1>1, <2>1, <3>1, AppendProperties
    <3> HIDE DEF n, n1
    <3>3. ASSUME NEW k \in 1 .. n1, k \notin 1 .. n PROVE k = n + 1 /\ k = n1
      BY <2>1, <3>2, <3>3
    <3>4. ASSUME NEW k \in 1 .. n1
          PROVE  leaf_elem'[k] \in k .. (c + 1) - 1 - (n1 - k) /\ IsLeaf(leaf_elem'[k])
      <4>1. CASE k \in 1 .. n
        <5>1. leaf_elem'[k] = leaf_elem[k] BY <3>2, <4>1
        <5>2. leaf_elem[k] \in k .. c - 1 - (n - k) BY <2>1, <4>1
        <5>3. leaf_elem[k] \in k .. (c + 1) - 1 - (n1 - k) BY <1>1, <2>1, <3>2, <4>1, <5>2
        <5> QED BY <2>1, <4>1, <5>1, <5>3
      <4>2. CASE k \notin 1 .. n
        <5>1. k = n + 1 /\ k = n1 BY <3>3, <4>2
        <5>2. n <= c - 1
          <6>1. n = 0 => n <= c - 1 BY <1>1
          <6>2. n # 0 => n \in 1 .. n BY <2>1
          <6>3. n # 0 => leaf_elem[n] \in n .. c - 1 - (n - n) BY <2>1, <6>2
          <6> QED BY <1>1, <2>1, <6>1, <6>3
        <5> QED BY <1>1, <1>3, <2>1, <2>2, <3>2, <5>1, <5>2
      <4> QED BY <4>1, <4>2
    <3>5. ASSUME NEW k \in 1 .. n1, NEW l \in 1 .. n1, k < l
          PROVE  leaf_elem'[k] < leaf_elem'[l]
      <4>1. k \in 1 .. n BY <2>1, <3>2, <3>5
      <4>2. CASE l \in 1 .. n BY <2>1, <3>2, <3>5, <4>1, <4>2
      <4>3. CASE l \notin 1 .. n
        <5>1. leaf_elem'[l] = c BY <3>2, <3>3, <4>3
        <5>2. leaf_elem[k] \in k .. c - 1 - (n - k) BY <2>1, <4>1
        <5>3. leaf_elem[k] < c BY <1>1, <2>1, <4>1, <5>2
        <5> QED BY <3>2, <4>1, <5>1, <5>3
      <4> QED BY <4>2, <4>3
    <3>6. ASSUME NEW i \in Elements, i \in 1 .. (c + 1) - 1, schema.num_children[i] = 0
          PROVE  \E k \in 1 .. n1 : leaf_elem'[k] = i
      <4>1. CASE i = c
        <5>1. n + 1 \in 1 .. n1 BY <2>1, <3>2
        <5> QED BY <3>2, <4>1, <5>1
      <4>2. CASE i # c
        <5>1. i \in 1 .. c - 1 BY <1>1, <3>6, <4>2
        <5>2. PICK k \in 1 .. n : leaf_elem[k] = i BY <2>1, <3>6, <5>1
        <5>3. k \in 1 .. n1 BY <2>1, <3>2
        <5> QED BY <3>2, <5>2, <5>3
      <4> QED BY <4>1, <4>2
    <3> QED BY <1>1, <1>2, <3>2, <3>4, <3>5, <3>6 DEF LeafInv, Leaves, n1
  <2>3. CASE schema.num_children[c] # 0
    <3>1. leaf_elem' = leaf_elem BY <2>3 DEF NameElement
    <3> HIDE DEF n
    <3>2. \A k \in 1 .. n : leaf_elem[k] \in k .. (c + 1) - 1 - (n - k)
      <4> SUFFICES ASSUME NEW k \in 1 .. n
                   PROVE  leaf_elem[k] \in k .. (c + 1) - 1 - (n - k)
        OBVIOUS
      <4>1. leaf_elem[k] \in k .. c - 1 - (n - k) BY <2>1
      <4> QED BY <1>1, <2>1, <4>1
    <3>3. ASSUME NEW i \in Elements, i \in 1 .. (c + 1) - 1, schema.num_children[i] = 0
          PROVE  \E k \in 1 .. n : leaf_elem[k] = i
      <4>1. i # c BY <2>3, <3>3
      <4>2. i \in 1 .. c - 1 BY <1>1, <3>3, <4>1
      <4> QED BY <2>1, <3>3, <4>2
    <3> QED BY <1>1, <1>2, <2>1, <3>1, <3>2, <3>3 DEF LeafInv, Leaves, n
  <2> QED BY <2>2, <2>3
<1>8. StackInv' BY <1>1 DEF StackInv
<1>9. cursor' \in 1 .. schema'.size BY <1>1, <1>3
<1> QED BY <1>1, <1>2, <1>5, <1>6, <1>7, <1>8, <1>9 DEF WalkInv

\* What the walk leaves behind no later phase touches.
LEMMA LaidOutWalk ==
  ASSUME WalkInv, UNCHANGED <<schema, parent, stack, path, leaf_elem>>,
         cursor' = cursor,
         phase \notin {"parents"}, phase' \notin {"parents"},
         phase' = "paths" => phase = "paths",
         phase = "paths" /\ phase' # "paths" => cursor >= schema.size
  PROVE  WalkInv'
<1>1. Elements' = Elements /\ (\A j : Ancestors(j)' = Ancestors(j))
      /\ \A j : Segment(j)' = Segment(j)
  BY SchemaFixed
<1>2. ParentEncloses' BY <1>1 DEF WalkInv, ParentEncloses
<1>3. PathInv' BY <1>1 DEF WalkInv, PathInv, JoinedPath
<1>4. LeafInv' BY <1>1 DEF WalkInv, LeafInv, Leaves
<1>5. StackInv' BY DEF StackInv
<1> QED BY <1>1, <1>2, <1>3, <1>4, <1>5 DEF WalkInv

\* Every step of the walk keeps the invariant.
LEMMA WalkStep == WalkInv /\ TreeNext => WalkInv'
<1> SUFFICES ASSUME WalkInv, TreeNext PROVE WalkInv' OBVIOUS
<1>1. CASE VisitElement BY <1>1, VisitWalk
<1>2. CASE EndParents BY <1>2, EndParentsWalk
<1>3. CASE NameElement BY <1>3, NameWalk
<1>4. CASE EndPaths BY <1>4, LaidOutWalk DEF EndPaths
<1> QED BY <1>1, <1>2, <1>3, <1>4 DEF TreeNext

LEMMA WalkStutter == WalkInv /\ UNCHANGED treeVars => WalkInv'
<1> SUFFICES ASSUME WalkInv, UNCHANGED treeVars PROVE WalkInv' OBVIOUS
<1>1. /\ phase' = phase /\ schema' = schema /\ cursor' = cursor /\ parent' = parent
      /\ stack' = stack /\ path' = path /\ leaf_elem' = leaf_elem
  BY DEF treeVars
<1>2. CASE phase # "parents" BY <1>1, <1>2, LaidOutWalk
<1>3. CASE phase = "parents"
  <2>1. Elements' = Elements /\ \A j : Ancestors(j)' = Ancestors(j) BY <1>1, SchemaFixed
  <2>2. ParentEncloses' BY <1>1, <2>1 DEF WalkInv, ParentEncloses
  <2>3. StackInv'
    <3>1. Ancestors(cursor)' = Ancestors(cursor)
      BY <1>1 DEF Ancestors, Encloses, Expected
    <3>2. \A k : (Expected(stack[k].elem, cursor))' = Expected(stack[k].elem, cursor)
      BY <1>1 DEF Expected
    <3>3. \A k : (Expected(stack[k + 1].elem, cursor))' = Expected(stack[k + 1].elem, cursor)
      BY <1>1 DEF Expected
    <3> QED BY <1>1, <3>1, <3>2, <3>3 DEF WalkInv, StackInv
  <2>4. PathInv' /\ LeafInv' BY <1>1, <1>3, <2>1 DEF WalkInv, PathInv, LeafInv
  <2> QED BY <1>1, <1>3, <2>1, <2>2, <2>3, <2>4 DEF WalkInv
<1> QED BY <1>2, <1>3

\* The walk on its own, whatever is built on top of it: the stack of counters is
\* the chain of enclosing groups, each with what it still waits for, the parents
\* are the innermost of them, and the paths and the leaf list follow.
THEOREM WalkInvariant == TreeInit /\ [][TreeNext]_treeVars => []WalkInv
BY WalkInit, WalkStep, WalkStutter, PTL

-----------------------------------------------------------------------------
(* What the walk leaves behind.                                            *)

\* The parent of an element is a group before it, or -1.
LEMMA ParentIs ==
  ASSUME WalkInv, phase # "parents", NEW j \in Elements
  PROVE  /\ parent[j] \in -1 .. j - 1
         /\ parent[j] # -1 => parent[j] \in Elements /\ schema.num_children[parent[j]] > 0
<1>1. /\ schema \in Schemas /\ schema.size \in Nat
      /\ parent[j] = Max({-1} \cup Ancestors(j))
  BY SchemaTyped DEF WalkInv, ParentEncloses
<1>2. parent[j] \in -1 .. j - 1 /\ (parent[j] # -1 => parent[j] \in Ancestors(j))
  BY <1>1, InnermostIs
<1>3. j \in 0 .. schema.size BY <1>1 DEF Elements
<1> QED BY <1>1, <1>2, <1>3, AncestorFacts

\* Every path past the root's is the joined one.
LEMMA PathIs ==
  ASSUME WalkInv, phase \notin {"parents", "paths"}, NEW j \in Elements \ {0}
  PROVE  path[j] = JoinedPath(j)
<1>1. schema.size \in Nat BY SchemaTyped DEF WalkInv
<1>2. j \in 1 .. cursor - 1 BY <1>1 DEF WalkInv, Elements
<1> QED BY <1>2 DEF WalkInv, PathInv

\* Only the texts of the root's children start at a segment of their own; with
\* every group named, no group's path is empty.
LEMMA GroupPathNotEmpty ==
  ASSUME WalkInv, phase \notin {"parents", "paths"}, GroupsNamed,
         NEW j \in Elements \ {0}, schema.num_children[j] > 0
  PROVE  path[j] # << >>
<1>1. schema \in Schemas /\ path \in [Elements -> Seq(Symbols)] BY DEF WalkInv, PathInv
<1>2. Segment(j) \in Seq(Symbols) /\ Segment(j) # << >> BY <1>1, SchemaTyped DEF GroupsNamed
<1>3. path[j] = JoinedPath(j) BY PathIs
<1>4. CASE parent[j] <= 0 BY <1>2, <1>3, <1>4 DEF JoinedPath
<1>5. CASE ~(parent[j] <= 0)
  <2>1. parent[j] \in Elements
    <3>1. parent[j] \in -1 .. j - 1 /\ (parent[j] # -1 => parent[j] \in Elements) BY ParentIs
    <3> QED BY <1>5, <3>1
  <2>2. path[parent[j]] \in Seq(Symbols) /\ <<Nul>> \in Seq(Symbols) BY <1>1, <2>1 DEF Symbols
  <2> DEFINE front == path[parent[j]] \o <<Nul>>
  <2>3. front \in Seq(Symbols) BY <2>2, ConcatProperties
  <2>4. path[j] = front \o Segment(j) BY <1>3, <1>5 DEF JoinedPath
  <2> HIDE DEF front
  <2>5. path[j] \in Seq(Symbols) /\ Len(path[j]) = Len(front) + Len(Segment(j))
    BY <1>2, <2>3, <2>4, ConcatProperties
  <2>6. Len(Segment(j)) \in Nat \ {0} /\ Len(front) \in Nat BY <1>2, <2>3
  <2>7. Len(path[j]) # 0 BY <2>5, <2>6
  <2> QED BY <2>7
<1> QED BY <1>4, <1>5

\* A leaf past the root, and in a tree that is nothing but a root and leaves the
\* one its ordinal says.
LEMMA LeafIs ==
  ASSUME WalkInv, phase \notin {"parents", "paths"}, NEW k \in 1 .. Leaves
  PROVE  /\ leaf_elem[k] \in Elements \ {0}
         /\ schema.size = Leaves + 1 => leaf_elem[k] = k
<1>1. schema.size \in Nat BY SchemaTyped DEF WalkInv
<1>2. /\ leaf_elem[k] \in k .. cursor - 1 - (Leaves - k) /\ leaf_elem[k] \in Elements
      /\ Leaves \in Nat
  BY DEF WalkInv, LeafInv, Leaves
<1>3. /\ cursor \in Nat /\ cursor >= schema.size
      /\ cursor = 1 \/ cursor \in 1 .. schema.size
  BY DEF WalkInv
<1> HIDE DEF Leaves
<1>4. leaf_elem[k] \in 0 .. schema.size - 1 BY <1>2 DEF Elements
<1> QED BY <1>1, <1>2, <1>3, <1>4

-----------------------------------------------------------------------------
(* Paths and levels.                                                       *)

\* Whoever encloses the parent encloses the child, and nobody else but it.
LEMMA AncestorsOfParent ==
  ASSUME schema \in Schemas, NEW j \in Elements, NEW p \in Ancestors(j),
         \A i \in Ancestors(j) : i <= p
  PROVE  Ancestors(j) = Ancestors(p) \cup {p}
<1>1. schema.size \in Nat /\ j \in 0 .. schema.size - 1 BY SchemaTyped DEF Elements
<1>2. p \in Elements /\ p \in 0 .. j - 1 /\ Encloses(p, j)
  BY <1>1 DEF Ancestors, Elements
<1>3. ASSUME NEW i \in Ancestors(j), i # p PROVE i \in Ancestors(p)
  <2>1. i \in 0 .. j - 1 /\ Encloses(i, j) /\ i <= p BY DEF Ancestors
  <2>2. i < p /\ i \in 0 .. p - 1 BY <1>2, <1>3, <2>1
  <2>3. \A e \in i + 1 .. p : e \in i + 1 .. j BY <1>1, <1>2, <2>1
  <2> QED BY <2>1, <2>2, <2>3 DEF Ancestors, Encloses
<1>4. ASSUME NEW i \in Ancestors(p) PROVE i \in Ancestors(j)
  <2>1. i \in 0 .. p - 1 /\ i \in 0 .. j - 1 /\ i \in Elements /\ i < j
    BY <1>1, <1>2 DEF Ancestors, Elements
  <2>2. \A e \in i + 1 .. p : Expected(i, e) > 0 BY DEF Ancestors, Encloses
  <2>3. \A e \in p + 1 .. j : Expected(p, e) > 0 BY <1>2 DEF Encloses
  <2> DEFINE X == [e \in p .. j |-> Expected(i, e)]
             Y == [e \in p .. j |-> Expected(p, e)]
             C == [e \in p .. j - 1 |-> Children(e)]
  <2>4. /\ \A e \in p .. j : X[e] \in Int /\ Y[e] \in Int
        /\ \A e \in p .. j - 1 : X[e + 1] = X[e] - 1 + C[e] /\ Y[e + 1] = Y[e] - 1 + C[e]
        /\ X[p] > 0 /\ Y[p] = 1
    <3>1. \A e \in p .. j : e \in i .. schema.size /\ e \in p .. schema.size
      BY <1>1, <1>2, <2>1
    <3>2. \A e \in p .. j - 1 :
            /\ e \in i .. schema.size - 1 /\ e \in p .. schema.size - 1
            /\ e \in p .. j /\ e + 1 \in p .. j
      BY <1>1, <1>2, <2>1
    <3>3. p \in p .. j /\ p \in i + 1 .. p BY <1>1, <1>2, <2>1
    <3>4. \A e \in p .. j : X[e] \in Int /\ Y[e] \in Int
      BY <1>2, <2>1, <3>1, ExpectedSteps
    <3>5. ASSUME NEW e \in p .. j - 1
          PROVE  X[e + 1] = X[e] - 1 + C[e] /\ Y[e + 1] = Y[e] - 1 + C[e]
      <4>1. /\ Expected(i, e + 1) = Expected(i, e) - 1 + Children(e)
            /\ Expected(p, e + 1) = Expected(p, e) - 1 + Children(e)
        BY <1>2, <2>1, <3>2, ExpectedSteps
      <4> QED BY <3>2, <4>1
    <3>6. X[p] > 0 /\ Y[p] = 1 BY <1>2, <2>2, <3>3, ExpectedSteps
    <3> QED BY <3>4, <3>5, <3>6
  <2>5. \A e \in p .. j : (X[e] = Expected(i, e)) /\ (Y[e] = Expected(p, e)) OBVIOUS
  <2>6. \A e \in p .. j - 1 : C[e] \in Int
    <3> SUFFICES ASSUME NEW e \in p .. j - 1 PROVE Children(e) \in Int OBVIOUS
    <3>1. e \in Elements BY <1>1, <1>2 DEF Elements
    <3> QED BY <3>1, SchemaTyped, ChildrenIs
  <2> HIDE DEF X, Y, C
  <2>7. \A e \in p .. j : X[e] >= Y[e]
    <3> DEFINE D == {e \in p .. j : ~(X[e] >= Y[e])}
    <3> SUFFICES ASSUME D # {} PROVE FALSE OBVIOUS
    <3>1. PICK e \in D : \A x \in D : e <= x
      <4>1. D \subseteq Nat BY <1>2
      <4> HIDE DEF D
      <4> QED BY <4>1, LeastNatural
    <3>2. e # p BY <1>1, <1>2, <2>4, <3>1
    <3>3. e - 1 \in p .. j - 1 /\ e - 1 \in p .. j /\ (e - 1) + 1 = e /\ ~(e <= e - 1)
      BY <1>1, <1>2, <3>1, <3>2
    <3>4. X[e - 1] >= Y[e - 1]
      <4>1. e - 1 \notin D BY <3>1, <3>3
      <4> QED BY <3>3, <4>1
    <3>5. X[e] = X[e - 1] - 1 + C[e - 1] /\ Y[e] = Y[e - 1] - 1 + C[e - 1]
      BY <2>4, <3>3
    <3>6. /\ X[e] \in Int /\ Y[e] \in Int /\ X[e - 1] \in Int /\ Y[e - 1] \in Int
          /\ C[e - 1] \in Int
      BY <2>4, <2>6, <3>1, <3>3
    <3>7. X[e] >= Y[e] BY <3>4, <3>5, <3>6
    <3> QED BY <3>1, <3>7
  <2>8. ASSUME NEW e \in i + 1 .. j PROVE Expected(i, e) > 0
    <3>1. CASE e \in i + 1 .. p BY <2>2, <3>1
    <3>2. CASE e \notin i + 1 .. p
      <4>1. e \in p + 1 .. j /\ e \in p .. j BY <1>1, <1>2, <2>1, <3>2
      <4>2. Y[e] > 0 /\ X[e] >= Y[e] /\ X[e] \in Int /\ Y[e] \in Int
        BY <2>3, <2>4, <2>5, <2>7, <4>1
      <4>3. X[e] > 0 BY <4>2
      <4> QED BY <2>5, <4>1, <4>3
    <3> QED BY <3>1, <3>2
  <2> QED BY <2>1, <2>8 DEF Ancestors, Encloses
<1> QED BY <1>3, <1>4

\* The texts of an element are those of its parent and its own.
LEMMA LevelTextsIs ==
  ASSUME WalkInv, phase \notin {"parents", "paths"}, NEW j \in Elements \ {0}
  PROVE  LevelTexts(j) = IF parent[j] <= 0 THEN <<Segment(j)>>
                         ELSE Append(LevelTexts(parent[j]), Segment(j))
<1> DEFINE p == parent[j]
           Chain(x) == ({x} \cup Ancestors(x)) \ {0}
<1>1. /\ schema \in Schemas /\ schema.size \in Nat
      /\ p = Max({-1} \cup Ancestors(j))
  BY SchemaTyped DEF WalkInv, ParentEncloses
<1>2. p \in -1 .. j - 1 /\ (p # -1 => p \in Ancestors(j)) BY <1>1, InnermostIs
<1>3. \A i \in Ancestors(j) : i <= p
  <2> DEFINE S == {-1} \cup Ancestors(j)
  <2>1. S \subseteq -1 .. j /\ j \in Nat /\ \A i \in Ancestors(j) : i \in S
    BY DEF Ancestors, Elements
  <2> SUFFICES ASSUME NEW i \in Ancestors(j) PROVE i <= p OBVIOUS
  <2>2. \E m \in S : \A y \in S : m >= y
    <3> DEFINE T == {k \in 0 .. j + 1 : k - 1 \in S}
    <3>1. T # {} /\ T \subseteq 0 .. j + 1 /\ j + 1 \in Nat
      <4>1. 0 \in T BY <2>1
      <4> QED BY <2>1, <4>1
    <3>2. PICK t \in T : \A u \in T : u <= t
      <4> HIDE DEF T
      <4> QED BY <3>1, GreatestNatural
    <3>3. ASSUME NEW y \in S PROVE t - 1 >= y
      <4>1. y + 1 \in T /\ y \in Int BY <2>1
      <4> QED BY <3>2, <4>1
    <3> QED BY <3>2, <3>3
  <2> HIDE DEF S
  <2>3. \A y \in S : Max(S) >= y BY <2>2 DEF Max
  <2>4. p >= i BY <1>1, <2>1, <2>3 DEF S
  <2>5. i \in Int BY DEF Ancestors
  <2>6. p \in Int BY <1>2, <2>1
  <2> QED BY <2>4, <2>5, <2>6
<1> HIDE DEF p
<1>4. j \in Nat \ {0} BY <1>1 DEF Elements
<1>5. CASE p <= 0
  <2>1. Ancestors(j) \subseteq {0}
    <3>1. \A i \in Ancestors(j) : i \in Nat BY <1>4 DEF Ancestors
    <3> QED BY <1>2, <1>3, <1>5, <3>1
  <2>2. Chain(j) = {j} BY <1>4, <2>1
  <2>3. InOrder({j}) = <<j>>
    <3> DEFINE t == [k \in 1 .. 1 |-> j]
    <3>1. InOrder({t[k] : k \in 1 .. 1}) = t
      <4>1. t \in [1 .. 1 -> Int] /\ \A k, l \in 1 .. 1 : k < l => t[k] < t[l] BY <1>4
      <4> HIDE DEF t
      <4> QED BY <4>1, InOrderIs
    <3>2. {t[k] : k \in 1 .. 1} = {j} OBVIOUS
    <3> QED BY <3>1, <3>2
  <2> HIDE DEF Chain
  <2>4. LevelTexts(j) = <<Segment(j)>> BY <2>2, <2>3 DEF LevelTexts, Chain
  <2> QED BY <1>5, <2>4 DEF p
<1>6. CASE ~(p <= 0)
  <2>1. p \in Ancestors(j) /\ p \in 1 .. j - 1 /\ p \in Elements
    BY <1>1, <1>2, <1>4, <1>6 DEF Elements
  <2>2. Ancestors(j) = Ancestors(p) \cup {p} BY <1>1, <1>3, <2>1, AncestorsOfParent
  <2>3. Chain(j) = Chain(p) \cup {j} BY <1>4, <2>2
  <2>4. Chain(p) \subseteq 0 .. j - 1 BY <1>4, <2>1 DEF Ancestors
  <2>5. \A y \in Chain(p) : y < j BY <1>4, <2>4
  <2> DEFINE c == InOrder(Chain(p))
             d == InOrder(Chain(j))
  <2>6. PICK n \in Nat :
          /\ Ordered(c, n, Chain(p))
          /\ \A x \in Int : (\A y \in Chain(p) : y < x) =>
               InOrder(Chain(p) \cup {x}) = [k \in 1 .. n + 1 |-> IF k = n + 1 THEN x ELSE c[k]]
    <3> HIDE DEF Chain
    <3> QED BY <1>4, <2>4, InOrderLast
  <2>7. d = [k \in 1 .. n + 1 |-> IF k = n + 1 THEN j ELSE c[k]]
    <3> HIDE DEF Chain
    <3> QED BY <1>4, <2>3, <2>5, <2>6
  <2>8. DOMAIN c = 1 .. n BY <2>6 DEF Ordered
  <2> HIDE DEF c, d, Chain
  <2>9. LevelTexts(p) = [k \in 1 .. n |-> Segment(c[k])] BY <2>8 DEF LevelTexts, c, Chain
  <2>10. LevelTexts(j) = [k \in 1 .. n + 1 |-> Segment(d[k])]
    BY <2>7 DEF LevelTexts, d, Chain
  <2> DEFINE T == {Segment(c[k]) : k \in 1 .. n}
             lower == [k \in 1 .. n |-> Segment(c[k])]
  <2>11. lower \in Seq(T) /\ Len(lower) = n
    <3>1. lower \in [1 .. n -> T] OBVIOUS
    <3> HIDE DEF lower, T
    <3> QED BY <3>1
  <2>12. Append(lower, Segment(j)) = [k \in 1 .. n + 1 |-> Segment(d[k])]
    <3>1. \A k \in 1 .. n + 1 : Segment(d[k]) = IF k = n + 1 THEN Segment(j) ELSE Segment(c[k])
      BY <2>7
    <3>2. \A k \in 1 .. n + 1 : k # n + 1 => k \in 1 .. n OBVIOUS
    <3>3. Append(lower, Segment(j)) =
            [k \in 1 .. n + 1 |-> IF k = n + 1 THEN Segment(j) ELSE lower[k]]
      <4> DEFINE Up == T \cup {Segment(j)}
                 u == Append(lower, Segment(j))
                 v == [k \in 1 .. n + 1 |-> IF k = n + 1 THEN Segment(j) ELSE lower[k]]
      <4>1. lower \in [1 .. n -> T] OBVIOUS
      <4> HIDE DEF lower, T
      <4>2. lower \in [1 .. n -> Up] /\ Segment(j) \in Up BY <4>1
      <4> HIDE DEF Up
      <4>3. lower \in Seq(Up) BY <4>2
      <4>4. /\ u \in Seq(Up) /\ Len(u) = n + 1 /\ u[n + 1] = Segment(j)
            /\ \A k \in 1 .. n : u[k] = lower[k]
        BY <2>11, <4>2, <4>3, AppendProperties
      <4>5. u \in [1 .. n + 1 -> Up] BY <4>4, LenProperties
      <4>6. \A k \in 1 .. n + 1 : k # n + 1 => k \in 1 .. n OBVIOUS
      <4> HIDE DEF u
      <4>7. u = v BY <4>4, <4>5, <4>6
      <4> QED BY <4>7 DEF u
    <3> QED BY <3>1, <3>2, <3>3
  <2> HIDE DEF lower, T
  <2>13. LevelTexts(j) = Append(LevelTexts(p), Segment(j)) BY <2>9, <2>10, <2>12 DEF lower
  <2> QED BY <1>6, <2>13 DEF p
<1> QED BY <1>5, <1>6

\* A text without Nul is not a joined one, and a joined one falls apart at its
\* last Nul in one way only.
LEMMA JoinsDiffer ==
  ASSUME NEW Sy, NEW nul \in Sy, NEW s \in Seq(Sy), NEW t \in Seq(Sy),
         nul \notin Range(s), nul \notin Range(t)
  PROVE  /\ \A b \in Seq(Sy) : s # b \o <<nul>> \o t
         /\ \A a, b \in Seq(Sy) : a \o <<nul>> \o s = b \o <<nul>> \o t => a = b /\ s = t
<1> SUFFICES ASSUME NEW a \in Seq(Sy), NEW b \in Seq(Sy)
             PROVE  /\ s # b \o <<nul>> \o t
                    /\ a \o <<nul>> \o s = b \o <<nul>> \o t => a = b /\ s = t
  <2> HIDE DEF Range
  <2> QED OBVIOUS
<1> DEFINE u == a \o <<nul>> \o s
           v == b \o <<nul>> \o t
<1>1. ASSUME NEW c \in Seq(Sy), NEW r \in Seq(Sy)
      PROVE  /\ c \o <<nul>> \o r \in Seq(Sy)
             /\ Len(c \o <<nul>> \o r) = Len(c) + 1 + Len(r)
             /\ \A k \in 1 .. Len(c) : (c \o <<nul>> \o r)[k] = c[k]
             /\ (c \o <<nul>> \o r)[Len(c) + 1] = nul
             /\ \A k \in 1 .. Len(r) : (c \o <<nul>> \o r)[Len(c) + 1 + k] = r[k]
  <2> DEFINE f == c \o <<nul>>
  <2>1. <<nul>> \in Seq(Sy) /\ Len(<<nul>>) = 1 /\ <<nul>>[1] = nul OBVIOUS
  <2>2. PICK m \in Nat : m = Len(c) OBVIOUS
  <2>3. /\ f \in Seq(Sy) /\ Len(f) = m + 1 /\ \A k \in 1 .. m : f[k] = c[k]
        /\ f[m + 1] = nul
    <3>1. /\ f \in Seq(Sy) /\ Len(f) = Len(c) + Len(<<nul>>)
          /\ \A i \in 1 .. Len(c) + Len(<<nul>>) :
               f[i] = IF i <= Len(c) THEN c[i] ELSE <<nul>>[i - Len(c)]
      BY <2>1, ConcatProperties
    <3>2. \A i \in 1 .. m + 1 : f[i] = IF i <= m THEN c[i] ELSE <<nul>>[i - m]
      BY <2>1, <2>2, <3>1
    <3>3. m + 1 \in 1 .. m + 1 /\ ~(m + 1 <= m) /\ (m + 1) - m = 1 BY <2>2
    <3>4. \A i \in 1 .. m : i \in 1 .. m + 1 /\ i <= m BY <2>2
    <3> HIDE DEF f
    <3> QED BY <2>1, <2>2, <3>1, <3>2, <3>3, <3>4
  <2> HIDE DEF f
  <2>4. PICK l \in Nat : l = Len(r) OBVIOUS
  <2>5. /\ f \o r \in Seq(Sy) /\ Len(f \o r) = (m + 1) + l
        /\ \A i \in 1 .. (m + 1) + l : (f \o r)[i] = IF i <= m + 1 THEN f[i] ELSE r[i - (m + 1)]
    <3>1. /\ f \o r \in Seq(Sy) /\ Len(f \o r) = Len(f) + Len(r)
          /\ \A i \in 1 .. Len(f) + Len(r) : (f \o r)[i] = IF i <= Len(f) THEN f[i] ELSE r[i - Len(f)]
      BY <2>3, ConcatProperties
    <3>2. Len(f) = m + 1 /\ Len(r) = l BY <2>3, <2>4
    <3> QED BY <3>1, <3>2, Zenon
  <2> DEFINE g == f \o r
  <2>6. \A k \in 1 .. m : k \in 1 .. (m + 1) + l /\ k <= m + 1 BY <2>2, <2>4
  <2>7. m + 1 \in 1 .. (m + 1) + l BY <2>2, <2>4
  <2>8. \A k \in 1 .. l : m + 1 + k \in 1 .. (m + 1) + l /\ ~(m + 1 + k <= m + 1)
                         /\ (m + 1 + k) - (m + 1) = k
    BY <2>2, <2>4
  <2> HIDE DEF g
  <2>9. /\ g \in Seq(Sy) /\ Len(g) = m + 1 + l /\ \A k \in 1 .. m : g[k] = c[k]
        /\ g[m + 1] = nul /\ \A k \in 1 .. l : g[m + 1 + k] = r[k]
    BY <2>3, <2>5, <2>6, <2>7, <2>8 DEF g
  <2> QED BY <2>2, <2>4, <2>9 DEF f, g
<1>2. PICK la \in Nat : la = Len(a) OBVIOUS
<1>3. PICK lb \in Nat : lb = Len(b) OBVIOUS
<1>4. PICK ls \in Nat : ls = Len(s) OBVIOUS
<1>5. PICK lt \in Nat : lt = Len(t) OBVIOUS
<1>6. /\ u \in Seq(Sy) /\ Len(u) = la + 1 + ls /\ \A k \in 1 .. la : u[k] = a[k]
      /\ u[la + 1] = nul /\ \A k \in 1 .. ls : u[la + 1 + k] = s[k]
  BY <1>1, <1>2, <1>4
<1>7. /\ v \in Seq(Sy) /\ Len(v) = lb + 1 + lt /\ \A k \in 1 .. lb : v[k] = b[k]
      /\ v[lb + 1] = nul /\ \A k \in 1 .. lt : v[lb + 1 + k] = t[k]
  BY <1>1, <1>3, <1>5
<1>8. /\ \A k \in 1 .. ls : s[k] # nul
      /\ \A k \in 1 .. lt : t[k] # nul
  <2>1. DOMAIN s = 1 .. ls /\ DOMAIN t = 1 .. lt BY <1>4, <1>5, LenProperties
  <2> QED BY <2>1 DEF Range
<1> HIDE DEF u, v
<1>9. s # v
  <2> SUFFICES ASSUME s = v PROVE FALSE OBVIOUS
  <2>1. ls = lb + 1 + lt BY <1>4, <1>7
  <2>2. lb + 1 \in 1 .. ls BY <1>3, <1>4, <1>5, <2>1
  <2> QED BY <1>7, <1>8, <2>2
<1>10. ASSUME u = v PROVE a = b /\ s = t
  <2>1. la + 1 + ls = lb + 1 + lt BY <1>6, <1>7, <1>10
  <2>2. ~(la < lb)
    <3> SUFFICES ASSUME la < lb PROVE FALSE OBVIOUS
    <3>1. lb - la \in 1 .. ls /\ la + 1 + (lb - la) = lb + 1
      BY <1>2, <1>3, <1>4, <1>5, <2>1
    <3>2. u[lb + 1] = s[lb - la] BY <1>6, <3>1
    <3> QED BY <1>7, <1>8, <1>10, <3>1, <3>2
  <2>3. ~(lb < la)
    <3> SUFFICES ASSUME lb < la PROVE FALSE OBVIOUS
    <3>1. la - lb \in 1 .. lt /\ lb + 1 + (la - lb) = la + 1
      BY <1>2, <1>3, <1>4, <1>5, <2>1
    <3>2. v[la + 1] = t[la - lb] BY <1>7, <3>1
    <3> QED BY <1>6, <1>8, <1>10, <3>1, <3>2
  <2>4. la = lb /\ ls = lt BY <1>2, <1>3, <1>4, <1>5, <2>1, <2>2, <2>3
  <2>5. \A k \in 1 .. la : a[k] = b[k] BY <1>6, <1>7, <1>10, <2>4
  <2>6. \A k \in 1 .. ls : s[k] = t[k] BY <1>6, <1>7, <1>10, <2>4
  <2>7. a = b BY <1>2, <1>3, <2>4, <2>5, SeqEqual
  <2>8. s = t BY <1>4, <1>5, <2>4, <2>6, SeqEqual
  <2> QED BY <2>7, <2>8
<1> QED BY <1>9, <1>10 DEF u, v

\* A list is told apart by its last element and the rest.
LEMMA AppendsDiffer ==
  ASSUME NEW T, NEW x \in T, NEW y \in T
  PROVE  /\ \A a \in Seq(T) : a # << >> => <<y>> # Append(a, x)
         /\ \A a, b \in Seq(T) : Append(a, x) = Append(b, y) => a = b /\ x = y
<1> SUFFICES ASSUME NEW a \in Seq(T), NEW b \in Seq(T)
             PROVE  /\ a # << >> => <<y>> # Append(a, x)
                    /\ Append(a, x) = Append(b, y) => a = b /\ x = y
  OBVIOUS
<1> DEFINE u == Append(a, x)
           v == Append(b, y)
<1>1. PICK la \in Nat : la = Len(a) OBVIOUS
<1>2. PICK lb \in Nat : lb = Len(b) OBVIOUS
<1>3. /\ u \in Seq(T) /\ Len(u) = la + 1 /\ \A k \in 1 .. la : u[k] = a[k]
      /\ u[la + 1] = x
  BY <1>1, AppendProperties
<1>4. /\ v \in Seq(T) /\ Len(v) = lb + 1 /\ \A k \in 1 .. lb : v[k] = b[k]
      /\ v[lb + 1] = y
  BY <1>2, AppendProperties
<1> HIDE DEF u, v
<1>5. ASSUME a # << >> PROVE <<y>> # u
  <2>1. la # 0 BY <1>1, <1>5, EmptySeq
  <2>2. Len(<<y>>) = 1 OBVIOUS
  <2> QED BY <1>1, <1>3, <2>1, <2>2
<1>6. ASSUME u = v PROVE a = b /\ x = y
  <2>1. la = lb BY <1>1, <1>2, <1>3, <1>4, <1>6
  <2>2. \A k \in 1 .. la : a[k] = b[k] BY <1>3, <1>4, <1>6, <2>1
  <2>3. a = b BY <1>1, <1>2, <2>1, <2>2, SeqEqual
  <2> QED BY <1>3, <1>4, <1>6, <2>1, <2>3
<1> QED BY <1>5, <1>6 DEF u, v

\* What the two induction steps below need of one element.
LEMMA PathAndLevels ==
  ASSUME WalkInv, phase \notin {"parents", "paths"}, WithoutNul, NEW j \in Elements \ {0}
  PROVE  /\ j \in Nat /\ Segment(j) \in Seq(Symbols) /\ Nul \notin Range(Segment(j))
         /\ path[j] \in Seq(Symbols)
         /\ \/ path[j] = Segment(j) /\ LevelTexts(j) = <<Segment(j)>>
            \/ \E p \in Elements \ {0} :
                 /\ p < j
                 /\ path[j] = path[p] \o <<Nul>> \o Segment(j)
                 /\ LevelTexts(j) = Append(LevelTexts(p), Segment(j))
<1>1. /\ schema \in Schemas /\ schema.size \in Nat /\ path \in [Elements -> Seq(Symbols)]
      /\ schema.name \in [0 .. schema.size - 1 -> Names]
  BY SchemasAssumption, SchemaTyped DEF WalkInv, PathInv
<1>2. j \in Nat /\ Segment(j) \in Seq(Symbols) BY <1>1, SchemaTyped DEF Elements
<1>3. Nul \notin Range(Segment(j)) BY <1>1 DEF WithoutNul, Segment, Elements
<1>4. path[j] = JoinedPath(j) BY PathIs
<1>5. /\ parent[j] \in -1 .. j - 1
      /\ parent[j] # -1 => parent[j] \in Elements
  BY ParentIs
<1>6. CASE parent[j] <= 0
  <2>1. path[j] = Segment(j) BY <1>4, <1>6 DEF JoinedPath
  <2> QED BY <1>1, <1>2, <1>3, <1>6, <2>1, LevelTextsIs
<1>7. CASE ~(parent[j] <= 0)
  <2>1. parent[j] \in Elements \ {0} /\ parent[j] < j BY <1>2, <1>5, <1>7
  <2>2. path[j] = path[parent[j]] \o <<Nul>> \o Segment(j) BY <1>4, <1>7 DEF JoinedPath
  <2>3. LevelTexts(j) = Append(LevelTexts(parent[j]), Segment(j)) BY <1>7, LevelTextsIs
  <2> QED BY <1>1, <1>2, <1>3, <2>1, <2>2, <2>3
<1> QED BY <1>6, <1>7

\* The level texts of an element are a list of texts, and not an empty one.
LEMMA LevelTextsType ==
  ASSUME WalkInv, phase \notin {"parents", "paths"}, WithoutNul, NEW j \in Elements \ {0}
  PROVE  LevelTexts(j) \in Seq(Seq(Symbols)) /\ LevelTexts(j) # << >>
<1> DEFINE Typed(x) == LevelTexts(x) \in Seq(Seq(Symbols)) /\ LevelTexts(x) # << >>
           wrong == {x \in Elements \ {0} : ~Typed(x)}
<1> SUFFICES ASSUME wrong # {} PROVE FALSE OBVIOUS
<1>1. PICK x \in wrong : \A y \in wrong : x <= y
  <2>1. wrong \subseteq Nat BY PathAndLevels
  <2> HIDE DEF wrong
  <2> QED BY <2>1, LeastNatural
<1>2. x \in Nat /\ Segment(x) \in Seq(Symbols) BY <1>1, PathAndLevels
<1>3. CASE LevelTexts(x) = <<Segment(x)>>
  <2>1. <<Segment(x)>> \in Seq(Seq(Symbols)) /\ <<Segment(x)>> # << >> BY <1>2
  <2> QED BY <1>1, <1>3, <2>1
<1>4. CASE \E p \in Elements \ {0} :
             /\ p < x
             /\ path[x] = path[p] \o <<Nul>> \o Segment(x)
             /\ LevelTexts(x) = Append(LevelTexts(p), Segment(x))
  <2>1. PICK p \in Elements \ {0} : p < x /\ LevelTexts(x) = Append(LevelTexts(p), Segment(x))
    BY <1>4
  <2>2. p \in Nat BY PathAndLevels
  <2>3. Typed(p) BY <1>1, <1>2, <2>1, <2>2
  <2> DEFINE a == LevelTexts(p)
  <2>4. a \in Seq(Seq(Symbols)) BY <2>3
  <2> HIDE DEF a
  <2>5. Append(a, Segment(x)) \in Seq(Seq(Symbols)) /\ Append(a, Segment(x)) # << >>
    <3>1. /\ Append(a, Segment(x)) \in Seq(Seq(Symbols))
          /\ Len(Append(a, Segment(x))) = Len(a) + 1 /\ Len(a) \in Nat
      BY <1>2, <2>4, AppendProperties
    <3>2. Len(Append(a, Segment(x))) # 0 BY <3>1
    <3>3. Len(<< >>) = 0 OBVIOUS
    <3> QED BY <3>1, <3>2, <3>3
  <2> QED BY <1>1, <2>1, <2>5 DEF a
<1> QED BY <1>1, <1>3, <1>4, PathAndLevels

LEMMA PathsTellLevels ==
  ASSUME WalkInv, phase \notin {"parents", "paths"}, WithoutNul,
         NEW i \in Elements \ {0}, NEW j \in Elements \ {0}
  PROVE  path[i] = path[j] <=> LevelTexts(i) = LevelTexts(j)
<1> DEFINE E == Elements \ {0}
           L(x) == LevelTexts(x)
           Told(x) == \A y \in E : path[x] = path[y] <=> L(x) = L(y)
           wrong == {x \in E : ~Told(x)}
           Top(x) == path[x] = Segment(x) /\ L(x) = <<Segment(x)>>
           Below(x, p) == /\ path[x] = path[p] \o <<Nul>> \o Segment(x)
                          /\ L(x) = Append(L(p), Segment(x))
<1> SUFFICES ASSUME wrong # {} PROVE FALSE OBVIOUS
<1>1. \A x \in E :
        /\ x \in Nat /\ Segment(x) \in Seq(Symbols) /\ Nul \notin Range(Segment(x))
        /\ path[x] \in Seq(Symbols) /\ L(x) \in Seq(Seq(Symbols)) /\ L(x) # << >>
        /\ Top(x) \/ \E p \in E : p < x /\ Below(x, p)
  <2> SUFFICES ASSUME NEW x \in E
               PROVE  /\ x \in Nat /\ Segment(x) \in Seq(Symbols)
                      /\ Nul \notin Range(Segment(x))
                      /\ path[x] \in Seq(Symbols) /\ L(x) \in Seq(Seq(Symbols)) /\ L(x) # << >>
                      /\ Top(x) \/ \E p \in E : p < x /\ Below(x, p)
    OBVIOUS
  <2> QED BY PathAndLevels, LevelTextsType
<1> HIDE DEF L, E
<1>2. PICK x \in wrong : \A y \in wrong : x <= y
  <2>1. wrong \subseteq Nat BY <1>1
  <2> HIDE DEF wrong
  <2> QED BY <2>1, LeastNatural
<1>3. x \in E /\ ~Told(x) /\ \A p \in E : p < x => Told(p)
  <2>1. ASSUME NEW p \in E, p < x, ~Told(p) PROVE FALSE
    <3>1. p \in wrong BY <2>1
    <3>2. x \in Nat /\ p \in Nat BY <1>1, <1>2
    <3> HIDE DEF wrong
    <3> QED BY <1>2, <2>1, <3>1, <3>2
  <2> QED BY <1>2, <2>1
<1> HIDE DEF wrong
<1>4. PICK y \in E : ~(path[x] = path[y] <=> L(x) = L(y)) BY <1>3
<1> HIDE DEF Told
<1>5. Nul \in Symbols BY DEF Symbols
<1> DEFINE s == Segment(x)
           t == Segment(y)
<1>6. /\ s \in Seq(Symbols) /\ Nul \notin Range(s) /\ t \in Seq(Symbols) /\ Nul \notin Range(t)
      /\ Top(x) \/ \E p \in E : p < x /\ Below(x, p)
      /\ Top(y) \/ \E q \in E : q < y /\ Below(y, q)
  BY <1>1, <1>3
<1> DEFINE S == Seq(Symbols)
<1>11. /\ \A b \in S : s # b \o <<Nul>> \o t
       /\ \A b \in S : t # b \o <<Nul>> \o s
       /\ \A a, b \in S : a \o <<Nul>> \o s = b \o <<Nul>> \o t => a = b /\ s = t
  <2>0. s \in Seq(Symbols) /\ Nul \notin Range(s) /\ t \in Seq(Symbols) /\ Nul \notin Range(t)
    BY <1>6
  <2> HIDE DEF s, t
  <2>1. /\ \A b \in Seq(Symbols) : s # b \o <<Nul>> \o t
        /\ \A a, b \in Seq(Symbols) :
             a \o <<Nul>> \o s = b \o <<Nul>> \o t => a = b /\ s = t
    BY <1>5, <2>0, JoinsDiffer, ZenonT(30)
  <2>2. /\ \A b \in Seq(Symbols) : t # b \o <<Nul>> \o s
        /\ \A a, b \in Seq(Symbols) :
             a \o <<Nul>> \o t = b \o <<Nul>> \o s => a = b /\ t = s
    BY <1>5, <2>0, JoinsDiffer, ZenonT(30)
  <2> QED BY <2>1, <2>2
<1>12. /\ \A a \in Seq(S) : a # << >> => <<s>> # Append(a, t) /\ <<t>> # Append(a, s)
       /\ \A a, b \in Seq(S) : Append(a, s) = Append(b, t) => a = b /\ s = t
  <2>1. s \in S /\ t \in S BY <1>6
  <2> HIDE DEF s, t, S
  <2> QED BY <2>1, AppendsDiffer
<1> HIDE DEF S
<1>7. CASE Top(x) /\ Top(y)
  <2>1. <<s>> = <<t>> <=> s = t OBVIOUS
  <2> QED BY <1>4, <1>7, <2>1
<1>13. \A p \in E : path[p] \in S /\ L(p) \in Seq(S) /\ L(p) # << >> BY <1>1 DEF S
<1>8. ASSUME Top(x), NEW q \in E, Below(y, q) PROVE FALSE
  <2>1. s # path[q] \o <<Nul>> \o t /\ <<s>> # Append(L(q), t) BY <1>11, <1>12, <1>13
  <2> QED BY <1>4, <1>8, <2>1, Zenon
<1>9. ASSUME Top(y), NEW p \in E, Below(x, p) PROVE FALSE
  <2>1. t # path[p] \o <<Nul>> \o s /\ <<t>> # Append(L(p), s) BY <1>11, <1>12, <1>13
  <2> QED BY <1>4, <1>9, <2>1, Zenon
<1>10. ASSUME NEW p \in E, p < x, Below(x, p), NEW q \in E, Below(y, q) PROVE FALSE
  <2>1. path[p] = path[q] <=> L(p) = L(q) BY <1>3, <1>10 DEF Told
  <2>2. path[p] \o <<Nul>> \o s = path[q] \o <<Nul>> \o t => path[p] = path[q] /\ s = t
    BY <1>11, <1>13
  <2>3. Append(L(p), s) = Append(L(q), t) => L(p) = L(q) /\ s = t BY <1>12, <1>13
  <2> QED BY <1>4, <1>10, <2>1, <2>2, <2>3, Zenon
<1> QED BY <1>6, <1>7, <1>8, <1>9, <1>10

\* Where no name holds a NUL byte, two elements share a canonical path exactly
\* when their lower-cased names agree level by level, in every schema
\* (parquet_to_modular.cc:745-755): joining the segments loses nothing, and a group
\* never hides behind a leaf of another depth.
THEOREM PathsToldApart ==
  ASSUME WithoutNul
  PROVE  TreeInit /\ [][TreeNext]_treeVars => []PathsDistinguish
<1>1. WalkInv => PathsDistinguish
  <2> SUFFICES ASSUME WalkInv, phase = "laid_out",
                      NEW i \in Elements \ {0}, NEW j \in Elements \ {0}
               PROVE  path[i] = path[j] <=> LevelTexts(i) = LevelTexts(j)
    BY DEF PathsDistinguish
  <2>1. phase \notin {"parents", "paths"} OBVIOUS
  <2> QED BY <2>1, PathsTellLevels
<1> QED BY <1>1, WalkInvariant, PTL

-----------------------------------------------------------------------------
(* Operators.                                                              *)

\* A text hashes to a natural number under every admissible function.
LEMMA HashIsNat ==
  ASSUME hash \in Hashes, NEW t
  PROVE  Fnv1a64(t) \in Nat
BY HashesAssumption DEF Fnv1a64

\* A slot position is in the table.
LEMMA SlotInTable ==
  ASSUME hash \in Hashes, num_slots \in Nat \ {0}, NEW t, NEW d \in Nat
  PROVE  Slot(Fnv1a64(t), d) \in 0 .. num_slots - 1
<1>1. Fnv1a64(t) + d \in Nat
  BY HashIsNat
<1> QED
  BY <1>1, DivMod DEF Slot

\* A slot value is a discriminator and a positive ordinal.
LEMMA SlotValType ==
  ASSUME hash \in Hashes, Leaves \in Nat, NEW o \in 0 .. Leaves - 1
  PROVE  /\ SlotVal(o) \in SlotValues
         /\ SlotVal(o).ord1 = o + 1
         /\ SlotVal(o).disc = Discriminator(LeafPath(o))
         /\ SlotVal(o) # Empty
<1>1. Fnv1a64(LeafPath(o)) \in Nat
  BY HashIsNat
<1>2. Discriminator(LeafPath(o)) \in Nat
  BY <1>1, DiscUnitAssumption, DivMod DEF Discriminator
<1> QED
  BY <1>2 DEF SlotVal, SlotValues, Empty

\* The table has more slots than leaves.
LEMMA TargetExceedsLeaves ==
  ASSUME Leaves \in Nat, Leaves > 0
  PROVE  Target > Leaves
BY DEF Target

\* What a step of either side after the layout leaves alone decides every
\* operator that is built from it.
LEMMA LayoutFixed ==
  ASSUME UNCHANGED <<schema, parent, path, leaf_elem, hash, num_slots>>
  PROVE  /\ Leaves' = Leaves
         /\ \A o : LeafPath(o)' = LeafPath(o)
         /\ \A o : SlotVal(o)' = SlotVal(o)
         /\ \A o, n : LeafSlot(o, n)' = LeafSlot(o, n)
         /\ \A o : Rebuilt(o)' = Rebuilt(o)
BY DEF Leaves, Fnv1a64, Discriminator, LeafPath, LeafElem, SlotVal, CandidateElem, Flat,
       BuildPath, ParentOrdinal, Segment, Elements, Slot, LeafSlot, Rebuilt

-----------------------------------------------------------------------------
(* Type correctness.                                                       *)

LEMMA TypeInit == Init => IndexTypeOK
BY DEF Init, TreeInit, IndexTypeOK, TreePhases, BuildPhases, ReadPhases, Tabled, Leaves, Absent

\* Before the table exists a step only has to keep it that way.
LEMMA TypeLayOut == IndexTypeOK /\ LayOut => IndexTypeOK'
<1> SUFFICES ASSUME IndexTypeOK, LayOut
             PROVE  IndexTypeOK'
  OBVIOUS
<1> USE DEF IndexTypeOK, LayOut, indexVars, readVars, TreePhases, BuildPhases, ReadPhases,
            Tabled, Leaves, Absent
<1>1. CASE VisitElement
  BY <1>1 DEF VisitElement
<1>2. CASE EndParents
  BY <1>2 DEF EndParents
<1>3. CASE NameElement
  <2>1. leaf_elem' \in Seq(Nat) /\ Len(leaf_elem') \in Nat
    BY <1>3 DEF NameElement
  <2> QED
    BY <1>3, <2>1 DEF NameElement
<1>4. CASE EndPaths
  BY <1>4 DEF EndPaths
<1> QED
  BY <1>1, <1>2, <1>3, <1>4 DEF TreeNext

LEMMA TypeStartTable == IndexTypeOK /\ StartTable => IndexTypeOK'
<1> SUFFICES ASSUME IndexTypeOK, StartTable
             PROVE  IndexTypeOK'
  OBVIOUS
<1>1. /\ phase = "laid_out" /\ phase' = "insert"
      /\ Leaves \in Nat /\ Leaves' = Leaves /\ num_slots' = num_slots /\ num_slots > Leaves
      /\ ord' = 0 /\ ord = 0 /\ answer = Absent /\ answer' = Absent
    BY TargetExceedsLeaves
    DEF StartTable, IndexTypeOK, Leaves, Tabled, ReadPhases, readVars, Target
<1>2. idx' \in 0 .. num_slots' - 1
  BY <1>1, SlotInTable DEF StartTable, IndexTypeOK, Home, LeafSlot
<1>3. /\ table' \in [0 .. num_slots' - 1 -> SlotValues']
      /\ \A s \in 0 .. num_slots' - 1 : table'[s] = Empty
  BY <1>1 DEF StartTable, SlotValues, Empty
<1> QED
  BY <1>1, <1>2, <1>3
  DEF StartTable, IndexTypeOK, readVars, BuildPhases, ReadPhases, Tabled, Leaves, Empty, Absent

LEMMA TypeSkipTaken == IndexTypeOK /\ SkipTaken => IndexTypeOK'
<1> SUFFICES ASSUME IndexTypeOK, SkipTaken
             PROVE  IndexTypeOK'
  OBVIOUS
<1>1. UNCHANGED <<schema, parent, path, leaf_elem, hash, num_slots>>
  BY DEF SkipTaken, treeVars
<1>2. /\ Leaves' = Leaves
      /\ \A o : SlotVal(o)' = SlotVal(o)
  BY <1>1, LayoutFixed
<1>3. Tabled /\ idx \in 0 .. num_slots - 1 /\ num_slots \in Nat \ {0}
  BY DEF SkipTaken, IndexTypeOK, Tabled
<1>4. idx' \in 0 .. num_slots' - 1
  BY <1>1, <1>3, DivMod DEF SkipTaken
<1> QED
  BY <1>1, <1>2, <1>3, <1>4
  DEF SkipTaken, IndexTypeOK, treeVars, readVars, Tabled, SlotValues

LEMMA TypeStoreLeaf == IndexTypeOK /\ StoreLeaf => IndexTypeOK'
<1> SUFFICES ASSUME IndexTypeOK, StoreLeaf
             PROVE  IndexTypeOK'
  OBVIOUS
<1>1. UNCHANGED <<schema, parent, path, leaf_elem, hash, num_slots>>
  BY DEF StoreLeaf, treeVars
<1>2. /\ Leaves' = Leaves
      /\ \A o : SlotVal(o)' = SlotVal(o)
  BY <1>1, LayoutFixed
<1>3. /\ phase = "insert" /\ phase' = "insert" /\ Tabled /\ Tabled'
      /\ num_slots \in Nat \ {0} /\ Leaves \in Nat /\ num_slots > Leaves
      /\ ord \in 0 .. Leaves - 1 /\ ord' = ord + 1
      /\ idx \in 0 .. num_slots - 1 /\ hash \in Hashes
      /\ table \in [0 .. num_slots - 1 -> SlotValues]
  BY DEF StoreLeaf, treeVars, IndexTypeOK, Tabled, Leaves
<1>4. idx' \in 0 .. num_slots' - 1
  <2>1. CASE ord + 1 < Leaves
    BY <1>1, <1>3, <2>1, SlotInTable DEF StoreLeaf, Home, LeafSlot
  <2>2. CASE ~(ord + 1 < Leaves)
    BY <1>1, <1>3, <2>2 DEF StoreLeaf
  <2> QED
    BY <2>1, <2>2
<1>5. /\ SlotVal(ord) \in SlotValues /\ SlotVal(ord).ord1 = ord + 1
  BY <1>3, SlotValType
<1>6. table' \in [0 .. num_slots' - 1 -> SlotValues']
  BY <1>1, <1>2, <1>3, <1>5 DEF StoreLeaf, SlotValues
<1>7. ASSUME NEW s \in 0 .. num_slots' - 1, table'[s] # Empty
      PROVE  \E o \in 0 .. ord' - 1 : table'[s] = SlotVal(o)'
  <2>1. CASE s = idx
    <3>1. table'[s] = SlotVal(ord)
      BY <1>1, <1>3, <2>1 DEF StoreLeaf
    <3> QED
      BY <1>2, <1>3, <3>1
  <2>2. CASE s # idx
    <3>1. table'[s] = table[s] /\ s \in 0 .. num_slots - 1
      BY <1>1, <1>3, <2>2 DEF StoreLeaf
    <3>2. \E o \in 0 .. ord - 1 : table[s] = SlotVal(o)
      BY <1>3, <1>7, <3>1 DEF IndexTypeOK
    <3> QED
      BY <1>2, <1>3, <3>1, <3>2
  <2> QED
    BY <2>1, <2>2
<1>8. ord' \in 0 .. Leaves'
  BY <1>2, <1>3
<1> QED
  BY <1>1, <1>2, <1>3, <1>4, <1>6, <1>7, <1>8
  DEF StoreLeaf, IndexTypeOK, treeVars, readVars, ReadPhases

\* A step that leaves the layout and the table alone keeps what is said of them.
LEMMA TypeRead ==
  ASSUME IndexTypeOK,
         UNCHANGED <<schema, cursor, parent, path, leaf_elem, hash, indexVars>>,
         Tabled, phase' \in ReadPhases, ord = Leaves,
         probe' \in Nat, answer' \in {Absent} \cup 0 .. Leaves - 1
  PROVE  IndexTypeOK'
<1>1. /\ Leaves' = Leaves
      /\ \A o : SlotVal(o)' = SlotVal(o)
  BY LayoutFixed DEF indexVars
<1>2. Tabled' /\ phase' \in BuildPhases \cup ReadPhases
  BY DEF Tabled, ReadPhases
<1> QED
  BY <1>1, <1>2 DEF IndexTypeOK, indexVars, SlotValues

LEMMA TypeStep == IndexTypeOK /\ [Next]_vars => IndexTypeOK'
<1> SUFFICES ASSUME IndexTypeOK, [Next]_vars
             PROVE  IndexTypeOK'
  OBVIOUS
<1>1. CASE LayOut
  BY <1>1, TypeLayOut
<1>2. CASE NoLeaves
  BY <1>2
  DEF NoLeaves, IndexTypeOK, indexVars, readVars, BuildPhases, ReadPhases, Tabled, Leaves
<1>3. CASE DoubleSlots
  BY <1>3
  DEF DoubleSlots, IndexTypeOK, treeVars, readVars, BuildPhases, ReadPhases, Tabled, Leaves
<1>4. CASE StartTable
  BY <1>4, TypeStartTable
<1>5. CASE SkipTaken
  BY <1>5, TypeSkipTaken
<1>6. CASE StoreLeaf
  BY <1>6, TypeStoreLeaf
<1>7. CASE Publish
  <2>1. Tabled /\ ord = Leaves /\ phase' \in ReadPhases
    BY <1>7 DEF Publish, Tabled, ReadPhases
  <2> QED
    BY <1>7, <2>1, TypeRead DEF Publish, readVars, IndexTypeOK
<1>8. ASSUME NEW t, Ask(t)
      PROVE  IndexTypeOK'
  <2>1. Tabled /\ ord = Leaves /\ phase' \in ReadPhases
    BY <1>8 DEF Ask, Tabled, ReadPhases, IndexTypeOK
  <2> QED
    BY <1>8, <2>1, TypeRead DEF Ask, IndexTypeOK
<1>9. CASE AnswerAbsent
  <2>1. Tabled /\ ord = Leaves /\ phase' \in ReadPhases
    BY <1>9 DEF AnswerAbsent, Answer, Tabled, ReadPhases, IndexTypeOK
  <2> QED
    BY <1>9, <2>1, TypeRead DEF AnswerAbsent, Answer, IndexTypeOK
<1>10. CASE PassSlot
  <2>1. Tabled /\ ord = Leaves /\ phase' \in ReadPhases /\ probe' \in Nat
    BY <1>10 DEF PassSlot, treeVars, Tabled, ReadPhases, IndexTypeOK
  <2> QED
    BY <1>10, <2>1, TypeRead DEF PassSlot, treeVars, IndexTypeOK
<1>11. CASE AnswerFound
  <2>1. /\ Tabled /\ ord = Leaves /\ phase' \in ReadPhases /\ hash \in Hashes
        /\ num_slots \in Nat \ {0} /\ probe \in Nat /\ Leaves \in Nat
    BY <1>11 DEF AnswerFound, Answer, Tabled, ReadPhases, IndexTypeOK, Leaves
  <2>2. QuerySlot(probe) \in 0 .. num_slots - 1
    BY <2>1, SlotInTable DEF QuerySlot
  <2>3. PICK o \in 0 .. ord - 1 : ProbedSlot = SlotVal(o)
    BY <1>11, <2>1, <2>2 DEF AnswerFound, Missed, ProbedSlot, IndexTypeOK
  <2>4. ProbedSlot.ord1 - 1 \in 0 .. Leaves - 1
    BY <2>1, <2>3, SlotValType
  <2> QED
    BY <1>11, <2>1, <2>4, TypeRead DEF AnswerFound, Answer, IndexTypeOK
<1>12. CASE UNCHANGED vars
  <2>1. /\ Leaves' = Leaves
        /\ \A o : SlotVal(o)' = SlotVal(o)
    BY <1>12, LayoutFixed DEF vars, treeVars, indexVars
  <2> QED
    BY <1>12, <2>1
    DEF vars, treeVars, indexVars, readVars, IndexTypeOK, Tabled, SlotValues
<1> QED
  BY <1>1, <1>2, <1>3, <1>4, <1>5, <1>6, <1>7, <1>8, <1>9, <1>10, <1>11, <1>12
  DEF Next, Build, Resolve

\* The table, the ordinals and the phases keep their types and their ranges: the
\* table has room to spare and holds nothing but values of inserted leaves.
THEOREM IndexTypeCorrect == Spec => []IndexTypeOK
<1>1. Init => IndexTypeOK
  BY TypeInit
<1>2. IndexTypeOK /\ [Next]_vars => IndexTypeOK'
  BY TypeStep
<1> QED
  BY <1>1, <1>2, PTL DEF Spec

-----------------------------------------------------------------------------
(* The probe chains.                                                       *)

\* While nothing that the chains are made of changes, neither do they.
LEMMA ChainFrame ==
  ASSUME UNCHANGED <<schema, parent, path, leaf_elem, hash, num_slots, table, ord>>,
         Tabled, ProbeChain
  PROVE  ProbeChain'
<1>1. /\ \A o : SlotVal(o)' = SlotVal(o)
      /\ \A o, n : LeafSlot(o, n)' = LeafSlot(o, n)
  BY LayoutFixed
<1> QED
  BY <1>1 DEF ProbeChain, PlacedAt, PassesEarlier

\* The value of an empty slot is no leaf's, and different leaves have different
\* slot values.
LEMMA SlotValInjective ==
  ASSUME hash \in Hashes, Leaves \in Nat,
         NEW o \in 0 .. Leaves - 1, NEW p \in 0 .. Leaves - 1, SlotVal(o) = SlotVal(p)
  PROVE  o = p
BY SlotValType

\* Storing a leaf in an empty slot keeps the chains of the leaves before it and
\* completes its own.
LEMMA ChainStoreLeaf ==
  IndexTypeOK /\ ProbeChain /\ InsertChain /\ StoreLeaf => ProbeChain' /\ InsertChain'
<1> SUFFICES ASSUME IndexTypeOK, ProbeChain, InsertChain, StoreLeaf
             PROVE  ProbeChain' /\ InsertChain'
  OBVIOUS
<1>1. UNCHANGED <<schema, parent, path, leaf_elem, hash, num_slots>>
  BY DEF StoreLeaf, treeVars
<1>2. /\ Leaves' = Leaves
      /\ \A o : SlotVal(o)' = SlotVal(o)
      /\ \A o, n : LeafSlot(o, n)' = LeafSlot(o, n)
  BY <1>1, LayoutFixed
<1>3. /\ phase = "insert" /\ Tabled
      /\ num_slots \in Nat \ {0} /\ Leaves \in Nat /\ hash \in Hashes
      /\ ord \in 0 .. Leaves - 1 /\ ord' = ord + 1
      /\ idx \in 0 .. num_slots - 1
      /\ table \in [0 .. num_slots - 1 -> SlotValues]
      /\ table[idx] = Empty /\ table' = [table EXCEPT ![idx] = SlotVal(ord)]
  BY DEF StoreLeaf, treeVars, IndexTypeOK, Tabled, Leaves
<1>4. ASSUME NEW o \in 0 .. ord, NEW k \in 0 .. num_slots - 1,
             table[LeafSlot(o, k)].ord1 \in 1 .. o \/ table[LeafSlot(o, k)] = SlotVal(o)
      PROVE  table'[LeafSlot(o, k)] = table[LeafSlot(o, k)]
  <2>1. LeafSlot(o, k) \in 0 .. num_slots - 1
    BY <1>3, SlotInTable DEF LeafSlot
  <2>2. o \in 0 .. Leaves - 1
    BY <1>3
  <2>3. table[LeafSlot(o, k)] # Empty
    <3>1. SlotVal(o) # Empty
      BY <1>3, <2>2, SlotValType
    <3>2. Empty.ord1 \notin 1 .. o
      BY DEF Empty
    <3> QED
      BY <1>4, <3>1, <3>2
  <2> QED
    BY <1>3, <2>1, <2>3
<1>5. ASSUME NEW o \in 0 .. ord, NEW d \in 0 .. num_slots - 1, PassesEarlier(o, d)
      PROVE  PassesEarlier(o, d)'
  <2> SUFFICES ASSUME NEW k \in 0 .. d - 1
               PROVE  table'[LeafSlot(o, k)'].ord1 \in 1 .. o
    BY DEF PassesEarlier
  <2>1. k \in 0 .. num_slots - 1 /\ table[LeafSlot(o, k)].ord1 \in 1 .. o
    BY <1>3, <1>5 DEF PassesEarlier
  <2> QED
    BY <1>2, <1>4, <2>1
<1>6. ASSUME NEW o \in 0 .. ord - 1
      PROVE  \E d \in 0 .. num_slots' - 1 : PlacedAt(o, d)'
  <2>1. PICK d \in 0 .. num_slots - 1 : PlacedAt(o, d)
    BY <1>3 DEF ProbeChain
  <2>2. o \in 0 .. ord
    BY <1>3
  <2>3. table'[LeafSlot(o, d)] = SlotVal(o)
    BY <1>4, <2>1, <2>2 DEF PlacedAt
  <2>4. PassesEarlier(o, d)'
    BY <1>5, <2>1, <2>2 DEF PlacedAt
  <2> QED
    BY <1>1, <1>2, <2>3, <2>4 DEF PlacedAt
<1>7. ASSUME NEW o \in 0 .. Leaves - 1, ord = o
      PROVE  \E d \in 0 .. num_slots' - 1 : PlacedAt(o, d)'
  <2>1. PICK d \in 0 .. num_slots - 1 : idx = LeafSlot(o, d) /\ PassesEarlier(o, d)
    BY <1>3, <1>7 DEF InsertChain
  <2>2. table'[LeafSlot(o, d)] = SlotVal(o)
    BY <1>3, <1>7, <2>1
  <2>3. PassesEarlier(o, d)'
    BY <1>3, <1>5, <1>7, <2>1
  <2> QED
    BY <1>1, <1>2, <2>2, <2>3 DEF PlacedAt
<1>8. ProbeChain'
  <2> SUFFICES ASSUME NEW o \in 0 .. ord' - 1
               PROVE  \E d \in 0 .. num_slots' - 1 : PlacedAt(o, d)'
    BY DEF ProbeChain
  <2>1. o \in 0 .. ord - 1 \/ (o \in 0 .. Leaves - 1 /\ ord = o)
    BY <1>3
  <2> QED
    BY <1>6, <1>7, <2>1
<1>9. InsertChain'
  <2> SUFFICES ASSUME NEW o \in 0 .. Leaves' - 1, ord' = o
               PROVE  \E d \in 0 .. num_slots' - 1 :
                        idx' = LeafSlot(o, d)' /\ PassesEarlier(o, d)'
    BY DEF InsertChain
  <2>1. ord + 1 = o /\ ord + 1 < Leaves
    BY <1>2, <1>3
  <2>2. idx' = LeafSlot(o, 0)
    BY <2>1 DEF StoreLeaf, Home
  <2>3. PassesEarlier(o, 0)'
    BY DEF PassesEarlier
  <2>4. 0 \in 0 .. num_slots' - 1
    BY <1>1, <1>3
  <2> QED
    BY <1>2, <2>2, <2>3, <2>4
<1> QED
  BY <1>8, <1>9

\* Passing a taken slot extends the walk of the leaf under way; after a full
\* round the walk is back at the home slot.
LEMMA ChainSkipTaken ==
  IndexTypeOK /\ ProbeChain /\ InsertChain /\ SkipTaken => ProbeChain' /\ InsertChain'
<1> SUFFICES ASSUME IndexTypeOK, ProbeChain, InsertChain, SkipTaken
             PROVE  ProbeChain' /\ InsertChain'
  OBVIOUS
<1>1. UNCHANGED <<phase, schema, parent, path, leaf_elem, hash, num_slots, table, ord>>
  BY DEF SkipTaken, treeVars
<1>2. /\ Leaves' = Leaves
      /\ \A o, n : LeafSlot(o, n)' = LeafSlot(o, n)
  BY <1>1, LayoutFixed
<1>3. /\ phase = "insert" /\ Tabled
      /\ num_slots \in Nat \ {0} /\ Leaves \in Nat /\ hash \in Hashes
      /\ ord \in 0 .. Leaves - 1
      /\ idx \in 0 .. num_slots - 1
      /\ table[idx] # Empty
  BY DEF SkipTaken, IndexTypeOK, Tabled, Leaves
<1>4. ProbeChain'
  BY <1>1, <1>3, ChainFrame
<1>5. table[idx].ord1 \in 1 .. ord
  <2>1. PICK p \in 0 .. ord - 1 : table[idx] = SlotVal(p)
    BY <1>3 DEF IndexTypeOK
  <2>2. p \in 0 .. Leaves - 1
    BY <1>3
  <2> QED
    BY <1>3, <2>1, <2>2, SlotValType
<1>6. ASSUME NEW o \in 0 .. Leaves - 1, ord = o
      PROVE  \E d \in 0 .. num_slots - 1 : idx' = LeafSlot(o, d) /\ PassesEarlier(o, d)
  <2>1. PICK d \in 0 .. num_slots - 1 : idx = LeafSlot(o, d) /\ PassesEarlier(o, d)
    BY <1>3, <1>6 DEF InsertChain
  <2> DEFINE h == Fnv1a64(LeafPath(o))
  <2>2. h \in Nat
    BY <1>3, HashIsNat
  <2> HIDE DEF h
  <2>3. idx' = (h + (d + 1)) % num_slots
    <3>1. idx = (h + d) % num_slots /\ idx' = (idx + 1) % num_slots
      BY <2>1 DEF h, LeafSlot, Slot, SkipTaken
    <3>2. (((h + d) % num_slots) + 1) % num_slots = (h + d + 1) % num_slots
      <4>1. h + d \in Nat
        BY <1>3, <2>2
      <4> QED
        BY <1>3, <4>1, NextSlot
    <3>3. h + d + 1 = h + (d + 1)
      BY <2>2
    <3> QED
      BY <3>1, <3>2, <3>3
  <2>4. CASE d + 1 < num_slots
    <3>1. d + 1 \in 0 .. num_slots - 1
      BY <1>3, <2>4
    <3>2. idx' = LeafSlot(o, d + 1)
      BY <2>3 DEF h, LeafSlot, Slot
    <3>3. PassesEarlier(o, d + 1)
      <4> SUFFICES ASSUME NEW k \in 0 .. d
                   PROVE  table[LeafSlot(o, k)].ord1 \in 1 .. o
        BY DEF PassesEarlier
      <4>1. CASE k = d
        BY <1>5, <1>6, <2>1, <4>1
      <4>2. CASE k \in 0 .. d - 1
        BY <2>1, <4>2 DEF PassesEarlier
      <4> QED
        BY <4>1, <4>2
    <3> QED
      BY <3>1, <3>2, <3>3
  <2>5. CASE d + 1 = num_slots
    <3>1. idx' = (h + 0) % num_slots
      <4>1. (h + num_slots) % num_slots = h % num_slots
        BY <1>3, <2>2, WrapSlot
      <4>2. h + 0 = h
        BY <2>2
      <4> QED
        BY <2>3, <2>5, <4>1, <4>2
    <3>2. idx' = LeafSlot(o, 0)
      BY <3>1 DEF h, LeafSlot, Slot
    <3>3. PassesEarlier(o, 0) /\ 0 \in 0 .. num_slots - 1
      BY <1>3 DEF PassesEarlier
    <3> QED
      BY <3>2, <3>3
  <2> QED
    BY <1>3, <2>4, <2>5
<1>7. InsertChain'
  BY <1>1, <1>2, <1>6 DEF InsertChain, PassesEarlier
<1> QED
  BY <1>4, <1>7

LEMMA ChainStartTable == IndexTypeOK /\ StartTable => ProbeChain' /\ InsertChain'
<1> SUFFICES ASSUME IndexTypeOK, StartTable
             PROVE  ProbeChain' /\ InsertChain'
  OBVIOUS
<1>1. UNCHANGED <<schema, parent, path, leaf_elem, hash, num_slots>>
  BY DEF StartTable
<1>2. \A o, n : LeafSlot(o, n)' = LeafSlot(o, n)
  BY <1>1, LayoutFixed
<1>3. ord' = 0 /\ idx' = LeafSlot(0, 0) /\ num_slots' \in Nat \ {0}
  BY <1>1 DEF StartTable, Home, IndexTypeOK
<1>4. ProbeChain'
  BY <1>3 DEF ProbeChain
<1>5. InsertChain'
  <2> SUFFICES ASSUME NEW o \in 0 .. Leaves' - 1, ord' = o
               PROVE  \E d \in 0 .. num_slots' - 1 :
                        idx' = LeafSlot(o, d)' /\ PassesEarlier(o, d)'
    BY DEF InsertChain
  <2>1. idx' = LeafSlot(o, 0)'
    BY <1>2, <1>3
  <2>2. PassesEarlier(o, 0)'
    BY DEF PassesEarlier
  <2>3. 0 \in 0 .. num_slots' - 1
    <3>1. 0 \in 0 .. num_slots - 1
      BY DEF IndexTypeOK
    <3> QED
      BY <1>1, <3>1
  <2> QED
    BY <2>1, <2>2, <2>3
<1> QED
  BY <1>4, <1>5

-----------------------------------------------------------------------------
(* Lookups.                                                                *)

\* A leaf that can be confirmed starts its walk where the query does, so the
\* reader cannot have passed it, and cannot stand at an empty slot or at a later
\* leaf short of it.
LEMMA ConfirmableAhead ==
  ASSUME IndexTypeOK, ProbeChain, ReadChain, phase = "probing",
         NEW o \in 0 .. Leaves - 1, Confirmable(o)
  PROVE  /\ probe < num_slots
         /\ \/ ProbedSlot = SlotVal(o)
            \/ ProbedSlot.ord1 \in 1 .. o
<1>1. /\ Tabled /\ ord = Leaves /\ Leaves \in Nat /\ hash \in Hashes
      /\ num_slots \in Nat \ {0} /\ probe \in 0 .. num_slots
  BY DEF Tabled, ReadPhases, IndexTypeOK, Leaves, ReadChain
<1>2. \A n : LeafSlot(o, n) = QuerySlot(n)
  BY DEF Confirmable, LeafSlot, QuerySlot
<1>3. PICK d \in 0 .. num_slots - 1 : PlacedAt(o, d)
  BY <1>1 DEF ProbeChain
<1>4. ~(d < probe)
  <2> SUFFICES ASSUME d < probe
               PROVE  FALSE
    OBVIOUS
  <2>1. d \in 0 .. probe - 1
    BY <1>1
  <2>2. PICK p \in 0 .. ord - 1 : table[QuerySlot(d)] = SlotVal(p) /\ ~Confirmable(p)
    BY <2>1 DEF ReadChain
  <2>3. SlotVal(o) = SlotVal(p)
    BY <1>2, <1>3, <2>2 DEF PlacedAt
  <2>4. o = p
    BY <1>1, <2>3, SlotValInjective
  <2> QED
    BY <2>2, <2>4
<1>5. CASE d = probe
  BY <1>1, <1>2, <1>3, <1>5 DEF PlacedAt, ProbedSlot
<1>6. CASE probe < d
  <2>1. probe \in 0 .. d - 1
    BY <1>1, <1>6
  <2> QED
    BY <1>1, <1>2, <1>3, <2>1 DEF PlacedAt, PassesEarlier, ProbedSlot
<1> QED
  BY <1>1, <1>4, <1>5, <1>6

LEMMA AnswerAbsentRight ==
  ASSUME IndexTypeOK, ProbeChain, ReadChain, AnswerAbsent
  PROVE  \A p \in 0 .. Leaves - 1 : ~Confirmable(p)
<1> SUFFICES ASSUME NEW o \in 0 .. Leaves - 1, Confirmable(o)
             PROVE  FALSE
  OBVIOUS
<1>1. probe < num_slots /\ (ProbedSlot = SlotVal(o) \/ ProbedSlot.ord1 \in 1 .. o)
  BY ConfirmableAhead DEF AnswerAbsent
<1>2. num_slots \in Nat /\ Leaves \in Nat /\ hash \in Hashes
  BY DEF IndexTypeOK, Leaves
<1>3. ProbedSlot = Empty
  BY <1>1, <1>2 DEF AnswerAbsent, Missed, IndexTypeOK
<1>4. SlotVal(o) # Empty
  BY <1>2, SlotValType
<1> QED
  BY <1>1, <1>3, <1>4 DEF Empty

LEMMA AnswerFoundRight ==
  ASSUME IndexTypeOK, ProbeChain, ReadChain, AnswerFound
  PROVE  \E o \in 0 .. Leaves - 1 :
           /\ answer' = o
           /\ Rebuilt(o) = query
           /\ \A p \in 0 .. o - 1 : ~Confirmable(p)
<1>1. /\ phase = "probing" /\ Tabled /\ ord = Leaves /\ Leaves \in Nat /\ hash \in Hashes
      /\ num_slots \in Nat \ {0} /\ probe \in Nat
  BY DEF AnswerFound, Tabled, ReadPhases, IndexTypeOK, Leaves
<1>2. QuerySlot(probe) \in 0 .. num_slots - 1
  BY <1>1, SlotInTable DEF QuerySlot
<1>3. PICK o \in 0 .. ord - 1 : ProbedSlot = SlotVal(o)
  BY <1>1, <1>2 DEF AnswerFound, Missed, ProbedSlot, IndexTypeOK
<1>4. o \in 0 .. Leaves - 1 /\ ProbedSlot.ord1 = o + 1 /\ ProbedSlot.ord1 - 1 = o
  BY <1>1, <1>3, SlotValType
<1>5. answer' = o /\ Rebuilt(o) = query
  BY <1>4 DEF AnswerFound, Answer, Confirmed
<1>6. ASSUME NEW p \in 0 .. o - 1, Confirmable(p)
      PROVE  FALSE
  <2>1. p \in 0 .. Leaves - 1
    BY <1>1, <1>4
  <2>2. ProbedSlot = SlotVal(p) \/ ProbedSlot.ord1 \in 1 .. p
    BY <1>1, <1>6, <2>1, ConfirmableAhead
  <2>3. ProbedSlot # SlotVal(p)
    BY <1>1, <1>3, <1>4, <2>1, SlotValInjective
  <2> QED
    BY <1>4, <2>2, <2>3
<1> QED
  BY <1>4, <1>5, <1>6

\* One step of the reader that passes a slot.
LEMMA ReadPassSlot ==
  ASSUME IndexTypeOK, ProbeChain, ReadChain, PassSlot
  PROVE  ReadChain'
<1>1. UNCHANGED <<phase, schema, parent, path, leaf_elem, hash, num_slots, table, ord, query>>
  BY DEF PassSlot, treeVars, indexVars
<1>2. /\ \A o : SlotVal(o)' = SlotVal(o)
      /\ \A o : Rebuilt(o)' = Rebuilt(o)
      /\ \A n : QuerySlot(n)' = QuerySlot(n)
      /\ \A o : Confirmable(o)' = Confirmable(o)
  <2>1. /\ \A o : SlotVal(o)' = SlotVal(o)
        /\ \A o : Rebuilt(o)' = Rebuilt(o)
        /\ \A o : LeafPath(o)' = LeafPath(o)
    BY <1>1, LayoutFixed
  <2>2. \A n : QuerySlot(n)' = QuerySlot(n)
    BY <1>1 DEF QuerySlot, Slot, Fnv1a64
  <2> QED
    BY <1>1, <2>1, <2>2 DEF Confirmable
<1>3. /\ phase = "probing" /\ Tabled /\ ord = Leaves /\ Leaves \in Nat /\ hash \in Hashes
      /\ num_slots \in Nat \ {0} /\ probe \in 0 .. num_slots - 1 /\ probe' = probe + 1
      /\ ProbedSlot # Empty /\ ~Confirmed
  BY DEF PassSlot, Missed, Tabled, ReadPhases, IndexTypeOK, Leaves, ReadChain
<1>4. QuerySlot(probe) \in 0 .. num_slots - 1
  BY <1>3, SlotInTable DEF QuerySlot
<1>5. PICK o \in 0 .. ord - 1 : ProbedSlot = SlotVal(o)
  BY <1>3, <1>4 DEF ProbedSlot, IndexTypeOK
<1>6. ~Confirmable(o)
  <2>1. o \in 0 .. Leaves - 1
    BY <1>3
  <2>2. /\ ProbedSlot.ord1 - 1 = o
        /\ ProbedSlot.disc = Discriminator(LeafPath(o))
    BY <1>3, <1>5, <2>1, SlotValType
  <2> QED
    BY <1>3, <2>2 DEF Confirmed, Discriminated, Confirmable
<1>7. ASSUME NEW k \in 0 .. probe' - 1
      PROVE  \E p \in 0 .. ord - 1 : table[QuerySlot(k)] = SlotVal(p) /\ ~Confirmable(p)
  <2>1. CASE k = probe
    BY <1>5, <1>6, <2>1 DEF ProbedSlot
  <2>2. CASE k \in 0 .. probe - 1
    BY <1>3, <2>2 DEF ReadChain
  <2> QED
    BY <1>3, <2>1, <2>2
<1>8. probe' <= num_slots'
  BY <1>1, <1>3
<1> QED
  BY <1>1, <1>2, <1>7, <1>8 DEF ReadChain

-----------------------------------------------------------------------------
(* The inductive invariant.                                                *)

LEMMA IInvStep == IInv /\ [Next]_vars => IInv'
<1> SUFFICES ASSUME IInv, [Next]_vars
             PROVE  IInv'
  OBVIOUS
<1>0. IndexTypeOK /\ ProbeChain /\ InsertChain /\ ReadChain /\ ResolveConfirmable
  BY DEF IInv
<1>t. IndexTypeOK'
  BY <1>0, TypeStep
\* Steps before the table exists: nothing is claimed yet.
<1>1. CASE LayOut \/ NoLeaves \/ DoubleSlots
  <2>1. phase' \in TreePhases \cup {"no_index"}
    BY <1>0, <1>1
    DEF LayOut, TreeNext, VisitElement, EndParents, NameElement, EndPaths, NoLeaves,
        DoubleSlots, treeVars, TreePhases
  <2> QED
    BY <1>t, <2>1
    DEF IInv, ProbeChain, InsertChain, ReadChain, ResolveConfirmable, Tabled, ReadPhases,
        TreePhases
<1>2. CASE StartTable
  <2>1. phase' = "insert"
    BY <1>2 DEF StartTable
  <2> QED
    BY <1>0, <1>2, <1>t, <2>1, ChainStartTable DEF IInv, ReadChain, ResolveConfirmable
<1>3. CASE SkipTaken
  <2>1. phase' = "insert"
    BY <1>3 DEF SkipTaken, treeVars
  <2> QED
    BY <1>0, <1>3, <1>t, <2>1, ChainSkipTaken DEF IInv, ReadChain, ResolveConfirmable
<1>4. CASE StoreLeaf
  <2>1. phase' = "insert"
    BY <1>4 DEF StoreLeaf, treeVars
  <2> QED
    BY <1>0, <1>4, <1>t, <2>1, ChainStoreLeaf DEF IInv, ReadChain, ResolveConfirmable
<1>5. CASE Publish
  <2>1. /\ UNCHANGED <<schema, parent, path, leaf_elem, hash, num_slots, table, ord>>
        /\ Tabled /\ phase' = "ready"
    BY <1>5 DEF Publish, indexVars, Tabled
  <2> QED
    BY <1>0, <1>t, <2>1, ChainFrame DEF IInv, InsertChain, ReadChain, ResolveConfirmable
<1>6. ASSUME NEW t, Ask(t)
      PROVE  IInv'
  <2>1. /\ UNCHANGED <<schema, parent, path, leaf_elem, hash, num_slots, table, ord>>
        /\ Tabled /\ phase' = "probing" /\ probe' = 0
    BY <1>6 DEF Ask, indexVars, Tabled, ReadPhases
  <2>2. 0 <= num_slots'
    BY <1>t DEF IndexTypeOK
  <2> QED
    BY <1>0, <1>t, <2>1, <2>2, ChainFrame
    DEF IInv, InsertChain, ReadChain, ResolveConfirmable
\* The two steps that end a lookup.
<1>7. ASSUME AnswerAbsent \/ AnswerFound
      PROVE  IInv'
  <2>1. /\ UNCHANGED <<schema, parent, path, leaf_elem, hash, num_slots, table, ord, query>>
        /\ Tabled /\ phase' = "answered"
    BY <1>7 DEF AnswerAbsent, AnswerFound, Answer, indexVars, Tabled, ReadPhases
  <2>2. /\ Leaves' = Leaves
        /\ \A o : Rebuilt(o)' = Rebuilt(o)
        /\ \A o : Confirmable(o)' = Confirmable(o)
    BY <2>1, LayoutFixed DEF Confirmable
  <2>3. CASE AnswerAbsent
    <3>1. answer' = Absent /\ \A p \in 0 .. Leaves - 1 : ~Confirmable(p)
      BY <1>0, <2>3, AnswerAbsentRight DEF AnswerAbsent, Answer
    <3>2. ResolveConfirmable'
      BY <2>1, <2>2, <3>1 DEF ResolveConfirmable, Absent
    <3> QED
      BY <1>0, <1>t, <2>1, <3>2, ChainFrame DEF IInv, InsertChain, ReadChain
  <2>4. CASE AnswerFound
    <3>1. ResolveConfirmable'
      BY <1>0, <2>1, <2>2, <2>4, AnswerFoundRight DEF ResolveConfirmable
    <3> QED
      BY <1>0, <1>t, <2>1, <3>1, ChainFrame DEF IInv, InsertChain, ReadChain
  <2> QED
    BY <1>7, <2>3, <2>4
<1>8. CASE PassSlot
  <2>1. /\ UNCHANGED <<schema, parent, path, leaf_elem, hash, num_slots, table, ord>>
        /\ Tabled /\ phase' = "probing"
    BY <1>8 DEF PassSlot, treeVars, indexVars, Tabled, ReadPhases
  <2> QED
    BY <1>0, <1>8, <1>t, <2>1, ChainFrame, ReadPassSlot
    DEF IInv, InsertChain, ResolveConfirmable
<1>9. CASE UNCHANGED vars
  <2>1. UNCHANGED <<schema, parent, path, leaf_elem, hash, num_slots>>
    BY <1>9 DEF vars, treeVars, indexVars
  <2>2. /\ Leaves' = Leaves
        /\ \A o : LeafPath(o)' = LeafPath(o)
        /\ \A o : SlotVal(o)' = SlotVal(o)
        /\ \A o, n : LeafSlot(o, n)' = LeafSlot(o, n)
        /\ \A o : Rebuilt(o)' = Rebuilt(o)
    BY <2>1, LayoutFixed
  <2>3. /\ \A o : Confirmable(o)' = Confirmable(o)
        /\ \A n : QuerySlot(n)' = QuerySlot(n)
    BY <1>9, <2>1, <2>2 DEF Confirmable, QuerySlot, Slot, Fnv1a64, vars, readVars
  <2>4. UNCHANGED <<phase, table, ord, idx, query, probe, answer>>
    BY <1>9 DEF vars, treeVars, indexVars, readVars
  <2>5. ProbeChain' /\ InsertChain'
    BY <1>0, <2>1, <2>2, <2>4
    DEF ProbeChain, PlacedAt, PassesEarlier, InsertChain, Tabled
  <2>6. ReadChain' /\ ResolveConfirmable'
    BY <1>0, <2>1, <2>2, <2>3, <2>4 DEF ReadChain, ResolveConfirmable, Absent
  <2> QED
    BY <1>t, <2>5, <2>6 DEF IInv
<1> QED
  BY <1>1, <1>2, <1>3, <1>4, <1>5, <1>6, <1>7, <1>8, <1>9 DEF Next, Build, Resolve

\* From the home slot of any inserted leaf a walk meets the leaf before an empty
\* slot and before any later leaf, and lookups answer accordingly.
THEOREM IndexInvariant == Spec => []IInv
<1>1. Init => IInv
  BY TypeInit
  DEF Init, TreeInit, IInv, ProbeChain, InsertChain, ReadChain, ResolveConfirmable, Tabled,
      ReadPhases
<1>2. IInv /\ [Next]_vars => IInv'
  BY IInvStep
<1> QED
  BY <1>1, <1>2, PTL DEF Spec

\* Linear probing keeps every inserted leaf reachable from its home slot.
THEOREM ProbeChainHolds == Spec => []ProbeChain
<1>1. IInv => ProbeChain
  BY DEF IInv
<1> QED
  BY <1>1, IndexInvariant, PTL

\* A lookup answers the first leaf that has the queried path and can be
\* confirmed, and absent only when there is no such leaf.
THEOREM LookupCorrect == Spec => []ResolveConfirmable
<1>1. IInv => ResolveConfirmable
  BY DEF IInv
<1> QED
  BY <1>1, IndexInvariant, PTL

-----------------------------------------------------------------------------
(* A slot to spare.                                                        *)

\* No leaf is stored twice.
OnceOnly ==
  Tabled => \A s, t \in 0 .. num_slots - 1 :
              table[s] = table[t] /\ table[s] # Empty => s = t

LEMMA OnceOnlyStep == IndexTypeOK /\ OnceOnly /\ [Next]_vars => OnceOnly'
<1> SUFFICES ASSUME IndexTypeOK, OnceOnly, [Next]_vars
             PROVE  OnceOnly'
  OBVIOUS
<1>1. ASSUME UNCHANGED <<num_slots, table>>, Tabled' => Tabled
      PROVE  OnceOnly'
  BY <1>1 DEF OnceOnly
<1>2. CASE LayOut \/ NoLeaves \/ DoubleSlots
  BY <1>2 DEF LayOut, TreeNext, VisitElement, EndParents, NameElement, EndPaths, NoLeaves,
              DoubleSlots, Tabled, ReadPhases, OnceOnly, treeVars, indexVars
<1>3. CASE StartTable
  BY <1>3 DEF StartTable, OnceOnly
<1>4. CASE StoreLeaf
  <2>1. /\ Tabled /\ Leaves \in Nat /\ ord \in 0 .. Leaves - 1 /\ hash \in Hashes
        /\ num_slots \in Nat \ {0} /\ num_slots' = num_slots
        /\ idx \in 0 .. num_slots - 1
        /\ table \in [0 .. num_slots - 1 -> SlotValues]
        /\ table' = [table EXCEPT ![idx] = SlotVal(ord)]
    BY <1>4 DEF StoreLeaf, IndexTypeOK, Tabled, Leaves
  <2>2. SlotVal(ord).ord1 = ord + 1 BY <2>1, SlotValType
  <2>3. \A s \in 0 .. num_slots - 1 : table[s] # Empty => table[s].ord1 \in 1 .. ord
    <3> SUFFICES ASSUME NEW s \in 0 .. num_slots - 1, table[s] # Empty
                 PROVE  table[s].ord1 \in 1 .. ord
      OBVIOUS
    <3>1. PICK o \in 0 .. ord - 1 : table[s] = SlotVal(o) BY <2>1 DEF IndexTypeOK
    <3> QED BY <2>1, <3>1, SlotValType
  <2>4. \A s \in 0 .. num_slots - 1 : table[s] # SlotVal(ord)
    <3>1. SlotVal(ord) # Empty BY <2>1, SlotValType
    <3> QED BY <2>1, <2>2, <2>3, <3>1
  <2> QED BY <2>1, <2>4 DEF OnceOnly
<1>5. CASE SkipTaken \/ Publish \/ Resolve \/ UNCHANGED vars
  BY <1>1, <1>5 DEF SkipTaken, Publish, Resolve, AnswerAbsent, AnswerFound, Answer, PassSlot,
                    vars, treeVars, indexVars, readVars, Tabled, ReadPhases
<1>6. ASSUME NEW t, Ask(t)
      PROVE  OnceOnly'
  BY <1>1, <1>6 DEF Ask, indexVars, Tabled, ReadPhases
<1> QED BY <1>2, <1>3, <1>4, <1>5, <1>6 DEF Next, Build

\* More slots than leaves and no leaf twice: by the pigeonhole principle some
\* slot is empty, so that the insertion's loop, which has no bound, and every
\* lookup of an absent name end (parquet_to_modular.cc:773).
THEOREM SlotToSpare == Spec => []SpareSlot
<1>1. Init => OnceOnly
  BY DEF Init, TreeInit, OnceOnly, Tabled, ReadPhases
<1>2. IndexTypeOK /\ OnceOnly => SpareSlot
  <2> SUFFICES ASSUME IndexTypeOK, OnceOnly, Tabled,
                      \A s \in 0 .. num_slots - 1 : table[s] # Empty
               PROVE  FALSE
    BY DEF SpareSlot
  <2> DEFINE S == 0 .. num_slots - 1
             T == 1 .. Leaves
             f == [s \in S |-> table[s].ord1]
  <2>1. /\ num_slots \in Nat \ {0} /\ Leaves \in Nat /\ num_slots > Leaves
        /\ ord \in 0 .. Leaves /\ hash \in Hashes
    BY DEF IndexTypeOK, Leaves
  <2>2. \A s \in S : \E o \in 0 .. ord - 1 : table[s] = SlotVal(o) /\ table[s].ord1 = o + 1
    <3> SUFFICES ASSUME NEW s \in S
                 PROVE  \E o \in 0 .. ord - 1 : table[s] = SlotVal(o) /\ table[s].ord1 = o + 1
      OBVIOUS
    <3>1. PICK o \in 0 .. ord - 1 : table[s] = SlotVal(o) BY DEF IndexTypeOK
    <3>2. SlotVal(o).ord1 = o + 1 BY <2>1, SlotValType
    <3> QED BY <3>1, <3>2
  <2>3. f \in [S -> T]
    <3>1. \A s \in S : table[s].ord1 \in T BY <2>1, <2>2
    <3> QED BY <3>1
  <2>4. /\ IsFiniteSet(S) /\ Cardinality(S) = num_slots
        /\ IsFiniteSet(T) /\ Cardinality(T) = Leaves
    BY <2>1, FS_Interval
  <2>5. Cardinality(T) < Cardinality(S) BY <2>1, <2>4
  <2> HIDE DEF S, T, f
  <2>6. PICK x, y \in S : x # y /\ f[x] = f[y]
    BY <2>3, <2>4, <2>5, FS_PigeonHole
  <2>7. table[x].ord1 = table[y].ord1 BY <2>6 DEF f
  <2>8. PICK o \in 0 .. ord - 1 : table[x] = SlotVal(o) /\ table[x].ord1 = o + 1 BY <2>2, <2>6
  <2>9. PICK p \in 0 .. ord - 1 : table[y] = SlotVal(p) /\ table[y].ord1 = p + 1 BY <2>2, <2>6
  <2>10. o = p BY <2>1, <2>7, <2>8, <2>9
  <2>11. table[x] = table[y] BY <2>8, <2>9, <2>10
  <2> QED BY <2>6, <2>11 DEF OnceOnly, S
<1>3. IndexTypeOK /\ OnceOnly /\ [Next]_vars => OnceOnly' BY OnceOnlyStep
<1> QED BY <1>1, <1>2, <1>3, IndexTypeCorrect, PTL DEF Spec

-----------------------------------------------------------------------------
(* The walk under the index.                                               *)

LEMMA IndexWalkStep == WalkInv /\ [Next]_vars => WalkInv'
<1> SUFFICES ASSUME WalkInv, [Next]_vars PROVE WalkInv' OBVIOUS
<1>1. CASE LayOut BY <1>1, WalkStep DEF LayOut
<1>2. CASE UNCHANGED vars BY <1>2, WalkStutter DEF vars
<1>3. CASE DoubleSlots \/ SkipTaken \/ StoreLeaf \/ PassSlot
  BY <1>3, WalkStutter DEF DoubleSlots, SkipTaken, StoreLeaf, PassSlot
<1>4. CASE NoLeaves \/ StartTable \/ Publish BY <1>4, LaidOutWalk DEF NoLeaves, StartTable, Publish
<1>5. ASSUME NEW t, Ask(t) PROVE WalkInv' BY <1>5, LaidOutWalk DEF Ask
<1>6. CASE AnswerAbsent \/ AnswerFound
  BY <1>6, LaidOutWalk DEF AnswerAbsent, AnswerFound, Answer
<1> QED BY <1>1, <1>2, <1>3, <1>4, <1>5, <1>6 DEF Next, Build, Resolve

\* The walk keeps its invariant while it lays the index out, and so does all
\* that comes after.
THEOREM IndexWalk == Spec => []WalkInv
<1>1. Init => WalkInv BY WalkInit DEF Init
<1> QED BY <1>1, IndexWalkStep, PTL DEF Spec

\* The stack of counters gives every element the innermost group whose subtree,
\* by the child counts alone, still has room for it: for every list of counts,
\* the ones of no tree and the negative ones too.
THEOREM ParentsCorrect == Spec => []ParentEncloses
<1>1. WalkInv => ParentEncloses BY DEF WalkInv
<1> QED BY <1>1, IndexWalk, PTL

-----------------------------------------------------------------------------
(* The rebuilt path.                                                       *)

\* With the flat short cut or without, the reader climbs to the parent.
LEMMA ParentOrdinalIs ==
  ASSUME WalkInv, phase \notin {"parents", "paths"}, NEW e \in Elements
  PROVE  ParentOrdinal(e) = IF parent[e] <= 0 THEN 0 ELSE parent[e]
<1>1. CASE ~Flat BY <1>1 DEF ParentOrdinal
<1>2. CASE Flat
  <2>1. schema.size = Leaves + 1 /\ Leaves \in Nat BY <1>2 DEF Flat, WalkInv, LeafInv, Leaves
  <2>2. parent[e] \in -1 .. e - 1 BY ParentIs
  <2>3. e \in Int BY <2>1 DEF Elements
  <2>4. parent[e] <= 0
    <3> SUFFICES ASSUME ~(parent[e] <= 0) PROVE FALSE OBVIOUS
    <3> DEFINE p == parent[e]
    <3>1. p \in Elements /\ schema.num_children[p] > 0 BY <2>2, <2>3, ParentIs
    <3>2. p \in 1 .. Leaves BY <2>1, <2>2, <2>3, <3>1 DEF Elements
    <3> HIDE DEF p
    <3>3. leaf_elem[p] = p BY <2>1, <3>2, LeafIs
    <3>4. schema.num_children[leaf_elem[p]] = 0 BY <3>2 DEF WalkInv, LeafInv
    <3> QED BY <3>1, <3>3, <3>4
  <2> QED BY <1>2, <2>4 DEF ParentOrdinal
<1> QED BY <1>1, <1>2

\* Climbing from an element past the root and joining on the way back gives the
\* element's path.
LEMMA BuildPathIs ==
  ASSUME WalkInv, phase \notin {"parents", "paths"}, GroupsNamed, NEW leaf \in Elements \ {0}
  PROVE  BuildPath(leaf) = path[leaf]
<1> DEFINE Body(r) == [e \in Elements |->
                         IF ParentOrdinal(e) = 0
                         THEN Segment(e)
                         ELSE LET out == r[ParentOrdinal(e)]
                              IN IF out = << >> THEN Segment(e)
                                 ELSE out \o <<Nul>> \o Segment(e)]
           up == CHOOSE r : r = Body(r)
           g == [e \in Elements |-> IF e = 0 THEN Segment(e) ELSE path[e]]
<1>1. BuildPath(leaf) = up[leaf] BY DEF BuildPath
<1>2. schema.size \in Nat /\ Elements \subseteq Nat BY SchemaTyped DEF WalkInv, Elements
<1>3. ASSUME NEW e \in Elements
      PROVE  \/ ParentOrdinal(e) = 0 /\ g[e] = Segment(e)
             \/ /\ ParentOrdinal(e) \in Elements \ {0} /\ ParentOrdinal(e) < e
                /\ g[ParentOrdinal(e)] # << >>
                /\ g[e] = g[ParentOrdinal(e)] \o <<Nul>> \o Segment(e)
  <2> DEFINE p == parent[e]
  <2>1. p \in -1 .. e - 1 /\ (p # -1 => p \in Elements /\ schema.num_children[p] > 0)
    BY ParentIs
  <2>2. ParentOrdinal(e) = IF p <= 0 THEN 0 ELSE p BY ParentOrdinalIs
  <2>3. e \in Nat BY <1>2
  <2>4. e # 0 => path[e] = IF p <= 0 THEN Segment(e) ELSE path[p] \o <<Nul>> \o Segment(e)
    BY PathIs DEF JoinedPath
  <2> HIDE DEF p
  <2>5. CASE p <= 0
    <3>1. e # 0 => path[e] = Segment(e) BY <2>4, <2>5
    <3> QED BY <2>2, <2>5, <3>1
  <2>6. CASE ~(p <= 0)
    <3>1. p \in Elements \ {0} /\ p < e /\ e # 0 /\ schema.num_children[p] > 0
      BY <2>1, <2>3, <2>6
    <3>2. path[p] # << >> BY <3>1, GroupPathNotEmpty
    <3>3. g[p] = path[p] /\ g[e] = path[e] BY <3>1
    <3>4. ParentOrdinal(e) = p BY <2>2, <2>6
    <3> HIDE DEF g
    <3> QED BY <2>4, <2>6, <3>1, <3>2, <3>3, <3>4
  <2> QED BY <2>5, <2>6
<1>4. g = Body(g)
  <2>1. \A e \in Elements : g[e] = Body(g)[e]
    <3> SUFFICES ASSUME NEW e \in Elements PROVE g[e] = Body(g)[e] OBVIOUS
    <3> DEFINE G == g
    <3> HIDE DEF G
    <3>1. Body(G)[e] = IF ParentOrdinal(e) = 0 THEN Segment(e)
                       ELSE IF G[ParentOrdinal(e)] = << >> THEN Segment(e)
                            ELSE G[ParentOrdinal(e)] \o <<Nul>> \o Segment(e)
      OBVIOUS
    <3>2. G[e] = Body(G)[e]
      <4> HIDE DEF Body
      <4> QED BY <1>3, <3>1 DEF G
    <3> QED BY <3>2 DEF G
  <2> QED BY <2>1
<1> HIDE DEF g
<1>5. up = Body(up)
  <2> HIDE DEF Body
  <2> QED BY <1>4
<1> HIDE DEF up
<1> DEFINE D == {e \in Elements : up[e] # g[e]}
<1>6. D = {}
  <2> SUFFICES ASSUME D # {} PROVE FALSE OBVIOUS
  <2>1. PICK e \in D : \A y \in D : e <= y
    <3>1. D \subseteq Nat BY <1>2
    <3> HIDE DEF D
    <3> QED BY <3>1, LeastNatural
  <2> DEFINE q == ParentOrdinal(e)
  <2>2. up[e] = IF q = 0 THEN Segment(e)
                ELSE IF up[q] = << >> THEN Segment(e) ELSE up[q] \o <<Nul>> \o Segment(e)
    BY <1>5, <2>1
  <2> HIDE DEF q
  <2>3. \/ q = 0 /\ g[e] = Segment(e)
        \/ /\ q \in Elements \ {0} /\ q < e /\ g[q] # << >>
           /\ g[e] = g[q] \o <<Nul>> \o Segment(e)
    BY <1>3, <2>1 DEF q
  <2>4. q \in Elements /\ q < e => up[q] = g[q]
    <3> SUFFICES ASSUME q \in Elements, q < e, q \in D PROVE FALSE OBVIOUS
    <3>1. e <= q /\ e \in Nat /\ q \in Nat BY <1>2, <2>1
    <3> QED BY <3>1
  <2> QED BY <2>1, <2>2, <2>3, <2>4
<1>7. up[leaf] = path[leaf] BY <1>6 DEF g
<1> QED BY <1>1, <1>7

LEMMA RebuiltIs ==
  ASSUME WalkInv, phase \notin {"parents", "paths"}, GroupsNamed, NEW o \in 0 .. Leaves - 1
  PROVE  Rebuilt(o) = LeafPath(o)
<1>1. Leaves \in Nat BY DEF WalkInv, LeafInv, Leaves
<1>2. o + 1 \in 1 .. Leaves BY <1>1
<1>3. leaf_elem[o + 1] \in Elements \ {0} /\ (schema.size = Leaves + 1 => leaf_elem[o + 1] = o + 1)
  BY <1>2, LeafIs
<1>4. CandidateElem(o) = LeafElem(o) BY <1>3 DEF CandidateElem, Flat, LeafElem
<1> QED BY <1>3, <1>4, BuildPathIs DEF Rebuilt, LeafPath, LeafElem

LEMMA NamedStep == GroupsNamed /\ [Next]_vars => GroupsNamed'
<1> SUFFICES ASSUME GroupsNamed, [Next]_vars PROVE GroupsNamed' OBVIOUS
<1>1. schema' = schema
  BY DEF Next, Build, Resolve, LayOut, TreeNext, VisitElement, EndParents, NameElement, EndPaths,
         NoLeaves, DoubleSlots, StartTable, SkipTaken, StoreLeaf, Publish, Ask, AnswerAbsent,
         AnswerFound, PassSlot, Answer, vars, treeVars
<1> QED BY <1>1 DEF GroupsNamed, Elements, Segment

\* In a schema whose groups have names the path that a reader rebuilds is the one
\* that the writer hashed, for every nesting and with the flat encoding's short
\* cuts (schema_index_check.cc:294-309 against parquet_to_modular.cc:750-755).
THEOREM PathsRebuilt == Spec /\ GroupsNamed => []PathRebuilt
<1>1. WalkInv /\ GroupsNamed => PathRebuilt
  <2> SUFFICES ASSUME WalkInv, GroupsNamed, Tabled, NEW o \in 0 .. Leaves - 1
               PROVE  Rebuilt(o) = LeafPath(o)
    BY DEF PathRebuilt
  <2>1. phase \notin {"parents", "paths"} BY DEF Tabled, ReadPhases
  <2> QED BY <2>1, RebuiltIs
<1> QED BY <1>1, IndexWalk, NamedStep, PTL DEF Spec

-----------------------------------------------------------------------------
(* The answer, and the name map.                                           *)

\* Where every path is rebuilt as it was hashed, what can be confirmed is what
\* has the path, and the first of it is the answer.
LEMMA FirstIsAnswer ==
  ASSUME IInv, WalkInv, GroupsNamed, phase = "answered"
  PROVE  answer = FirstOrdinal(query)
<1> DEFINE same == {o \in 0 .. Leaves - 1 : LeafPath(o) = query}
<1>1. Leaves \in Nat BY DEF WalkInv, LeafInv, Leaves
<1>2. \A o \in 0 .. Leaves - 1 : Rebuilt(o) = LeafPath(o) BY RebuiltIs
<1>3. \A o \in 0 .. Leaves - 1 : Confirmable(o) <=> o \in same BY <1>2 DEF Confirmable
<1>4. FirstOrdinal(query) = IF same = {} THEN Absent ELSE Min(same) BY DEF FirstOrdinal
<1>5. CASE /\ answer = Absent
           /\ \A p \in 0 .. Leaves - 1 : ~Confirmable(p)
  <2>1. same = {} BY <1>3, <1>5
  <2> QED BY <1>4, <1>5, <2>1
<1>6. CASE \E o \in 0 .. Leaves - 1 :
             /\ answer = o
             /\ Rebuilt(o) = query
             /\ \A p \in 0 .. o - 1 : ~Confirmable(p)
  <2>1. PICK o \in 0 .. Leaves - 1 :
             /\ answer = o
             /\ Rebuilt(o) = query
             /\ \A p \in 0 .. o - 1 : ~Confirmable(p)
    BY <1>6
  <2>2. o \in same BY <1>2, <2>1
  <2>3. \A p \in same : p \in Nat /\ p >= o
    <3> SUFFICES ASSUME NEW p \in same, p < o PROVE FALSE
      BY <1>1
    <3>1. p \in 0 .. o - 1 /\ p \in 0 .. Leaves - 1 BY <1>1
    <3> QED BY <1>3, <2>1, <3>1
  <2> HIDE DEF same
  <2>4. Min(same) \in same /\ \A p \in same : Min(same) <= p BY <2>2, <2>3 DEF Min
  <2>5. Min(same) = o
    <3>1. Min(same) \in Nat /\ o \in Nat /\ Min(same) >= o /\ Min(same) <= o
      BY <2>2, <2>3, <2>4
    <3> QED BY <3>1
  <2>6. same # {} BY <2>2
  <2> QED BY <1>4, <2>1, <2>5, <2>6
<1> QED BY <1>5, <1>6 DEF IInv, ResolveConfirmable

\* A lookup answers the first leaf that has the queried path, and absent only
\* when no leaf has it, whatever collides with what.
THEOREM FirstLeafAnswered == Spec /\ GroupsNamed => []ResolveFirst
<1>1. IInv /\ WalkInv /\ GroupsNamed => ResolveFirst BY FirstIsAnswer DEF ResolveFirst
<1> QED BY <1>1, IndexInvariant, IndexWalk, NamedStep, PTL DEF Spec

\* The map's texts, as the leaves that were inserted.
LEMMA MapIs ==
  ASSUME ord \in Nat
  PROVE  /\ DOMAIN [k \in 1 .. ord |-> LeafPath(k - 1)] = 1 .. ord
         /\ Len([k \in 1 .. ord |-> LeafPath(k - 1)]) = ord
<1> DEFINE m == [k \in 1 .. ord |-> LeafPath(k - 1)]
           T == {LeafPath(k - 1) : k \in 1 .. ord}
<1>1. m \in [1 .. ord -> T] OBVIOUS
<1> HIDE DEF m, T
<1>2. m \in Seq(T) BY <1>1
<1>3. Len(m) = ord /\ DOMAIN m = 1 .. ord BY <1>1, <1>2
<1> QED BY <1>3 DEF m

\* The map's answer is the index's.
LEMMA MapFirstIs ==
  ASSUME Leaves \in Nat, ord = Leaves, NEW t
  PROVE  Map!FirstOrdinal(t) = FirstOrdinal(t)
<1> DEFINE same == {o \in 0 .. Leaves - 1 : LeafPath(o) = t}
           m == [k \in 1 .. ord |-> LeafPath(k - 1)]
           First(k) == m[k] = t /\ \A j \in 1 .. k - 1 : m[j] # t
           c == CHOOSE k \in DOMAIN m : First(k)
<1>1. DOMAIN m = 1 .. Leaves BY MapIs
<1>2. \A k \in 1 .. Leaves : m[k] = LeafPath(k - 1) OBVIOUS
<1>3. Map!FirstOrdinal(t) = IF \E k \in DOMAIN m : m[k] = t THEN c - 1 ELSE Absent
  BY DEF Map!FirstOrdinal
<1>4. FirstOrdinal(t) = IF same = {} THEN Absent ELSE Min(same) BY DEF FirstOrdinal
<1>5. CASE same = {}
  <2>1. ASSUME NEW k \in 1 .. Leaves, m[k] = t PROVE FALSE
    <3>1. k - 1 \in 0 .. Leaves - 1 /\ LeafPath(k - 1) = t BY <1>2, <2>1
    <3>2. k - 1 \in same BY <3>1
    <3> QED BY <1>5, <3>2
  <2> HIDE DEF m
  <2> QED BY <1>1, <1>3, <1>4, <1>5, <2>1
<1>6. CASE same # {}
  <2>1. same \subseteq Nat OBVIOUS
  <2>2. PICK o \in same : \A p \in same : o <= p
    <3> HIDE DEF same
    <3> QED BY <1>6, <2>1, LeastNatural
  <2>3. Min(same) = o
    <3> HIDE DEF same
    <3>1. Min(same) \in same /\ \A p \in same : Min(same) <= p BY <2>2 DEF Min
    <3>2. Min(same) \in Nat /\ o \in Nat BY <2>1, <2>2, <3>1
    <3> QED BY <2>2, <3>1, <3>2
  <2>4. /\ o \in 0 .. Leaves - 1 /\ LeafPath(o) = t /\ o + 1 \in 1 .. Leaves
        /\ (o + 1) - 1 = o
    OBVIOUS
  <2>5. m[o + 1] = t BY <1>2, <2>4
  <2>6. ASSUME NEW k \in 1 .. Leaves, m[k] = t PROVE k >= o + 1
    <3>1. k - 1 \in 0 .. Leaves - 1 /\ LeafPath(k - 1) = t BY <1>2, <2>6
    <3>2. k - 1 \in same BY <3>1
    <3>3. o <= k - 1 BY <2>2, <3>2
    <3> QED BY <2>4, <3>3
  <2> HIDE DEF m
  <2>7. First(o + 1)
    <3> SUFFICES ASSUME NEW j \in 1 .. (o + 1) - 1, m[j] = t PROVE FALSE
      BY <2>5
    <3>1. j \in 1 .. Leaves /\ j < o + 1 BY <2>4
    <3> QED BY <2>4, <2>6, <3>1
  <2>8. c \in 1 .. Leaves /\ First(c)
    <3> HIDE DEF First
    <3> QED BY <1>1, <2>4, <2>7
  <2> HIDE DEF c
  <2>9. c = o + 1
    <3>1. c >= o + 1 BY <2>6, <2>8
    <3>2. c > o + 1 => o + 1 \in 1 .. c - 1 BY <2>4, <2>8
    <3> QED BY <2>4, <2>5, <2>8, <3>1, <3>2
  <2> HIDE DEF same
  <2> QED BY <1>1, <1>3, <1>4, <1>6, <2>3, <2>4, <2>5, <2>9
<1> QED BY <1>5, <1>6

LEMMA FirstIsNextAnswer ==
  IInv' /\ WalkInv' /\ GroupsNamed' => ResolveFirst'
<1>1. IInv /\ WalkInv /\ GroupsNamed => ResolveFirst BY FirstIsAnswer DEF ResolveFirst
<1> QED BY <1>1, PTL

\* Every step of the index is one of the map, or invisible to it.
LEMMA MapStep ==
  IInv /\ IInv' /\ WalkInv' /\ GroupsNamed' /\ [Next]_vars => [Map!Next]_(Map!vars)
<1> SUFFICES ASSUME IInv, IInv', WalkInv', GroupsNamed', [Next]_vars
             PROVE  [Map!Next]_(Map!vars)
  OBVIOUS
<1> DEFINE added == [k \in 1 .. ord |-> LeafPath(k - 1)]
           sealed == phase \in ReadPhases
           asking == phase = "probing"
<1>1. /\ ord \in Nat /\ ord' \in Nat /\ Leaves \in Nat
      /\ IndexTypeOK /\ IndexTypeOK'
  <2>1. IndexTypeOK /\ IndexTypeOK' BY DEF IInv
  <2>2. ord \in Nat /\ Leaves \in Nat BY <2>1 DEF IndexTypeOK, Leaves
  <2>3. ord' \in Nat BY <2>1 DEF IndexTypeOK, Leaves
  <2> QED BY <2>1, <2>2, <2>3
<1>2. ASSUME added' = added, sealed' <=> sealed, asking' <=> asking,
             query' = query, answer' = answer
      PROVE  UNCHANGED Map!vars
  BY <1>2 DEF Map!vars
<1>3. ASSUME UNCHANGED <<schema, parent, path, leaf_elem, hash, num_slots, ord>>
      PROVE  added' = added
  BY <1>3, LayoutFixed
<1>4. CASE LayOut \/ NoLeaves \/ DoubleSlots \/ StartTable
  <2>1. phase \in TreePhases /\ phase' \in BuildPhases /\ query' = query /\ answer' = answer
        /\ ord = 0 /\ ord' = 0
    BY <1>1, <1>4
    DEF LayOut, TreeNext, VisitElement, EndParents, NameElement, EndPaths, NoLeaves,
        DoubleSlots, StartTable, treeVars, indexVars, readVars, TreePhases, BuildPhases,
        IndexTypeOK, Tabled, ReadPhases
  <2>2. added' = added
    <3>1. 1 .. 0 = {} OBVIOUS
    <3> QED BY <2>1, <3>1
  <2> HIDE DEF added
  <2> QED BY <1>2, <2>1, <2>2 DEF TreePhases, BuildPhases, ReadPhases
<1>5. CASE SkipTaken
  <2>1. /\ UNCHANGED <<schema, parent, path, leaf_elem, hash, num_slots, ord>>
        /\ phase' = phase /\ query' = query /\ answer' = answer
    BY <1>5 DEF SkipTaken, treeVars, readVars
  <2>2. added' = added BY <1>3, <2>1
  <2> HIDE DEF added
  <2> QED BY <1>2, <2>1, <2>2
<1>6. CASE StoreLeaf
  <2>1. /\ UNCHANGED <<schema, parent, path, leaf_elem, hash, num_slots>>
        /\ phase' = phase /\ phase = "insert" /\ query' = query /\ answer' = answer
        /\ ord' = ord + 1
    BY <1>6 DEF StoreLeaf, treeVars, readVars
  <2>2. \A o : LeafPath(o)' = LeafPath(o) BY <2>1, LayoutFixed
  <2>3. DOMAIN added = 1 .. ord /\ Len(added) = ord BY <1>1, MapIs
  <2>4. added' = [k \in 1 .. ord + 1 |-> LeafPath(k - 1)] BY <2>1, <2>2
  <2>5. Len(added') = ord + 1
    <3> DEFINE T == {LeafPath(k - 1) : k \in 1 .. ord + 1}
    <3>1. added' \in [1 .. ord + 1 -> T] BY <2>4
    <3> HIDE DEF added, T
    <3>2. ord + 1 \in Nat BY <1>1
    <3> QED BY <3>1, <3>2
  <2>6. \A k \in DOMAIN added : added'[k] = added[k]
    <3>1. \A k \in 1 .. ord : k \in 1 .. ord + 1 BY <1>1
    <3> QED BY <2>3, <2>4, <3>1
  <2>7. ~sealed /\ (sealed' <=> sealed) /\ (asking' <=> asking)
    BY <2>1 DEF ReadPhases
  <2> HIDE DEF added
  <2>8. Map!Add BY <2>1, <2>3, <2>5, <2>6, <2>7 DEF Map!Add, added
  <2> QED BY <2>8 DEF Map!Next
<1>7. CASE Publish
  <2>1. /\ UNCHANGED <<schema, parent, path, leaf_elem, hash, num_slots, ord>>
        /\ phase = "insert" /\ phase' = "ready" /\ query' = query /\ answer' = answer
    BY <1>7 DEF Publish, indexVars, readVars
  <2>2. added' = added BY <1>3, <2>1
  <2>3. ~sealed /\ sealed' = TRUE /\ (asking' <=> asking) BY <2>1 DEF ReadPhases
  <2> HIDE DEF added
  <2>4. Map!Seal BY <2>1, <2>2, <2>3 DEF Map!Seal, added
  <2> QED BY <2>4 DEF Map!Next
<1>8. ASSUME NEW t, Ask(t) PROVE [Map!Next]_(Map!vars)
  <2>1. /\ UNCHANGED <<schema, parent, path, leaf_elem, hash, num_slots, ord>>
        /\ phase \in {"ready", "answered"} /\ phase' = "probing" /\ answer' = answer
    BY <1>8 DEF Ask, indexVars
  <2>2. added' = added BY <1>3, <2>1
  <2>3. sealed /\ (sealed' <=> sealed) /\ ~asking /\ asking' = TRUE BY <2>1 DEF ReadPhases
  <2> HIDE DEF added
  <2>4. Map!Ask BY <2>1, <2>2, <2>3 DEF Map!Ask, added
  <2> QED BY <2>4 DEF Map!Next
<1>9. CASE AnswerAbsent \/ AnswerFound
  <2>1. /\ UNCHANGED <<schema, parent, path, leaf_elem, hash, num_slots, ord, query>>
        /\ phase = "probing" /\ phase' = "answered"
    BY <1>9 DEF AnswerAbsent, AnswerFound, Answer, indexVars
  <2>2. added' = added BY <1>3, <2>1
  <2>3. (sealed' <=> sealed) /\ asking /\ asking' = FALSE BY <2>1 DEF ReadPhases
  <2>4. answer' = Map!FirstOrdinal(query)
    <3>1. answer' = FirstOrdinal(query)' BY <2>1, FirstIsNextAnswer DEF ResolveFirst
    <3>2. /\ Leaves' = Leaves
          /\ \A o : LeafPath(o)' = LeafPath(o)
      BY <2>1, LayoutFixed
    <3>3. (FirstOrdinal(query))' = FirstOrdinal(query)
      BY <2>1, <3>2 DEF FirstOrdinal, Absent
    <3>4. ord = Leaves BY <1>1, <2>1 DEF IndexTypeOK, ReadPhases
    <3> QED BY <1>1, <3>1, <3>3, <3>4, MapFirstIs
  <2> HIDE DEF added
  <2>5. Map!Reply BY <2>1, <2>2, <2>3, <2>4 DEF Map!Reply, added
  <2> QED BY <2>5 DEF Map!Next
<1>10. CASE PassSlot
  <2>1. /\ UNCHANGED <<schema, parent, path, leaf_elem, hash, num_slots, ord>>
        /\ phase' = phase /\ query' = query /\ answer' = answer
    BY <1>10 DEF PassSlot, treeVars, indexVars
  <2>2. added' = added BY <1>3, <2>1
  <2> HIDE DEF added
  <2> QED BY <1>2, <2>1, <2>2
<1>11. CASE UNCHANGED vars
  <2>1. /\ UNCHANGED <<schema, parent, path, leaf_elem, hash, num_slots, ord>>
        /\ phase' = phase /\ query' = query /\ answer' = answer
    BY <1>11 DEF vars, treeVars, indexVars, readVars
  <2>2. added' = added BY <1>3, <2>1
  <2> HIDE DEF added
  <2> QED BY <1>2, <2>1, <2>2
<1> QED BY <1>4, <1>5, <1>6, <1>7, <1>8, <1>9, <1>10, <1>11 DEF Next, Build, Resolve

\* The safety of the refinement: to its caller the table of hashed, probed and
\* confirmed paths is a list of texts with numbers, and a lookup one step.
THEOREM IndexIsNameMap == Spec /\ GroupsNamed => Map!Init /\ [][Map!Next]_(Map!vars)
<1>1. Init => Map!Init
  <2> SUFFICES ASSUME Init PROVE Map!Init OBVIOUS
  <2>1. 1 .. 0 = {} OBVIOUS
  <2>2. [k \in 1 .. ord |-> LeafPath(k - 1)] = << >> BY <2>1 DEF Init
  <2> QED BY <2>2 DEF Init, TreeInit, Map!Init, ReadPhases
<1> QED BY <1>1, IndexInvariant, IndexWalk, NamedStep, MapStep, PTL DEF Spec

-----------------------------------------------------------------------------
(* The name table of a jump-table footer: its sizes and values.            *)

\* The table has more slots than there are elements, and an ordinal + 1 fits
\* below the discriminator.
LEMMA TableSizes ==
  ASSUME schema \in Schemas
  PROVE  /\ slot_count \in Nat \ {0} /\ schema.size < slot_count
         /\ slot_bytes \in Nat \ {0} /\ ordinal_bits \in Nat
         /\ ByteBits * slot_bytes = ordinal_bits + ByteBits
         /\ schema.size < 2 ^ ordinal_bits
<1>1. PICK n \in Nat : n = schema.size BY SchemaTyped
<1>2. PICK B \in Nat \ {0} : B = ByteBits BY ByteBitsAssumption
<1>3. slot_count \in Nat \ {0} /\ n < slot_count
  <2> DEFINE m == Max({2, 2 * n})
             T == {p \in {2 ^ k : k \in 0 .. m} : p >= m}
  <2>1. m \in Nat \ {0} /\ n < m
    <3>1. CASE n = 0
      <4>1. {2, 2 * n} = {2, 0} BY <3>1
      <4>2. Max({2, 0}) = 2
        <5>1. {2, 0} \subseteq Int /\ 2 \in {2, 0} /\ \A y \in {2, 0} : y <= 2 OBVIOUS
        <5> QED BY <5>1, MaxIs
      <4> QED BY <3>1, <4>1, <4>2
    <3>2. CASE n # 0
      <4>1. {2, 2 * n} \subseteq Int /\ 2 * n \in {2, 2 * n} /\ \A y \in {2, 2 * n} : y <= 2 * n
        BY <3>2
      <4>2. m = 2 * n BY <4>1, MaxIs
      <4> QED BY <3>2, <4>2
    <3> QED BY <3>1, <3>2
  <2>2. slot_count = Min(T) BY <1>1 DEF slot_count, NextPow2
  <2> HIDE DEF m
  <2>3. T \subseteq Nat /\ T # {}
    <3>1. \A k \in 0 .. m : 2 ^ k \in Nat BY <2>1, Powers
    <3>2. m \in 0 .. m BY <2>1
    <3>3. 2 ^ m \in {2 ^ k : k \in 0 .. m} BY <3>2
    <3>4. PICK q \in Nat : q = 2 ^ m BY <2>1, Powers
    <3>5. m < q BY <2>1, <3>4, PowerAbove
    <3>6. q >= m BY <2>1, <3>5
    <3>7. 2 ^ m \in T BY <3>3, <3>4, <3>6
    <3> QED BY <3>1, <3>7
  <2>4. Min(T) \in T
    <3> HIDE DEF T
    <3> QED BY <2>3, MinIs
  <2>5. Min(T) \in Nat /\ Min(T) >= m BY <2>3, <2>4
  <2> HIDE DEF T
  <2> QED BY <2>1, <2>2, <2>5
<1>4. PICK K \in Nat \ {0} : K = BitsFor(n) /\ n < 2 ^ K
  <2> DEFINE T == {b \in 1 .. n + 1 : n < 2 ^ b}
  <2>1. n + 1 \in T
    <3>1. PICK q \in Nat : q = 2 ^ (n + 1) BY Powers
    <3>2. n + 1 < q BY <3>1, PowerAbove
    <3>3. n < q BY <3>2
    <3> QED BY <3>1, <3>3
  <2>2. T \subseteq Nat /\ T # {} BY <2>1
  <2>3. Min(T) \in T
    <3> HIDE DEF T
    <3> QED BY <2>2, MinIs
  <2>4. BitsFor(n) \in T BY <2>3 DEF BitsFor
  <2>5. BitsFor(n) \in Nat \ {0} /\ n < 2 ^ BitsFor(n) BY <2>4
  <2> QED BY <2>5
<1>5. PICK W \in Nat \ {0} : W = slot_bytes /\ B * W >= B + K
  <2>1. slot_bytes = (B + K + B - 1) \div B BY <1>1, <1>2, <1>4 DEF slot_bytes
  <2>2. B + K + B - 1 \in Nat OBVIOUS
  <2>3. PICK q \in Nat, r \in 0 .. B - 1 : q = (B + K + B - 1) \div B /\ B + K + B - 1 = B * q + r
    BY <2>2, DivMod
  <2>4. PICK x \in Int : x = B * q OBVIOUS
  <2>5. x >= B + K BY <2>3, <2>4
  <2>6. q # 0
    <3> SUFFICES ASSUME q = 0 PROVE FALSE OBVIOUS
    <3>1. x = 0 BY <2>4
    <3> QED BY <2>5, <3>1
  <2> QED BY <2>1, <2>3, <2>4, <2>5, <2>6
<1>6. ordinal_bits = W * B - B BY <1>2, <1>5 DEF ordinal_bits
<1>7. PICK y \in Int : y = W * B /\ y = B * W OBVIOUS
<1>8. ordinal_bits \in Nat /\ ordinal_bits >= K /\ B * W = ordinal_bits + B
  BY <1>5, <1>6, <1>7
<1>9. n < 2 ^ ordinal_bits
  <2>1. 2 ^ K <= 2 ^ ordinal_bits BY <1>8, PowersGrow
  <2>2. PICK p \in Nat : p = 2 ^ K BY Powers
  <2>3. PICK q \in Nat : q = 2 ^ ordinal_bits BY <1>8, Powers
  <2> QED BY <1>4, <2>1, <2>2, <2>3
<1> QED BY <1>1, <1>2, <1>3, <1>5, <1>8, <1>9

\* A discriminator is a byte.
LEMMA DiscriminatorFits ==
  ASSUME hash \in Hashes, NEW t
  PROVE  Discriminator(t) \in 0 .. 2 ^ ByteBits - 1
<1>1. PICK Q \in Nat \ {0} : Q = 2 ^ ByteBits BY ByteBitsAssumption, Powers
<1>2. PICK D \in Nat \ {0} : D = DiscUnit BY DiscUnitAssumption
<1>3. PICK M \in Nat \ {0} : M = D * Q OBVIOUS
<1>4. PICK h \in 0 .. M - 1 : h = Fnv1a64(t)
  <2>1. CASE t \in DOMAIN hash
    <3>1. hash[t] \in 0 .. M - 1 BY <1>1, <1>2, <1>3, <2>1, HashWidthAssumption
    <3> QED BY <2>1, <3>1 DEF Fnv1a64
  <2>2. CASE t \notin DOMAIN hash BY <2>2 DEF Fnv1a64
  <2> QED BY <2>1, <2>2
<1>5. PICK q \in Nat, r \in 0 .. D - 1 : q = h \div D /\ h = D * q + r BY DivMod
<1>6. ~(Q <= q)
  <2> SUFFICES ASSUME Q <= q PROVE FALSE OBVIOUS
  <2>1. Q - 1 \in Int /\ Q - 1 < q OBVIOUS
  <2>2. D * (Q - 1) + D <= D * q BY <2>1, QuotientGap
  <2>3. D * (Q - 1) + D = D * Q OBVIOUS
  <2>4. PICK x \in Int : x = D * q OBVIOUS
  <2> QED BY <1>3, <1>5, <2>2, <2>3, <2>4
<1> QED BY <1>1, <1>2, <1>4, <1>5, <1>6 DEF Discriminator

\* A slot's value: not zero, no wider than the slot, and made of the
\* discriminator and the ordinal + 1.
LEMMA ElementValIs ==
  ASSUME schema \in Schemas, hash \in Hashes, NEW i \in Elements
  PROVE  /\ ElementVal(i) \in Nat \ {0} /\ ElementVal(i) < 2 ^ (ByteBits * slot_bytes)
         /\ ElementVal(i) \div 2 ^ ordinal_bits = Discriminator(path[i])
         /\ ElementVal(i) % 2 ^ ordinal_bits = i + 1
<1>1. PICK P \in Nat \ {0} : P = 2 ^ ordinal_bits BY TableSizes, Powers
<1>2. PICK Q \in Nat \ {0} : Q = 2 ^ ByteBits BY ByteBitsAssumption, Powers
<1>3. 2 ^ (ByteBits * slot_bytes) = P * Q
  <2>1. 2 ^ (ordinal_bits + ByteBits) = 2 ^ ordinal_bits * 2 ^ ByteBits
    BY TableSizes, ByteBitsAssumption, PowerSum
  <2> QED BY <1>1, <1>2, <2>1, TableSizes
<1>4. i \in Nat /\ i + 1 \in 0 .. P - 1 /\ i + 1 \in Nat \ {0}
  <2>1. schema.size \in Nat /\ schema.size < P BY <1>1, SchemaTyped, TableSizes
  <2> QED BY <2>1 DEF Elements
<1>5. PICK d \in 0 .. Q - 1 : d = Discriminator(path[i]) BY <1>2, DiscriminatorFits
<1>6. PICK x \in Nat : x = P * d /\ x = d * P OBVIOUS
<1>7. ElementVal(i) = x + i + 1 BY <1>1, <1>5, <1>6 DEF ElementVal
<1>8. x + P <= P * Q BY <1>5, <1>6, QuotientGap
<1>9. PICK y \in Nat : y = P * Q OBVIOUS
<1>10. PICK o \in 0 .. P - 1 : o = i + 1 /\ o # 0 BY <1>4
<1>11. ElementVal(i) = x + o BY <1>7, <1>10, <1>4
<1>12. (P * d + o) \div P = d /\ (P * d + o) % P = o BY QuotientRemainder
<1>13. ElementVal(i) \in Nat \ {0} /\ ElementVal(i) < y BY <1>8, <1>9, <1>10, <1>11
<1>14. ElementVal(i) \div P = d /\ ElementVal(i) % P = o BY <1>6, <1>11, <1>12
<1> QED BY <1>1, <1>3, <1>5, <1>9, <1>10, <1>13, <1>14

-----------------------------------------------------------------------------
(* Its bytes.                                                              *)

\* The bytes of a slot, and those of no other, lie in its place.
LEMMA SlotPlace ==
  ASSUME NEW M \in Nat, NEW W \in Nat \ {0}, NEW s \in 0 .. M - 1, NEW t \in 0 .. M - 1,
         NEW b \in 0 .. W - 1
  PROVE  /\ s * W + b \in 0 .. M * W - 1
         /\ s * W + b \in t * W .. t * W + W - 1 <=> s = t
         /\ s * W + b - s * W = b
<1>1. PICK x \in Nat : x = s * W /\ x = W * s OBVIOUS
<1>2. PICK y \in Nat : y = t * W /\ y = W * t OBVIOUS
<1>3. PICK z \in Nat : z = M * W /\ z = W * M OBVIOUS
<1>4. x + W <= z BY <1>1, <1>3, QuotientGap
<1>5. s < t => x + W <= y BY <1>1, <1>2, QuotientGap
<1>6. t < s => y + W <= x BY <1>1, <1>2, QuotientGap
<1>7. s = t => x = y BY <1>1, <1>2
<1>8. x + b \in 0 .. z - 1 /\ x + b - x = b BY <1>4
<1>9. x + b \in y .. y + W - 1 <=> s = t BY <1>5, <1>6, <1>7
<1> QED BY <1>1, <1>2, <1>3, <1>8, <1>9

\* LoadJumpTable finds the width the writer chose.
LEMMA ReadBytesIs ==
  ASSUME schema \in Schemas, DOMAIN bytes = 0 .. slot_count * slot_bytes - 1
  PROVE  read_bytes = slot_bytes /\ read_ord_bits = ordinal_bits
<1>1. PICK M \in Nat \ {0} : M = slot_count BY TableSizes
<1>2. PICK W \in Nat \ {0} : W = slot_bytes BY TableSizes
<1>3. PICK x \in Nat : x = M * W /\ x = M * W + 0 OBVIOUS
<1>4. Cardinality(0 .. x - 1) = x
  <2>1. 0 \in Int /\ x - 1 \in Int OBVIOUS
  <2>2. Cardinality(0 .. x - 1) = IF 0 > x - 1 THEN 0 ELSE (x - 1) - 0 + 1 BY <2>1, FS_Interval
  <2> QED BY <2>2
<1>5. 0 \in 0 .. M - 1 OBVIOUS
<1>6. (M * W + 0) \div M = W BY <1>5, QuotientRemainder
<1>7. read_bytes = W BY <1>1, <1>2, <1>3, <1>4, <1>6 DEF read_bytes
<1> QED BY <1>2, <1>7 DEF read_ord_bits, ordinal_bits

\* The reader puts together what PutLE took apart.
LEMMA SlotReads ==
  ASSUME schema \in Schemas, DOMAIN bytes = 0 .. slot_count * slot_bytes - 1,
         NEW s, NEW v \in Nat, v < 2 ^ (ByteBits * slot_bytes),
         \A b \in 0 .. slot_bytes - 1 : bytes[s * slot_bytes + b] = ByteOf(v, b)
  PROVE  SlotAt(s) = v
<1>1. PICK W \in Nat \ {0} : W = slot_bytes /\ W = read_bytes BY TableSizes, ReadBytesIs
<1>2. PICK B \in Nat \ {0} : B = ByteBits BY ByteBitsAssumption
<1> DEFINE f == [b \in 0 .. W - 1 |-> bytes[s * W + b] * 2 ^ (B * b)]
<1>3. SlotAt(s) = SumFunctionOnSet(f, 0 .. W - 1)
  <2>1. SlotAt(s) = SumFunction(f) BY <1>1, <1>2 DEF SlotAt
  <2>2. DOMAIN f = 0 .. W - 1 OBVIOUS
  <2> HIDE DEF f
  <2> QED BY <2>1, <2>2 DEF SumFunction
<1>4. \A b \in 0 .. W - 1 : f[b] = ((v \div 2 ^ (B * b)) % 2 ^ B) * 2 ^ (B * b)
  <2> SUFFICES ASSUME NEW b \in 0 .. W - 1
               PROVE  f[b] = ((v \div 2 ^ (B * b)) % 2 ^ B) * 2 ^ (B * b)
    OBVIOUS
  <2>1. bytes[s * W + b] = (v \div 2 ^ (B * b)) % 2 ^ B BY <1>1, <1>2 DEF ByteOf
  <2>2. f[b] = bytes[s * W + b] * 2 ^ (B * b) OBVIOUS
  <2> HIDE DEF f
  <2> QED BY <2>1, <2>2, Zenon
<1> HIDE DEF f
<1>5. SumFunctionOnSet(f, 0 .. W - 1) = v % 2 ^ (B * W) BY <1>4, DigitsSum
<1>6. B * W \in Nat OBVIOUS
<1>7. PICK P \in Nat \ {0} : P = 2 ^ (B * W) BY <1>6, Powers
<1>8. v % P = v
  <2>1. v \in 0 .. P - 1 BY <1>1, <1>2, <1>7
  <2>2. (P * 0 + v) % P = v BY <2>1, QuotientRemainder
  <2>3. P * 0 + v = v OBVIOUS
  <2> QED BY <2>2, <2>3
<1> QED BY <1>3, <1>5, <1>7, <1>8

\* What a slot reads as tells whether it is taken and by which element.
LEMMA SlotTells ==
  ASSUME schema \in Schemas, hash \in Hashes,
         DOMAIN bytes = 0 .. slot_count * slot_bytes - 1, NEW s \in Slots
  PROVE  /\ SlotEmpty(s) => SlotAt(s) = 0
         /\ \A i \in Elements : Holds(s, i) => SlotAt(s) = ElementVal(i) /\ ~SlotEmpty(s)
         /\ \A i, j \in Elements : Holds(s, i) /\ Holds(s, j) => i = j
<1>1. ASSUME SlotEmpty(s) PROVE SlotAt(s) = 0
  <2>1. PICK n \in Nat : n = ByteBits * slot_bytes
    <3>1. PICK B \in Nat : B = ByteBits BY ByteBitsAssumption
    <3>2. PICK W \in Nat : W = slot_bytes BY TableSizes
    <3>3. B * W \in Nat OBVIOUS
    <3> QED BY <3>1, <3>2, <3>3
  <2>2. PICK q \in Nat \ {0} : q = 2 ^ (ByteBits * slot_bytes) BY <2>1, Powers
  <2>3. ASSUME NEW b \in 0 .. slot_bytes - 1 PROVE ByteOf(0, b) = 0
    <3>1. PICK B \in Nat : B = ByteBits BY ByteBitsAssumption
    <3>2. b \in Nat BY TableSizes
    <3>3. B * b \in Nat BY <3>2
    <3>4. PICK P \in Nat \ {0} : P = 2 ^ (ByteBits * b) BY <3>1, <3>3, Powers
    <3>5. PICK Q \in Nat \ {0} : Q = 2 ^ ByteBits BY <3>1, Powers
    <3>6. \A M \in Nat \ {0} : 0 \div M = 0 /\ 0 % M = 0
      <4> TAKE M \in Nat \ {0}
      <4>1. 0 \in 0 .. M - 1 /\ M * 0 + 0 = 0 OBVIOUS
      <4>2. (M * 0 + 0) \div M = 0 /\ (M * 0 + 0) % M = 0 BY <4>1, QuotientRemainder
      <4> QED BY <4>1, <4>2
    <3>7. 0 \div P = 0 /\ 0 % Q = 0 BY <3>6
    <3> QED BY <3>4, <3>5, <3>7 DEF ByteOf
  <2>4. \A b \in 0 .. slot_bytes - 1 : bytes[s * slot_bytes + b] = ByteOf(0, b)
    BY <1>1, <2>3 DEF SlotEmpty
  <2>5. 0 \in Nat /\ 0 < 2 ^ (ByteBits * slot_bytes) BY <2>2
  <2> QED BY <2>4, <2>5, SlotReads
<1>2. ASSUME NEW i \in Elements, Holds(s, i) PROVE SlotAt(s) = ElementVal(i)
  <2>1. ElementVal(i) \in Nat /\ ElementVal(i) < 2 ^ (ByteBits * slot_bytes) BY ElementValIs
  <2>2. \A b \in 0 .. slot_bytes - 1 : bytes[s * slot_bytes + b] = ByteOf(ElementVal(i), b)
    BY <1>2 DEF Holds
  <2> QED BY <2>1, <2>2, SlotReads
<1>3. ASSUME NEW i \in Elements, Holds(s, i), SlotEmpty(s) PROVE FALSE
  <2>1. ElementVal(i) = 0 BY <1>1, <1>2, <1>3
  <2> QED BY <2>1, ElementValIs
<1>4. ASSUME NEW i \in Elements, NEW j \in Elements, Holds(s, i), Holds(s, j) PROVE i = j
  <2>1. ElementVal(i) = ElementVal(j) BY <1>2, <1>4
  <2>2. i + 1 = j + 1 BY <2>1, ElementValIs
  <2>3. i \in Int /\ j \in Int BY DEF Elements
  <2> QED BY <2>2, <2>3
<1> QED BY <1>1, <1>2, <1>3, <1>4

-----------------------------------------------------------------------------
(* The inductive invariant of the name table.                              *)

\* In as many rounds as there are slots a probe visits every slot.
LEMMA ProbeCovers ==
  ASSUME schema \in Schemas, hash \in Hashes, NEW text
  PROVE  /\ \A n \in Nat : ProbeSlot(text, n) \in Slots
         /\ \A s \in Slots : \E n \in Slots : ProbeSlot(text, n) = s
<1>1. PICK M \in Nat \ {0} : M = slot_count BY TableSizes
<1>2. PICK h \in Nat : h = Fnv1a64(text) BY HashIsNat
<1>3. \A n \in Nat : (h + n) % M \in 0 .. M - 1
  <2> TAKE n \in Nat
  <2>1. PICK a \in Nat : a = h + n OBVIOUS
  <2> QED BY <2>1, DivMod
<1>4. ASSUME NEW s \in 0 .. M - 1 PROVE \E n \in 0 .. M - 1 : (h + n) % M = s
  <2>1. PICK q \in Nat, r \in 0 .. M - 1 : h = M * q + r BY DivMod
  <2>2. CASE r <= s
    <3>1. s - r \in 0 .. M - 1 BY <2>2
    <3>2. PICK x \in Nat : x = M * q OBVIOUS
    <3>3. h + (s - r) = M * q + s BY <2>1, <3>2
    <3>4. (M * q + s) % M = s BY QuotientRemainder
    <3> QED BY <3>1, <3>3, <3>4
  <2>3. CASE s < r
    <3>1. M - r + s \in 0 .. M - 1 BY <2>3
    <3>2. PICK x \in Nat : x = M * q OBVIOUS
    <3>3. M * (q + 1) = x + M BY <3>2
    <3>4. h + (M - r + s) = M * (q + 1) + s BY <2>1, <3>2, <3>3
    <3>5. (M * (q + 1) + s) % M = s BY QuotientRemainder
    <3> QED BY <3>1, <3>4, <3>5
  <2> QED BY <2>2, <2>3
<1> QED BY <1>1, <1>2, <1>3, <1>4 DEF ProbeSlot, Slots

\* While an element is to be inserted there is a slot for it.
LEMMA FreeSlot ==
  ASSUME schema \in Schemas, SlotsInv, elem < schema.size
  PROVE  \E s \in Slots : SlotEmpty(s)
<1> SUFFICES ASSUME \A s \in Slots : ~SlotEmpty(s) PROVE FALSE OBVIOUS
<1>1. PICK M \in Nat \ {0} : M = slot_count /\ schema.size < M BY TableSizes
<1>2. schema.size \in Nat /\ elem \in Nat /\ elem < M BY <1>1, SchemaTyped DEF SlotsInv
<1> DEFINE f == [s \in Slots |-> CHOOSE i \in 0 .. elem - 1 : Holds(s, i)]
<1>3. \A s \in Slots : f[s] \in 0 .. elem - 1 /\ Holds(s, f[s]) BY DEF SlotsInv
<1>4. f \in [Slots -> 0 .. elem - 1] BY <1>3
<1> HIDE DEF f
<1>5. /\ IsFiniteSet(Slots) /\ IsFiniteSet(0 .. elem - 1)
      /\ Cardinality(Slots) = M /\ Cardinality(0 .. elem - 1) = elem
  <2>1. 0 \in Int /\ M - 1 \in Int /\ elem - 1 \in Int BY <1>2
  <2>2. /\ IsFiniteSet(0 .. M - 1)
        /\ Cardinality(0 .. M - 1) = IF 0 > M - 1 THEN 0 ELSE (M - 1) - 0 + 1
    BY <2>1, FS_Interval
  <2>3. /\ IsFiniteSet(0 .. elem - 1)
        /\ Cardinality(0 .. elem - 1) = IF 0 > elem - 1 THEN 0 ELSE (elem - 1) - 0 + 1
    BY <2>1, FS_Interval
  <2> QED BY <1>1, <1>2, <2>2, <2>3 DEF Slots
<1>6. PICK s \in Slots, t \in Slots : s # t /\ f[s] = f[t]
  BY <1>2, <1>4, <1>5, FS_PigeonHole
<1>7. Holds(s, f[s]) /\ Holds(t, f[s]) /\ f[s] \in 0 .. elem - 1 BY <1>3, <1>6
<1> QED BY <1>6, <1>7 DEF SlotsInv

\* What of the table does not change with its bytes.
LEMMA TableFixed ==
  ASSUME UNCHANGED <<schema, path, hash>>
  PROVE  /\ slot_count' = slot_count /\ slot_bytes' = slot_bytes /\ Slots' = Slots
         /\ Elements' = Elements
         /\ \A i : ElementVal(i)' = ElementVal(i)
         /\ \A t, n : ProbeSlot(t, n)' = ProbeSlot(t, n)
BY DEF slot_count, slot_bytes, Slots, Elements, ElementVal, Discriminator, Fnv1a64, ordinal_bits,
       ProbeSlot

\* PutLE fills one slot and no other.
LEMMA StoredAt ==
  ASSUME schema \in Schemas, DOMAIN bytes = 0 .. slot_count * slot_bytes - 1,
         NEW t \in Slots, NEW v, bytes' = PutLE(bytes, t * slot_bytes, v, slot_bytes)
  PROVE  /\ DOMAIN bytes' = DOMAIN bytes
         /\ \A s \in Slots : \A b \in 0 .. slot_bytes - 1 :
              bytes'[s * slot_bytes + b] =
                IF s = t THEN ByteOf(v, b) ELSE bytes[s * slot_bytes + b]
<1>1. PICK M \in Nat \ {0} : M = slot_count BY TableSizes
<1>2. PICK W \in Nat \ {0} : W = slot_bytes BY TableSizes
<1>3. bytes' = [o \in DOMAIN bytes |->
                  IF o \in t * W .. t * W + W - 1 THEN ByteOf(v, o - t * W) ELSE bytes[o]]
  BY <1>2 DEF PutLE
<1>4. ASSUME NEW s \in 0 .. M - 1, NEW b \in 0 .. W - 1
      PROVE  bytes'[s * W + b] = IF s = t THEN ByteOf(v, b) ELSE bytes[s * W + b]
  <2>1. t \in 0 .. M - 1 BY <1>1 DEF Slots
  <2>2. /\ s * W + b \in 0 .. M * W - 1
        /\ s * W + b \in t * W .. t * W + W - 1 <=> s = t
        /\ s * W + b - s * W = b
    BY <2>1, SlotPlace
  <2>3. s * W + b \in DOMAIN bytes BY <1>1, <1>2, <2>2
  <2>4. PICK o : o = s * W + b OBVIOUS
  <2>5. bytes'[o] = IF o \in t * W .. t * W + W - 1 THEN ByteOf(v, o - t * W) ELSE bytes[o]
    BY <1>3, <2>3, <2>4
  <2>6. CASE s = t BY <2>2, <2>4, <2>5, <2>6
  <2>7. CASE s # t BY <2>2, <2>4, <2>5, <2>7
  <2> QED BY <2>6, <2>7
<1> QED BY <1>1, <1>2, <1>3, <1>4 DEF Slots

\* Different elements have different bytes.
LEMMA BytesTell ==
  ASSUME schema \in Schemas, hash \in Hashes, NEW i \in Elements, NEW j \in Elements,
         \A b \in 0 .. slot_bytes - 1 : ByteOf(ElementVal(i), b) = ByteOf(ElementVal(j), b)
  PROVE  i = j
<1>1. PICK W \in Nat \ {0} : W = slot_bytes BY TableSizes
<1>2. PICK B \in Nat \ {0} : B = ByteBits BY ByteBitsAssumption
<1>3. PICK P \in Nat \ {0} : P = 2 ^ (B * W) /\ P = 2 ^ (ByteBits * slot_bytes)
  <2>1. B * W \in Nat OBVIOUS
  <2> QED BY <1>1, <1>2, <2>1, Powers
<1> DEFINE f == [b \in 0 .. W - 1 |-> ByteOf(ElementVal(i), b) * 2 ^ (B * b)]
<1>4. ASSUME NEW k \in Elements,
             \A b \in 0 .. W - 1 : f[b] = ByteOf(ElementVal(k), b) * 2 ^ (B * b)
      PROVE  SumFunctionOnSet(f, 0 .. W - 1) = ElementVal(k)
  <2>1. PICK v \in 0 .. P - 1 : v = ElementVal(k)
    <3>1. ElementVal(k) \in Nat \ {0} /\ ElementVal(k) < P BY <1>3, ElementValIs
    <3> QED BY <3>1
  <2>2. \A b \in 0 .. W - 1 : f[b] = ((v \div 2 ^ (B * b)) % 2 ^ B) * 2 ^ (B * b)
    <3> HIDE DEF f
    <3> QED BY <1>2, <1>4, <2>1 DEF ByteOf
  <2> HIDE DEF f
  <2>7. v \in Nat /\ W \in Nat OBVIOUS
  <2>3. SumFunctionOnSet(f, 0 .. W - 1) = v % 2 ^ (B * W) BY <2>2, <2>7, DigitsSum
  <2>4. (P * 0 + v) % P = v BY QuotientRemainder
  <2>5. P * 0 + v = v OBVIOUS
  <2>6. v % P = v BY <2>4, <2>5
  <2> QED BY <1>3, <2>1, <2>3, <2>6
<1>5. \A b \in 0 .. W - 1 : f[b] = ByteOf(ElementVal(i), b) * 2 ^ (B * b) OBVIOUS
<1>6. \A b \in 0 .. W - 1 : f[b] = ByteOf(ElementVal(j), b) * 2 ^ (B * b) BY <1>1
<1> HIDE DEF f
<1>7. ElementVal(i) = ElementVal(j) BY <1>4, <1>5, <1>6
<1>8. i + 1 = j + 1 BY <1>7, ElementValIs
<1>9. i \in Int /\ j \in Int BY DEF Elements
<1> QED BY <1>8, <1>9

\* The probe of an element ends at the first free slot, after slots of earlier
\* elements.
LEMMA FirstFree ==
  ASSUME schema \in Schemas, SlotsInv, elem < schema.size
  PROVE  LET free == {n \in 0 .. slot_count - 1 : SlotEmpty(ProbeSlot(path[elem], n))}
         IN  /\ free # {} /\ Min(free) \in Slots
             /\ SlotEmpty(ProbeSlot(path[elem], Min(free)))
             /\ \A k \in 0 .. Min(free) - 1 :
                  \E p \in 0 .. elem - 1 : Holds(ProbeSlot(path[elem], k), p)
<1> DEFINE free == {n \in 0 .. slot_count - 1 : SlotEmpty(ProbeSlot(path[elem], n))}
<1>1. PICK M \in Nat \ {0} : M = slot_count BY TableSizes
<1>2. hash \in Hashes BY DEF SlotsInv
<1>3. PICK s \in Slots : SlotEmpty(s) BY FreeSlot
<1>4. PICK n \in Slots : ProbeSlot(path[elem], n) = s BY <1>2, <1>3, ProbeCovers
<1>5. n \in free BY <1>3, <1>4 DEF Slots
<1>6. free \subseteq Nat /\ free # {} BY <1>1, <1>5
<1>7. Min(free) \in free /\ \A y \in free : Min(free) <= y
  <2> HIDE DEF free
  <2> QED BY <1>6, MinIs
<1>8. Min(free) \in Slots /\ SlotEmpty(ProbeSlot(path[elem], Min(free))) BY <1>7 DEF Slots
<1>9. ASSUME NEW k \in 0 .. Min(free) - 1
      PROVE  \E p \in 0 .. elem - 1 : Holds(ProbeSlot(path[elem], k), p)
  <2>1. PICK m \in 0 .. M - 1 : m = Min(free) BY <1>1, <1>8 DEF Slots
  <2>2. k \in Nat /\ k \in 0 .. slot_count - 1 /\ ~(m <= k) BY <1>1, <2>1
  <2>3. k \notin free
    <3> HIDE DEF free
    <3> QED BY <1>7, <2>1, <2>2
  <2>4. ~SlotEmpty(ProbeSlot(path[elem], k)) BY <2>2, <2>3
  <2>5. ProbeSlot(path[elem], k) \in Slots BY <1>2, <2>2, ProbeCovers
  <2> HIDE DEF free
  <2> QED BY <2>4, <2>5 DEF SlotsInv
<1> QED BY <1>6, <1>8, <1>9

\* An element is stored where its probe ends; the chains of the elements before
\* it stay as they are.
LEMMA StoreTable ==
  ASSUME schema \in Schemas, SlotsInv, StoreElement
  PROVE  SlotsInv'
<1>1. /\ UNCHANGED <<schema, path, hash>> /\ elem' = elem + 1 /\ elem < schema.size
      /\ hash \in Hashes /\ elem \in 0 .. schema.size /\ schema.size \in Nat
      /\ DOMAIN bytes = 0 .. slot_count * slot_bytes - 1
  BY SchemaTyped DEF StoreElement, treeVars, SlotsInv
<1>2. PICK e \in Elements : e = elem BY <1>1 DEF Elements
<1>3. /\ slot_count' = slot_count /\ slot_bytes' = slot_bytes /\ Slots' = Slots
      /\ \A i : ElementVal(i)' = ElementVal(i)
      /\ \A x, n : ProbeSlot(x, n)' = ProbeSlot(x, n)
  BY <1>1, TableFixed
<1>4. PICK W \in Nat \ {0} : W = slot_bytes BY TableSizes
<1>5. PICK M \in Nat \ {0} : M = slot_count BY TableSizes
<1>6. PICK d \in Slots :
        /\ SlotEmpty(ProbeSlot(path[e], d))
        /\ \A k \in 0 .. d - 1 : \E p \in 0 .. e - 1 : Holds(ProbeSlot(path[e], k), p)
        /\ bytes' = PutLE(bytes, ProbeSlot(path[e], d) * slot_bytes, ElementVal(e), slot_bytes)
  <2> DEFINE free == {n \in 0 .. slot_count - 1 : SlotEmpty(ProbeSlot(path[elem], n))}
  <2>1. /\ free # {} /\ Min(free) \in Slots
        /\ SlotEmpty(ProbeSlot(path[elem], Min(free)))
        /\ \A k \in 0 .. Min(free) - 1 :
             \E p \in 0 .. elem - 1 : Holds(ProbeSlot(path[elem], k), p)
    BY <1>1, FirstFree
  <2>2. bytes' = IF free = {} THEN bytes
                 ELSE PutLE(bytes, ProbeSlot(path[elem], Min(free)) * slot_bytes,
                            ElementVal(elem), slot_bytes)
    BY DEF StoreElement
  <2> HIDE DEF free
  <2> QED BY <1>2, <2>1, <2>2
<1>7. PICK t \in Slots : t = ProbeSlot(path[e], d)
  <2>1. d \in Nat BY <1>5 DEF Slots
  <2> QED BY <1>1, <2>1, ProbeCovers
<1>8. /\ DOMAIN bytes' = DOMAIN bytes
      /\ \A s \in Slots : \A b \in 0 .. W - 1 :
           bytes'[s * W + b] = IF s = t THEN ByteOf(ElementVal(e), b) ELSE bytes[s * W + b]
  <2>1. bytes' = PutLE(bytes, t * slot_bytes, ElementVal(e), slot_bytes) BY <1>6, <1>7
  <2>2. PICK v : v = ElementVal(e) OBVIOUS
  <2>3. /\ DOMAIN bytes' = DOMAIN bytes
        /\ \A s \in Slots : \A b \in 0 .. slot_bytes - 1 :
             bytes'[s * slot_bytes + b] =
               IF s = t THEN ByteOf(v, b) ELSE bytes[s * slot_bytes + b]
    BY <1>1, <2>1, <2>2, StoredAt
  <2> QED BY <1>4, <2>2, <2>3
\* What the new bytes say of a slot.
<1>9. /\ \A s : SlotEmpty(s)' <=> \A b \in 0 .. W - 1 : bytes'[s * W + b] = 0
      /\ \A s, i : Holds(s, i)' <=>
           \A b \in 0 .. W - 1 : bytes'[s * W + b] = ByteOf(ElementVal(i), b)
  BY <1>3, <1>4 DEF SlotEmpty, Holds, ByteOf
<1>10. \A s \in Slots \ {t} : /\ SlotEmpty(s)' <=> SlotEmpty(s)
                              /\ \A i : Holds(s, i)' <=> Holds(s, i)
  <2> SUFFICES ASSUME NEW s \in Slots \ {t}
               PROVE  /\ SlotEmpty(s)' <=> SlotEmpty(s)
                      /\ \A i : Holds(s, i)' <=> Holds(s, i)
    OBVIOUS
  <2>1. \A b \in 0 .. W - 1 : bytes'[s * W + b] = bytes[s * W + b] BY <1>8
  <2>2. SlotEmpty(s)' <=> SlotEmpty(s) BY <1>4, <1>9, <2>1 DEF SlotEmpty
  <2>3. ASSUME NEW i PROVE Holds(s, i)' <=> Holds(s, i) BY <1>4, <1>9, <2>1 DEF Holds
  <2> QED BY <2>2, <2>3
<1>11. /\ Holds(t, e)' /\ SlotEmpty(t)
       /\ \A i \in Elements : Holds(t, i)' => i = e
  <2>1. \A b \in 0 .. W - 1 : bytes'[t * W + b] = ByteOf(ElementVal(e), b) BY <1>8
  <2>2. Holds(t, e)' BY <1>9, <2>1
  <2>3. ASSUME NEW i \in Elements, Holds(t, i)' PROVE i = e
    <3>1. \A b \in 0 .. W - 1 : ByteOf(ElementVal(i), b) = ByteOf(ElementVal(e), b)
      BY <1>9, <2>1, <2>3
    <3>2. \A b \in 0 .. slot_bytes - 1 : ByteOf(ElementVal(i), b) = ByteOf(ElementVal(e), b)
      BY <1>4, <3>1
    <3> QED BY <1>1, <3>2, BytesTell
  <2> QED BY <1>6, <1>7, <2>2, <2>3
\* The slots of the elements before it are others.
<1>12. ASSUME NEW i \in 0 .. e - 1, NEW s \in Slots, Holds(s, i)
       PROVE  s # t /\ Holds(s, i)'
  <2>1. i \in Elements BY <1>1, <1>2 DEF Elements
  <2>2. ~SlotEmpty(s) BY <1>1, <1>12, <2>1, SlotTells
  <2> QED BY <1>10, <1>11, <1>12, <2>2
<1>13. \A i, k, p, s : s = ProbeSlot(path[i], k) =>
         (Holds(ProbeSlot(path[i], k), p)' <=> Holds(s, p)')
  <2> SUFFICES ASSUME NEW i, NEW k, NEW p, NEW s, s = ProbeSlot(path[i], k)
               PROVE  Holds(ProbeSlot(path[i], k), p)' <=> Holds(s, p)'
    OBVIOUS
  <2>1. (ProbeSlot(path[i], k))' = s BY <1>1, <1>3
  <2> QED BY <2>1 DEF Holds
<1>14. ASSUME NEW i \in 0 .. e, NEW c \in Slots,
              \A k \in 0 .. c - 1 : \E p \in 0 .. i - 1 : Holds(ProbeSlot(path[i], k), p),
              NEW s, s = ProbeSlot(path[i], c), Holds(s, i)'
       PROVE  ReachedAfter(i, c)'
  <2>1. ASSUME NEW k \in 0 .. c - 1
        PROVE  \E p \in 0 .. i - 1 : Holds(ProbeSlot(path[i], k), p)'
    <3>1. PICK p \in 0 .. i - 1 : Holds(ProbeSlot(path[i], k), p) BY <1>14
    <3>2. k \in Nat /\ p \in 0 .. e - 1 BY <1>2, <1>5 DEF Slots, Elements
    <3>3. PICK u \in Slots : u = ProbeSlot(path[i], k) BY <1>1, <3>2, ProbeCovers
    <3>4. Holds(u, p)' BY <1>12, <3>1, <3>2, <3>3
    <3> QED BY <1>13, <3>3, <3>4
  <2>2. Holds(ProbeSlot(path[i], c), i)' BY <1>13, <1>14
  <2> QED BY <2>1, <2>2 DEF ReachedAfter
<1>15. ASSUME NEW s \in Slots PROVE SlotEmpty(s)' \/ \E i \in 0 .. e : Holds(s, i)'
  <2>0. e \in Nat /\ e \in 0 .. e BY <1>2 DEF Elements
  <2>1. CASE s = t BY <1>11, <2>0, <2>1
  <2>2. CASE s # t /\ SlotEmpty(s) BY <1>10, <2>2
  <2>3. CASE s # t /\ ~SlotEmpty(s)
    <3>1. PICK i \in 0 .. e - 1 : Holds(s, i) BY <1>2, <2>3 DEF SlotsInv
    <3>2. i \in 0 .. e BY <2>0
    <3> QED BY <1>12, <3>1, <3>2
  <2> QED BY <2>1, <2>2, <2>3
<1>16. ASSUME NEW i \in 0 .. e, NEW s \in Slots, NEW u \in Slots, Holds(s, i)', Holds(u, i)'
       PROVE  s = u
  <2>0. e \in Nat /\ i \in Elements BY <1>1, <1>2 DEF Elements
  <2>1. CASE s = t /\ u = t BY <2>1
  <2>2. CASE s # t /\ u # t
    <3>1. Holds(s, i) /\ Holds(u, i) BY <1>10, <1>16, <2>2
    <3>2. CASE i \in 0 .. e - 1 BY <1>2, <3>1, <3>2 DEF SlotsInv
    <3>3. CASE i \notin 0 .. e - 1
      <4>1. ~SlotEmpty(s) BY <1>1, <2>0, <3>1, SlotTells
      <4>2. PICK j \in 0 .. e - 1 : Holds(s, j) BY <1>2, <4>1 DEF SlotsInv
      <4>3. j \in Elements BY <1>1, <1>2 DEF Elements
      <4>4. i = j BY <1>1, <2>0, <3>1, <4>2, <4>3, SlotTells
      <4> QED BY <3>3, <4>4
    <3> QED BY <3>2, <3>3
  <2>3. ASSUME NEW x \in Slots, x # t, Holds(x, i)', Holds(t, i)' PROVE FALSE
    <3>1. i = e /\ Holds(x, e) BY <1>10, <1>11, <2>0, <2>3
    <3>2. ~SlotEmpty(x) BY <1>1, <3>1, SlotTells
    <3>3. PICK j \in 0 .. e - 1 : Holds(x, j) BY <1>2, <3>2 DEF SlotsInv
    <3>4. j \in Elements BY <1>1, <1>2 DEF Elements
    <3>5. e = j BY <1>1, <3>1, <3>3, <3>4, SlotTells
    <3> QED BY <3>5
  <2> QED BY <1>16, <2>1, <2>2, <2>3
<1>17. ASSUME NEW i \in 0 .. e PROVE \E c \in Slots : ReachedAfter(i, c)'
  <2>1. CASE i = e
    <3>1. \A k \in 0 .. d - 1 : \E p \in 0 .. i - 1 : Holds(ProbeSlot(path[i], k), p)
      BY <1>6, <2>1
    <3>2. t = ProbeSlot(path[i], d) /\ Holds(t, i)' BY <1>7, <1>11, <2>1
    <3> QED BY <1>14, <3>1, <3>2
  <2>2. CASE i # e
    <3>1. i \in 0 .. e - 1 BY <1>2, <2>2 DEF Elements
    <3>2. PICK c \in Slots : ReachedAfter(i, c) BY <1>2, <3>1 DEF SlotsInv
    <3>3. c \in Nat BY <1>5 DEF Slots
    <3>4. PICK s \in Slots : s = ProbeSlot(path[i], c) BY <1>1, <3>3, ProbeCovers
    <3>5. Holds(s, i)' BY <1>12, <3>1, <3>2, <3>4 DEF ReachedAfter
    <3>6. \A k \in 0 .. c - 1 : \E p \in 0 .. i - 1 : Holds(ProbeSlot(path[i], k), p)
      BY <3>2 DEF ReachedAfter
    <3> QED BY <1>14, <3>4, <3>5, <3>6
  <2> QED BY <2>1, <2>2
<1>18. /\ hash' \in Hashes /\ elem' \in 0 .. schema'.size /\ elem' = e + 1
       /\ DOMAIN bytes' = 0 .. slot_count' * slot_bytes' - 1
  BY <1>1, <1>2, <1>3, <1>8
<1>19. 0 .. elem' - 1 = 0 .. e BY <1>2, <1>18 DEF Elements
<1> QED BY <1>3, <1>15, <1>16, <1>17, <1>18, <1>19 DEF SlotsInv

\* A cleared table has nothing in it.
LEMMA ClearedTable ==
  ASSUME schema \in Schemas, elem = 0, ClearTable
  PROVE  SlotsInv'
<1>1. /\ UNCHANGED <<schema, path>> /\ hash' \in Hashes /\ elem' = 0
      /\ bytes' = [o \in 0 .. slot_count * slot_bytes - 1 |-> 0]
  BY DEF ClearTable
<1>2. PICK W \in Nat \ {0} : W = slot_bytes BY TableSizes
<1>3. PICK M \in Nat \ {0} : M = slot_count BY TableSizes
<1>4. slot_count' = M /\ slot_bytes' = W /\ Slots' = 0 .. M - 1
  BY <1>1, <1>2, <1>3 DEF slot_count, slot_bytes, Slots
<1>5. DOMAIN bytes' = 0 .. M * W - 1 BY <1>1, <1>2, <1>3
<1>6. ASSUME NEW s \in 0 .. M - 1 PROVE SlotEmpty(s)'
  <2>1. \A b \in 0 .. W - 1 : s * W + b \in 0 .. M * W - 1 BY SlotPlace
  <2>2. \A o \in 0 .. M * W - 1 : bytes'[o] = 0 BY <1>1, <1>2, <1>3
  <2>3. \A b \in 0 .. W - 1 : bytes'[s * W + b] = 0 BY <2>1, <2>2
  <2> QED BY <1>4, <2>3 DEF SlotEmpty
<1>7. elem' \in 0 .. schema'.size BY <1>1, SchemaTyped
<1> QED BY <1>1, <1>4, <1>5, <1>6, <1>7 DEF SlotsInv

LEMMA NamesStart == NamesInit => NamesInv
<1> SUFFICES ASSUME NamesInit PROVE NamesInv OBVIOUS
<1>1. TreeInit /\ elem = 0 /\ phase = "parents" BY DEF NamesInit, TreeInit
<1> QED BY <1>1, WalkInit DEF NamesInv, TreePhases

LEMMA NamesStep == NamesInv /\ [NamesNext]_nameVars => NamesInv'
<1> SUFFICES ASSUME NamesInv, [NamesNext]_nameVars PROVE NamesInv' OBVIOUS
<1>1. WalkInv /\ schema \in Schemas BY DEF NamesInv, WalkInv
<1>2. CASE WalkTree
  <2>1. TreeNext /\ elem' = elem BY <1>2 DEF WalkTree
  <2>2. WalkInv' BY <1>1, <2>1, WalkStep
  <2>3. phase \in TreePhases /\ phase' \in TreePhases
    BY <2>1 DEF TreeNext, VisitElement, EndParents, NameElement, EndPaths, TreePhases
  <2> QED BY <2>1, <2>2, <2>3 DEF NamesInv, TreePhases
<1>3. CASE ClearTable
  <2>1. /\ phase = "laid_out" /\ phase' = "inserting" /\ cursor' = cursor /\ elem' = elem
        /\ UNCHANGED <<schema, parent, stack, path, leaf_elem>>
    BY <1>3 DEF ClearTable
  <2>2. WalkInv' BY <1>1, <2>1, LaidOutWalk
  <2>3. elem = 0 BY <2>1 DEF NamesInv, TreePhases
  <2>4. SlotsInv' BY <1>1, <1>3, <2>3, ClearedTable
  <2> QED BY <2>1, <2>2, <2>4 DEF NamesInv, TreePhases
<1>4. CASE StoreElement
  <2>1. phase = "inserting" /\ UNCHANGED treeVars /\ phase' = "inserting"
    BY <1>4 DEF StoreElement, treeVars
  <2>2. WalkInv' BY <1>1, <2>1, WalkStutter
  <2>3. SlotsInv BY <2>1 DEF NamesInv
  <2>4. SlotsInv' BY <1>1, <1>4, <2>3, StoreTable
  <2> QED BY <2>1, <2>2, <2>4 DEF NamesInv, TreePhases
<1>5. ASSUME UNCHANGED <<schema, path, hash, bytes, elem>>, SlotsInv PROVE SlotsInv'
  <2>1. /\ slot_count' = slot_count /\ slot_bytes' = slot_bytes /\ Slots' = Slots
        /\ \A i : ElementVal(i)' = ElementVal(i)
        /\ \A x, n : ProbeSlot(x, n)' = ProbeSlot(x, n)
    BY <1>5, TableFixed
  <2>2. /\ \A s : SlotEmpty(s)' <=> SlotEmpty(s)
        /\ \A s, i : Holds(s, i)' <=> Holds(s, i)
    BY <1>5, <2>1 DEF SlotEmpty, Holds, ByteOf
  <2>3. \A i, c : ReachedAfter(i, c)' <=> ReachedAfter(i, c)
    <3>1. \A i, k, p : Holds(ProbeSlot(path[i], k), p)' <=> Holds(ProbeSlot(path[i], k), p)
      BY <1>5, <2>1 DEF Holds, ByteOf
    <3> QED BY <3>1 DEF ReachedAfter
  <2> QED BY <1>5, <2>1, <2>2, <2>3 DEF SlotsInv
<1>6. CASE EndTable
  <2>1. /\ phase = "inserting" /\ phase' = "ready" /\ cursor' = cursor /\ elem = schema.size
        /\ UNCHANGED <<schema, parent, stack, path, leaf_elem>>
        /\ UNCHANGED <<schema, path, hash, bytes, elem>>
    BY <1>6 DEF EndTable
  <2>2. WalkInv' BY <1>1, <2>1, LaidOutWalk
  <2>3. SlotsInv' BY <1>5, <2>1 DEF NamesInv
  <2> QED BY <2>1, <2>2, <2>3 DEF NamesInv, TreePhases
<1>7. CASE UNCHANGED nameVars
  <2>1. UNCHANGED treeVars /\ UNCHANGED <<hash, bytes, elem>> BY <1>7 DEF nameVars
  <2>2. WalkInv' BY <1>1, <2>1, WalkStutter
  <2>3. UNCHANGED <<schema, path, hash, bytes, elem>> /\ phase' = phase BY <2>1 DEF treeVars
  <2>4. SlotsInv => SlotsInv' BY <1>5, <2>3
  <2> QED BY <2>2, <2>3, <2>4 DEF NamesInv
<1> QED BY <1>2, <1>3, <1>4, <1>6, <1>7 DEF NamesNext

\* Every byte of the table of a jump-table footer belongs to a free slot or to
\* one element's, every inserted element has exactly one slot, and its probe
\* reaches it past slots of earlier elements only: for every schema, every
\* function of the hash's width and every width of a byte
\* (parquet_to_jumptable.cc:435-452).
THEOREM NamesInvariant == NamesSpec => []NamesInv
BY NamesStart, NamesStep, PTL DEF NamesSpec

-----------------------------------------------------------------------------
(* The lookups of a jump-table reader.                                     *)

\* A lookup under the path of a confirmed element answers a confirmed element, no
\* later than it and of its discriminator.
LEMMA LookUpFinds ==
  ASSUME schema \in Schemas, SlotsInv, elem = schema.size,
         NEW confirmed, NEW w \in Elements, w \in confirmed
  PROVE  \E q \in Elements :
           /\ LookUp(path[w], confirmed) = q /\ q <= w /\ q \in confirmed
           /\ Discriminator(path[q]) = Discriminator(path[w])
<1> DEFINE value == [n \in 0 .. slot_count - 1 |-> SlotAt(ProbeSlot(path[w], n))]
           found == {n \in DOMAIN value :
                       Candidate(path[w], value[n]) /\ ElementIndex(value[n]) \in confirmed}
           ends == found \cup {n \in DOMAIN value : value[n] = 0}
<1>1. PICK M \in Nat \ {0} : M = slot_count BY TableSizes
<1>2. /\ schema.size \in Nat /\ w \in 0 .. elem - 1 /\ hash \in Hashes
      /\ DOMAIN bytes = 0 .. slot_count * slot_bytes - 1
      /\ read_ord_bits = ordinal_bits
  BY SchemaTyped, ReadBytesIs DEF SlotsInv, Elements
<1>3. PICK d \in Slots : ReachedAfter(w, d) BY <1>2 DEF SlotsInv
<1>4. d \in 0 .. M - 1 /\ w \in Nat BY <1>1, <1>2, <1>3 DEF Slots
<1>5. ASSUME NEW n \in 0 .. d
      PROVE  \E q \in Elements :
               /\ q <= w /\ n \in DOMAIN value /\ value[n] # 0 /\ ElementIndex(value[n]) = q
               /\ value[n] \div 2 ^ read_ord_bits = Discriminator(path[q])
               /\ n = d => q = w
  <2>1. n \in Nat /\ n \in 0 .. slot_count - 1 BY <1>1, <1>4
  <2>2. PICK s \in Slots : s = ProbeSlot(path[w], n) BY <1>2, <2>1, ProbeCovers
  <2>3. PICK q \in 0 .. w : Holds(s, q) /\ (n = d => q = w)
    <3>1. CASE n = d BY <1>3, <1>4, <2>2, <3>1 DEF ReachedAfter
    <3>2. CASE n # d
      <4>1. n \in 0 .. d - 1 BY <1>4, <3>2
      <4>2. PICK q \in 0 .. w - 1 : Holds(s, q) BY <1>3, <2>2, <4>1 DEF ReachedAfter
      <4>3. q \in 0 .. w BY <1>4
      <4> QED BY <3>2, <4>2, <4>3
    <3> QED BY <3>1, <3>2
  <2>4. q \in Elements /\ q \in Int /\ q <= w BY <1>2, <1>4 DEF Elements
  <2>5. SlotAt(s) = ElementVal(q) BY <1>2, <2>3, <2>4, SlotTells
  <2>6. PICK v \in Nat \ {0} : v = ElementVal(q) BY <1>2, <2>4, ElementValIs
  <2>7. v \div 2 ^ ordinal_bits = Discriminator(path[q]) /\ v % 2 ^ ordinal_bits = q + 1
    BY <1>2, <2>4, <2>6, ElementValIs
  <2>8. n \in DOMAIN value /\ value[n] = v BY <2>1, <2>2, <2>5, <2>6
  <2>9. ElementIndex(v) = q BY <1>2, <2>4, <2>7 DEF ElementIndex
  <2> HIDE DEF value
  <2> QED BY <1>2, <2>3, <2>4, <2>6, <2>7, <2>8, <2>9
<1>6. DOMAIN value = 0 .. M - 1 BY <1>1
<1>7. LookUp(path[w], confirmed) = IF ends # {} /\ Min(ends) \in found
                                   THEN ElementIndex(value[Min(ends)]) ELSE Absent
  BY DEF LookUp
<1> HIDE DEF value
<1>8. d \in found
  <2>1. d \in 0 .. d BY <1>4
  <2>2. PICK q \in Elements :
          /\ d \in DOMAIN value /\ value[d] # 0 /\ ElementIndex(value[d]) = q
          /\ value[d] \div 2 ^ read_ord_bits = Discriminator(path[q]) /\ q = w
    BY <1>5, <2>1
  <2> QED BY <2>2 DEF Candidate
<1>9. ends \subseteq Nat /\ d \in ends BY <1>6, <1>8
<1>10. Min(ends) \in ends /\ Min(ends) <= d
  <2> HIDE DEF ends
  <2> QED BY <1>9, MinIs
<1>11. PICK n \in 0 .. d : n = Min(ends)
  <2> HIDE DEF ends
  <2>1. Min(ends) \in Nat BY <1>9, <1>10
  <2>2. Min(ends) \in 0 .. d BY <1>4, <1>10, <2>1
  <2> QED BY <2>2
<1>12. PICK q \in Elements :
         /\ q <= w /\ n \in DOMAIN value /\ value[n] # 0 /\ ElementIndex(value[n]) = q
         /\ value[n] \div 2 ^ read_ord_bits = Discriminator(path[q])
  BY <1>5
<1>13. n \in found BY <1>10, <1>11, <1>12
<1>14. q \in confirmed /\ Discriminator(path[q]) = Discriminator(path[w])
  BY <1>12, <1>13 DEF Candidate
<1>15. ends # {} BY <1>9
<1> HIDE DEF ends, found
<1> QED BY <1>7, <1>11, <1>12, <1>13, <1>14, <1>15

\* Under the path of every element, group or leaf, a reader that compares whole
\* paths finds the first element that has it: in every schema, under every hash
\* function and every width of a byte no slot is lost, none is cut, and no probe
\* stops short (parquet_to_jumptable.cc:435-452).
THEOREM EveryPathResolves == NamesSpec => []PathsResolvable
<1>1. NamesInv => PathsResolvable
  <2> SUFFICES ASSUME NamesInv, phase = "ready", NEW i \in Elements
               PROVE  LET same == {j \in Elements : path[j] = path[i]}
                      IN  LookUp(path[i], same) = Min(same)
    BY DEF PathsResolvable
  <2> DEFINE same == {j \in Elements : path[j] = path[i]}
  <2>1. schema \in Schemas /\ SlotsInv /\ elem = schema.size BY DEF NamesInv, WalkInv
  <2>2. same \subseteq Nat /\ i \in same BY DEF Elements
  <2>3. Min(same) \in same /\ \A y \in same : Min(same) <= y
    <3> HIDE DEF same
    <3> QED BY <2>2, MinIs
  <2>4. PICK w \in same : w = Min(same) BY <2>3
  <2>5. w \in Elements /\ path[w] = path[i] BY <2>4
  <2> HIDE DEF same
  <2>6. PICK q \in Elements : LookUp(path[w], same) = q /\ q <= w /\ q \in same
    BY <2>1, <2>4, <2>5, LookUpFinds
  <2>7. w <= q /\ w \in Int /\ q \in Int BY <2>2, <2>3, <2>4, <2>6
  <2>8. q = w BY <2>6, <2>7
  <2>9. LookUp(path[i], same) = Min(same) BY <2>4, <2>5, <2>6, <2>8
  <2> QED BY <2>9 DEF same
<1> QED BY <1>1, NamesInvariant, PTL

\* A column whose path is the name of the elements with that path and of no other
\* is answered by the reader of name_resolve_bench, which compares names, as by its
\* walk of the schema: for every schema, every function of the hash's width and
\* every width of a byte (name_resolve_bench.cc:306-353).
THEOREM ShortCutIsSound == NamesSpec => []ShortCutAgrees
<1>1. NamesInv => ShortCutAgrees
  <2> SUFFICES ASSUME NamesInv, phase = "ready", NEW i \in Columns,
                      \A e \in Elements : OwnPath(e) = path[i] <=> path[e] = path[i]
               PROVE  HashResolve(path[i]) = WalkResolve(path[i])
    BY DEF ShortCutAgrees
  <2>1. WalkInv /\ schema \in Schemas /\ SlotsInv /\ elem = schema.size
    BY DEF NamesInv, WalkInv
  <2>2. i \in Elements \ {0} /\ path[i] # << >> BY DEF Columns
  <2>3. 0 \in Elements => path[0] = << >> BY <2>1 DEF WalkInv, PathInv
  <2> DEFINE same == {e \in Elements : path[e] = path[i]}
             walked == {j \in Elements \ {0} : path[j] # << >> /\ path[j] = path[i]}
  <2>4. HashResolve(path[i]) = LookUp(path[i], same)
    <3>1. {e \in Elements : OwnPath(e) = path[i]} = same OBVIOUS
    <3> QED BY <3>1 DEF HashResolve
  <2>5. walked = same BY <2>2, <2>3
  <2>6. i \in same /\ same \subseteq Nat BY <2>2 DEF Elements
  <2>7. PICK w \in same : w = Min(same) /\ \A y \in same : w <= y
    <3> HIDE DEF same
    <3> QED BY <2>6, MinIs
  <2>8. w \in Elements /\ path[w] = path[i] BY <2>7
  <2>9. PICK q \in Elements : LookUp(path[w], same) = q /\ q <= w /\ q \in same
    <3> HIDE DEF same
    <3> QED BY <2>1, <2>7, <2>8, LookUpFinds
  <2>10. w <= q /\ w \in Int /\ q \in Int BY <2>6, <2>7, <2>9
  <2>11. q = w BY <2>9, <2>10
  <2>12. WalkResolve(path[i]) = w
    <3>1. walked # {} /\ Min(walked) = w
      <4> HIDE DEF same, walked
      <4> QED BY <2>5, <2>6, <2>7
    <3> QED BY <3>1 DEF WalkResolve
  <2> QED BY <2>4, <2>8, <2>9, <2>11, <2>12
<1> QED BY <1>1, NamesInvariant, PTL

-----------------------------------------------------------------------------
(* The field ids of the leaves.                                            *)

\* When the root is a group, the elements without children in index order are the
\* leaves in column order.
LEMMA LeafIdsIs ==
  ASSUME WalkInv, phase \notin {"parents", "paths"}, schema.num_children[0] # 0, NEW f
  PROVE  LeafIds(f) = [k \in 1 .. Leaves |-> f[leaf_elem[k]]]
<1>1. /\ leaf_elem \in Seq(Nat) /\ cursor >= schema.size /\ cursor \in Nat
      /\ \A k \in 1 .. Leaves :
           leaf_elem[k] \in Elements /\ schema.num_children[leaf_elem[k]] = 0
      /\ \A k, l \in 1 .. Leaves : k < l => leaf_elem[k] < leaf_elem[l]
      /\ \A i \in Elements :
           i \in 1 .. cursor - 1 /\ schema.num_children[i] = 0 =>
             \E k \in 1 .. Leaves : leaf_elem[k] = i
  BY DEF WalkInv, LeafInv
<1>2. PICK n \in Nat : n = Leaves BY <1>1 DEF Leaves
<1>3. DOMAIN leaf_elem = 1 .. n /\ leaf_elem \in [1 .. n -> Int] BY <1>1, <1>2 DEF Leaves
<1>4. {i \in Elements : schema.num_children[i] = 0} = {leaf_elem[k] : k \in 1 .. n}
  <2>1. ASSUME NEW i \in Elements, schema.num_children[i] = 0
        PROVE  \E k \in 1 .. n : leaf_elem[k] = i
    <3>1. schema.size \in Nat BY SchemaTyped DEF WalkInv
    <3>2. i \in 1 .. cursor - 1 BY <1>1, <2>1, <3>1 DEF Elements
    <3> QED BY <1>1, <1>2, <2>1, <3>2
  <2> QED BY <1>1, <1>2, <2>1
<1>5. \A k, l \in 1 .. n : k < l => leaf_elem[k] < leaf_elem[l] BY <1>1, <1>2
<1>6. InOrder({leaf_elem[k] : k \in 1 .. n}) = leaf_elem BY <1>3, <1>5, InOrderIs
<1>7. InOrder({i \in Elements : schema.num_children[i] = 0}) = leaf_elem BY <1>4, <1>6
<1> QED BY <1>2, <1>3, <1>7 DEF LeafIds

\* A field id leads to the columns that carry it and to no other, through
\* whichever of the three mappings the writer takes, for every assignment of ids
\* to the elements, the ones that repeat an id too (parquet_to_jumptable.cc:454-466).
THEOREM FieldIdsLeadToColumns == NamesSpec => []FieldIdsFound
<1>1. NamesInv => FieldIdsFound
  <2> SUFFICES ASSUME NamesInv, phase = "ready", schema.num_children[0] # 0,
                      NEW f \in FieldIds, NEW id \in Nat
               PROVE  Mapped(FieldIdMapping(f), id) =
                        {k - 1 : k \in {k \in 1 .. Leaves : f[leaf_elem[k]] = id}}
    BY DEF FieldIdsFound
  <2>1. WalkInv /\ phase \notin {"parents", "paths"} BY DEF NamesInv
  <2>2. PICK n \in Nat : n = Leaves BY <2>1 DEF WalkInv, LeafInv, Leaves
  <2>3. PICK ids : ids = LeafIds(f) OBVIOUS
  <2>4. /\ DOMAIN ids = 1 .. n
        /\ \A k \in 1 .. n : ids[k] = f[leaf_elem[k]] /\ ids[k] \in Int
    <3>1. ids = [k \in 1 .. n |-> f[leaf_elem[k]]] BY <2>1, <2>2, <2>3, LeafIdsIs
    <3>2. ASSUME NEW k \in 1 .. n PROVE f[leaf_elem[k]] \in Int
      <4>1. leaf_elem[k] \in Elements BY <2>1, <2>2, LeafIs
      <4>2. leaf_elem[k] \in DOMAIN f
        BY <2>1, <4>1, FieldIdsAssumption DEF WalkInv, Elements
      <4> QED BY <4>2, FieldIdsAssumption
    <3> QED BY <3>1, <3>2
  <2> DEFINE with == {k \in DOMAIN ids : ids[k] >= 0}
             right == {k - 1 : k \in {k \in 1 .. n : ids[k] = id}}
  <2>5. right = {k - 1 : k \in {k \in 1 .. Leaves : f[leaf_elem[k]] = id}} BY <2>2, <2>4
  <2>6. FieldIdMapping(f) =
          CASE with = {} -> [kind |-> "none"]
            [] with # {} /\ (\A k \in DOMAIN ids : ids[k] = k - 1) -> [kind |-> "identity"]
            [] OTHER -> [kind |-> "explicit", map |-> {<<ids[k], k - 1>> : k \in with}]
    BY <2>3 DEF FieldIdMapping
  <2>7. CASE with = {}
    <3>1. Mapped(FieldIdMapping(f), id) = {} BY <2>6, <2>7 DEF Mapped
    <3>2. right = {} BY <2>4, <2>7
    <3> QED BY <2>5, <3>1, <3>2
  <2>8. CASE with # {} /\ \A k \in DOMAIN ids : ids[k] = k - 1
    <3>1. FieldIdMapping(f) = [kind |-> "identity"] BY <2>6, <2>8
    <3>2. Mapped([kind |-> "identity"], id) = {id} \cap 0 .. n - 1 BY <2>2 DEF Mapped
    <3>3. {id} \cap 0 .. n - 1 = right
      <4>1. ASSUME id \in 0 .. n - 1 PROVE id \in right
        <5>1. id + 1 \in 1 .. n /\ ids[id + 1] = id /\ id = (id + 1) - 1
          BY <2>4, <2>8, <4>1, SMTT(30)
        <5> QED BY <5>1
      <4>2. \A x \in right : x = id /\ x \in 0 .. n - 1 BY <2>4, <2>8, SMTT(30)
      <4> QED BY <4>1, <4>2
    <3> QED BY <2>5, <3>1, <3>2, <3>3
  <2>9. CASE with # {} /\ ~\A k \in DOMAIN ids : ids[k] = k - 1
    <3> DEFINE pairs == {<<ids[k], k - 1>> : k \in with}
    <3>1. FieldIdMapping(f) = [kind |-> "explicit", map |-> pairs] BY <2>6, <2>9
    <3>2. Mapped([kind |-> "explicit", map |-> pairs], id) =
            {pair[2] : pair \in {p \in pairs : p[1] = id}}
      <4> HIDE DEF pairs
      <4> QED BY DEF Mapped
    <3>3. {pair[2] : pair \in {p \in pairs : p[1] = id}} = right
      <4>1. ASSUME NEW k \in with, ids[k] = id PROVE k - 1 \in right
        BY <2>4, <4>1
      <4>2. ASSUME NEW k \in 1 .. n, ids[k] = id
            PROVE  k - 1 \in {pair[2] : pair \in {p \in pairs : p[1] = id}}
        <5>1. k \in with BY <2>4, <4>2
        <5>2. <<ids[k], k - 1>> \in {p \in pairs : p[1] = id} BY <4>2, <5>1
        <5> QED BY <5>2
      <4>3. \A p \in pairs : p[1] = id => p[2] \in right BY <4>1
      <4> QED BY <4>2, <4>3
    <3> QED BY <2>5, <3>1, <3>2, <3>3
  <2> QED BY <2>7, <2>8, <2>9
<1> QED BY <1>1, NamesInvariant, PTL
=============================================================================

--------------------------- MODULE StatBoundsProofs ---------------------------
(***************************************************************************)
(* Splitting and cutting a bound keeps it a bound, for byte strings of any *)
(* length, any alphabet and any limit.                                     *)
(***************************************************************************)
EXTENDS StatBounds, NumberFacts, SequenceTheorems

\* A prefix and the suffix after it are byte strings of the right lengths and
\* together the whole.
LEMMA Split ==
  ASSUME NEW p \in Bytes, NEW n \in 0 .. Len(p)
  PROVE  /\ Prefix(p, n) \in Bytes /\ Suffix(p, n) \in Bytes
         /\ Len(Prefix(p, n)) = n /\ Len(Suffix(p, n)) = Len(p) - n
         /\ \A i \in 1 .. n : Prefix(p, n)[i] = p[i]
         /\ \A i \in 1 .. Len(p) - n : Suffix(p, n)[i] = p[n + i]
         /\ Prefix(p, n) \o Suffix(p, n) = p
<1>1. Len(p) \in Nat /\ \A i \in 1 .. Len(p) : p[i] \in Byte
  BY DEF Bytes
<1>2. /\ Prefix(p, n) \in Bytes
      /\ Len(Prefix(p, n)) = n
      /\ \A i \in 1 .. n : Prefix(p, n)[i] = p[i]
  BY <1>1, SubSeqProperties DEF Prefix, Bytes
<1>3. /\ Suffix(p, n) \in Bytes
      /\ Len(Suffix(p, n)) = Len(p) - n
      /\ \A i \in 1 .. Len(p) - n : Suffix(p, n)[i] = p[n + i]
  BY <1>1, SubSeqProperties DEF Suffix, Bytes
<1>4. Prefix(p, n) \o Suffix(p, n) = p
  <2> DEFINE q == Prefix(p, n) \o Suffix(p, n)
  <2>1. /\ q \in Bytes /\ Len(q) = Len(p)
        /\ \A i \in 1 .. Len(p) : q[i] =
             IF i <= n THEN Prefix(p, n)[i] ELSE Suffix(p, n)[i - n]
    BY <1>1, <1>2, <1>3, ConcatProperties DEF Bytes
  <2>2. \A i \in 1 .. Len(q) : q[i] = p[i]
    <3> TAKE i \in 1 .. Len(q)
    <3>1. CASE i <= n BY <3>1, <1>1, <1>2, <2>1
    <3>2. CASE i > n
      <4>1. i - n \in 1 .. Len(p) - n /\ n + (i - n) = i BY <3>2, <1>1, <2>1
      <4> QED BY <4>1, <3>2, <1>1, <1>3, <2>1
    <3> QED BY <3>1, <3>2, <1>1
  <2> HIDE DEF q
  <2>3. q = p BY <2>1, <2>2, SeqEqual DEF Bytes
  <2> QED BY <2>3 DEF q
<1> QED BY <1>2, <1>3, <1>4

\* There is exactly what CommonPrefix chooses: both strings start with it and
\* part after it.
LEMMA CommonPrefixIs ==
  ASSUME NEW a \in Bytes, NEW b \in Bytes
  PROVE  /\ CommonPrefix(a, b) \in 0 .. Len(a) /\ CommonPrefix(a, b) \in 0 .. Len(b)
         /\ \A i \in 1 .. CommonPrefix(a, b) : a[i] = b[i]
<1> DEFINE S == {n \in 0 .. Len(a) : n <= Len(b) /\ \A i \in 1 .. n : a[i] = b[i]}
<1>1. Len(a) \in Nat /\ Len(b) \in Nat BY DEF Bytes
<1>2. 0 \in S /\ S \subseteq 0 .. Len(a) BY <1>1
<1>3. PICK n \in S : \A m \in S : m <= n
  <2> HIDE DEF S
  <2> QED BY <1>1, <1>2, GreatestNatural
<1>4. n < Len(a) /\ n < Len(b) => a[n + 1] # b[n + 1]
  <2> SUFFICES ASSUME n < Len(a), n < Len(b), a[n + 1] = b[n + 1] PROVE FALSE
    OBVIOUS
  <2>1. n + 1 \in S BY <1>1
  <2> QED BY <2>1, <1>3
<1> QED BY <1>1, <1>3, <1>4, SMTT(30) DEF CommonPrefix

\* Stripping the common prefix loses nothing.
LEMMA StripCommonPrefix ==
  ASSUME NEW a \in Bytes, NEW b \in Bytes
  PROVE  /\ Prefix(a, CommonPrefix(a, b)) \o Suffix(a, CommonPrefix(a, b)) = a
         /\ Prefix(a, CommonPrefix(a, b)) \o Suffix(b, CommonPrefix(a, b)) = b
<1> DEFINE n == CommonPrefix(a, b)
<1>1. n \in 0 .. Len(a) /\ n \in 0 .. Len(b) /\ \A i \in 1 .. n : a[i] = b[i]
  BY CommonPrefixIs
<1> HIDE DEF n
<1>2. Len(Prefix(a, n)) = n /\ Len(Prefix(b, n)) = n /\ Prefix(a, n) \in Bytes
      /\ Prefix(b, n) \in Bytes /\ \A i \in 1 .. n : Prefix(a, n)[i] = Prefix(b, n)[i]
  BY <1>1, Split
<1>3. Prefix(a, n) = Prefix(b, n)
  BY <1>2, SeqEqual DEF Bytes
<1>4. Prefix(a, n) \o Suffix(a, n) = a /\ Prefix(b, n) \o Suffix(b, n) = b
  BY <1>1, Split
<1> QED BY <1>3, <1>4 DEF n

-----------------------------------------------------------------------------
(* Order.                                                                  *)

\* A string put in front of two strings keeps their order.
LEMMA LexPrefix ==
  ASSUME NEW p \in Bytes, NEW a \in Bytes, NEW b \in Bytes, LexLeq(a, b)
  PROVE  LexLeq(p \o a, p \o b)
<1>1. CASE a = b BY <1>1 DEF LexLeq
<1>2. CASE LexLess(a, b)
  <2>1. PICK n \in 0 .. Len(a) : /\ n < Len(b)
                                 /\ \A i \in 1 .. n : a[i] = b[i]
                                 /\ n < Len(a) => a[n + 1] < b[n + 1]
    BY <1>2 DEF LexLess
  <2>2. /\ Len(p) \in Nat /\ Len(a) \in Nat /\ Len(b) \in Nat
        /\ Len(p \o a) = Len(p) + Len(a) /\ Len(p \o b) = Len(p) + Len(b)
        /\ \A i \in 1 .. Len(p) + Len(a) :
             (p \o a)[i] = IF i <= Len(p) THEN p[i] ELSE a[i - Len(p)]
        /\ \A i \in 1 .. Len(p) + Len(b) :
             (p \o b)[i] = IF i <= Len(p) THEN p[i] ELSE b[i - Len(p)]
    BY ConcatProperties DEF Bytes
  <2> DEFINE m == Len(p) + n
  <2>3. m \in 0 .. Len(p \o a) /\ m < Len(p \o b) BY <2>1, <2>2
  <2>4. \A i \in 1 .. m : (p \o a)[i] = (p \o b)[i]
    <3> TAKE i \in 1 .. m
    <3>1. CASE i <= Len(p) BY <3>1, <2>1, <2>2
    <3>2. CASE i > Len(p)
      <4>1. i - Len(p) \in 1 .. n BY <3>2, <2>1, <2>2
      <4>2. a[i - Len(p)] = b[i - Len(p)] BY <4>1, <2>1
      <4> QED BY <4>2, <3>2, <2>1, <2>2
    <3> QED BY <3>1, <3>2, <2>1, <2>2
  <2>5. ASSUME m < Len(p \o a) PROVE (p \o a)[m + 1] < (p \o b)[m + 1]
    <3>1. m + 1 - Len(p) = n + 1 /\ n < Len(a) BY <2>5, <2>1, <2>2
    <3>2. (p \o a)[m + 1] = a[n + 1] /\ (p \o b)[m + 1] = b[n + 1]
      BY <3>1, <2>1, <2>2
    <3> QED BY <3>1, <3>2, <2>1
  <2> QED BY <2>3, <2>4, <2>5 DEF LexLess, LexLeq
<1> QED BY <1>1, <1>2 DEF LexLeq

\* Cutting gives a lower bound.
LEMMA CutBelow ==
  ASSUME NEW p \in Bytes, NEW n \in 0 .. Len(p)
  PROVE  LexLeq(Prefix(p, n), p)
<1>1. Len(p) \in Nat BY DEF Bytes
<1>2. CASE n = Len(p)
  <2>1. Prefix(p, n) = p BY <1>2, SubSeqFull DEF Prefix, Bytes
  <2> QED BY <2>1 DEF LexLeq
<1>3. CASE n < Len(p)
  <2>1. Len(Prefix(p, n)) = n /\ \A i \in 1 .. n : Prefix(p, n)[i] = p[i] BY Split
  <2> QED BY <1>1, <1>3, <2>1 DEF LexLeq, LexLess
<1> QED BY <1>1, <1>2, <1>3

\* The byte RoundUp increments is there unless all bytes are Top.
LEMMA RoundUpAt ==
  ASSUME NEW p \in Bytes, ~ \A i \in DOMAIN p : p[i] = Top
  PROVE  \E i \in DOMAIN p :
           /\ LastBelowTop(p, i)
           /\ RoundUp(p) = Append(Prefix(p, i - 1), p[i] + 1)
<1>1. Len(p) \in Nat /\ DOMAIN p = 1 .. Len(p) BY DEF Bytes
<1> DEFINE S == {i \in DOMAIN p : p[i] # Top}
<1>2. S \subseteq 0 .. Len(p) /\ S # {} BY <1>1
<1>3. PICK i \in S : \A j \in S : j <= i
  <2> HIDE DEF S
  <2> QED BY <1>1, <1>2, GreatestNatural
<1>4. LastBelowTop(p, i) BY <1>1, <1>3 DEF LastBelowTop
<1> DEFINE k == CHOOSE k \in DOMAIN p : LastBelowTop(p, k)
<1>5. k \in DOMAIN p /\ LastBelowTop(p, k) BY <1>4
<1>6. RoundUp(p) = Append(Prefix(p, k - 1), p[k] + 1) BY DEF RoundUp
<1> QED BY <1>5, <1>6

\* Rounding up gives an upper bound of everything that starts with p.
LEMMA RoundUpAbove ==
  ASSUME NEW p \in Bytes, NEW rest \in Bytes, RoundUp(p) # << >>
  PROVE  RoundUp(p) \in Bytes /\ LexLeq(p \o rest, RoundUp(p))
<1>1. ~ \A i \in DOMAIN p : p[i] = Top BY DEF RoundUp
<1>2. PICK i \in DOMAIN p : /\ LastBelowTop(p, i)
                            /\ RoundUp(p) = Append(Prefix(p, i - 1), p[i] + 1)
  BY <1>1, RoundUpAt
<1>3. /\ Len(p) \in Nat /\ DOMAIN p = 1 .. Len(p) /\ i \in 1 .. Len(p)
      /\ p[i] \in Byte /\ p[i] # Top
  BY <1>2 DEF LastBelowTop, Bytes
<1>4. p[i] + 1 \in Byte BY <1>3, TopAssumption DEF Byte
<1>5. /\ Prefix(p, i - 1) \in Bytes /\ Len(Prefix(p, i - 1)) = i - 1
      /\ \A j \in 1 .. i - 1 : Prefix(p, i - 1)[j] = p[j]
  <2>1. i - 1 \in 0 .. Len(p) BY <1>3
  <2> QED BY <2>1, Split
<1> DEFINE up == Append(Prefix(p, i - 1), p[i] + 1)
<1>6. /\ up \in Bytes /\ Len(up) = i /\ up[i] = p[i] + 1
      /\ \A j \in 1 .. i - 1 : up[j] = p[j]
  BY <1>3, <1>4, <1>5, AppendProperties DEF Bytes
<1>7. /\ Len(p \o rest) = Len(p) + Len(rest) /\ Len(rest) \in Nat
      /\ \A j \in 1 .. Len(p) : (p \o rest)[j] = p[j]
  BY <1>3, ConcatProperties DEF Bytes
<1>8. LexLess(p \o rest, up)
  <2> HIDE DEF up
  <2>1. i - 1 \in 0 .. Len(p \o rest) /\ i - 1 < Len(up) BY <1>3, <1>6, <1>7
  <2>2. \A j \in 1 .. i - 1 : (p \o rest)[j] = up[j] BY <1>3, <1>6, <1>7
  <2>3. (p \o rest)[(i - 1) + 1] < up[(i - 1) + 1]
    <3>1. (i - 1) + 1 = i /\ p[i] \in Int BY <1>3 DEF Byte
    <3> QED BY <3>1, <1>3, <1>6, <1>7
  <2> QED BY <2>1, <2>2, <2>3 DEF LexLess
<1> QED BY <1>2, <1>6, <1>8 DEF LexLeq

-----------------------------------------------------------------------------
(* What TruncateSuffix promises.                                           *)

\* The stored minimum suffix is a string not above the true one, the same one
\* when it is still called exact.
THEOREM MinCut ==
  ASSUME NEW s \in Bytes, NEW exact \in BOOLEAN, NEW limit \in Int
  PROVE  LET t == TruncateMin(s, exact, limit)
         IN /\ t.suffix \in Bytes /\ t.exact \in BOOLEAN
            /\ LexLeq(t.suffix, s)
            /\ t.exact => exact /\ t.suffix = s
            /\ limit <= 0 => t.suffix = s
<1>1. CASE limit > 0 /\ Len(s) > limit
  <2>1. limit \in 0 .. Len(s) BY <1>1
  <2>2. Prefix(s, limit) \in Bytes /\ LexLeq(Prefix(s, limit), s)
    BY <2>1, Split, CutBelow
  <2> QED BY <1>1, <2>2 DEF TruncateMin
<1>2. CASE ~(limit > 0 /\ Len(s) > limit)
  BY <1>2 DEF TruncateMin, LexLeq
<1> QED BY <1>1, <1>2

\* The stored maximum suffix is a string not below the true one, the same one
\* when it is still called exact.
THEOREM MaxCut ==
  ASSUME NEW s \in Bytes, NEW exact \in BOOLEAN, NEW limit \in Int
  PROVE  LET t == TruncateMax(s, exact, limit)
         IN /\ t.suffix \in Bytes /\ t.exact \in BOOLEAN
            /\ LexLeq(s, t.suffix)
            /\ t.exact => exact /\ t.suffix = s
            /\ limit <= 0 => t.suffix = s
<1> DEFINE up == RoundUp(Prefix(s, limit))
<1>1. CASE limit > 0 /\ Len(s) > limit /\ up # << >>
  <2>1. limit \in 0 .. Len(s) BY <1>1
  <2>2. /\ Prefix(s, limit) \in Bytes /\ Suffix(s, limit) \in Bytes
        /\ Prefix(s, limit) \o Suffix(s, limit) = s
    BY <2>1, Split
  <2>3. up \in Bytes /\ LexLeq(s, up)
    BY <1>1, <2>2, RoundUpAbove
  <2> QED BY <1>1, <2>3 DEF TruncateMax
<1>2. CASE ~(limit > 0 /\ Len(s) > limit /\ up # << >>)
  BY <1>2 DEF TruncateMax, LexLeq
<1> QED BY <1>1, <1>2

\* What is no longer called exact is shorter than it was.
LEMMA CutIsShorter ==
  ASSUME NEW s \in Bytes, NEW limit \in Int
  PROVE  /\ ~TruncateMin(s, TRUE, limit).exact =>
              Len(TruncateMin(s, TRUE, limit).suffix) < Len(s)
         /\ ~TruncateMax(s, TRUE, limit).exact =>
              Len(TruncateMax(s, TRUE, limit).suffix) < Len(s)
<1> DEFINE head == Prefix(s, limit)
           up == RoundUp(head)
<1>1. CASE limit > 0 /\ Len(s) > limit
  <2>1. limit \in 0 .. Len(s) BY <1>1
  <2>2. head \in Bytes /\ Len(head) = limit BY <2>1, Split
  <2> HIDE DEF head
  <2>3. ASSUME up # << >> PROVE Len(up) \in Nat /\ Len(up) <= limit
    <3>1. ~ \A i \in DOMAIN head : head[i] = Top BY <2>3 DEF RoundUp
    <3>2. PICK i \in DOMAIN head : up = Append(Prefix(head, i - 1), head[i] + 1)
      BY <2>2, <3>1, RoundUpAt
    <3>3. i \in 1 .. limit /\ i - 1 \in 0 .. Len(head) BY <2>2 DEF Bytes
    <3>4. Prefix(head, i - 1) \in Bytes /\ Len(Prefix(head, i - 1)) = i - 1
      BY <2>2, <3>3, Split
    <3>5. Len(Append(Prefix(head, i - 1), head[i] + 1)) = (i - 1) + 1
      BY <3>4, LenProperties, AppendProperties DEF Bytes
    <3> QED BY <1>1, <3>2, <3>3, <3>5
  <2>4. TruncateMin(s, TRUE, limit).suffix = head BY <1>1 DEF TruncateMin, head
  <2>5. up = RoundUp(Prefix(s, limit)) BY DEF head
  <2> HIDE DEF up
  <2>6. up = << >> => TruncateMax(s, TRUE, limit).exact
    BY <2>5 DEF TruncateMax
  <2>7. up # << >> => TruncateMax(s, TRUE, limit).suffix = up
    BY <1>1, <2>5 DEF TruncateMax
  <2>8. Len(TruncateMin(s, TRUE, limit).suffix) < Len(s) BY <1>1, <2>2, <2>4
  <2>9. up # << >> => Len(TruncateMax(s, TRUE, limit).suffix) < Len(s)
    <3>1. Len(s) \in Nat BY DEF Bytes
    <3>2. up # << >> => Len(up) < Len(s) BY <1>1, <2>3, <3>1
    <3> QED BY <2>7, <3>2
  <2> QED BY <2>6, <2>8, <2>9
<1>2. CASE ~(limit > 0 /\ Len(s) > limit)
  BY <1>2 DEF TruncateMin, TruncateMax
<1> QED BY <1>1, <1>2

=============================================================================

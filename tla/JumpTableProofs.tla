--------------------------- MODULE JumpTableProofs ---------------------------
(***************************************************************************)
(* Proofs about the jump table, for every footer.  First what a cursor     *)
(* does (its calls end, it moves forward, what it reads of a part that two *)
(* blobs share is the same in both); then that every offset the walk finds *)
(* stays inside a parsed footer, what the new footer's tokens are and what *)
(* a reader meets there; the invariant of converter and reader (JumpInv),  *)
(* and what follows from it.  Last the resolvers, for regular footers: the *)
(* packed offsets are read back, a regular footer is regular where it is   *)
(* moved to, and with what the walk found every resolver has the chunks of *)
(* the others (ResolverInv).                                               *)
(***************************************************************************)
EXTENDS JumpTable, NumberFacts, SequenceTheorems

-----------------------------------------------------------------------------
(* Cursors.                                                                 *)

FieldRecords == [id : Int, type : Types, at : Nat, value : Nat]
Todo == [type : Types, n : Nat \ {0}]

\* What a cursor reads from a token has a type, and behind the blob is a STOP.
LEMMA TokenRead ==
  ASSUME NEW s, IsBlob(s), NEW o \in Nat
  PROVE  /\ At(s, o).t = "field" => o < Len(s) /\ At(s, o).a \in Nat /\ At(s, o).b \in Types \ {"stop"}
         /\ NumAt(s, o) \in Int /\ ElemAt(s, o) \in Types /\ SizeAt(s, o) \in Nat
<1>1. Len(s) \in Nat /\ \A j \in 1 .. Len(s) : IsToken(s[j]) BY DEF IsBlob
<1>2. CASE o < Len(s)
  <2>1. o + 1 \in 1 .. Len(s) BY <1>1, <1>2
  <2>2. IsToken(At(s, o)) BY <1>1, <1>2, <2>1 DEF At
  <2> QED BY <1>2, <2>2 DEF IsToken, NumAt, ElemAt, SizeAt, Types
<1>3. CASE ~(o < Len(s))
  <2>1. At(s, o).t = "stop" BY <1>3 DEF At, Stop, Token
  <2> QED BY <2>1 DEF NumAt, ElemAt, SizeAt, Types
<1> QED BY <1>2, <1>3

\* What NextField reads: a record of the field, one or two tokens on; the id of the
\* field before it decides only about its own id.
LEMMA NextFieldRead ==
  ASSUME NEW s, IsBlob(s), NEW o \in Nat, NEW last \in Int
  PROVE  /\ NextField(s, o, last) \in FieldRecords
         /\ NextField(s, o, last).at = o
         /\ NextField(s, o, last).value \in {o + 1, o + 2}
         /\ NextField(s, o, last).type = "stop" => NextField(s, o, last).value = o + 1
         /\ NextField(s, o, last).type = "stop" <=> At(s, o).t # "field"
         /\ NextField(s, o, last).type # "stop" => o < Len(s)
         /\ NextField(s, o, last).type = NextField(s, o, 0).type
         /\ NextField(s, o, last).value = NextField(s, o, 0).value
<1>1. /\ At(s, o).t = "field" => o < Len(s) /\ At(s, o).a \in Nat /\ At(s, o).b \in Types \ {"stop"}
      /\ NumAt(s, o + 1) \in Int
  BY TokenRead
<1>2. CASE At(s, o).t # "field"
  BY <1>2 DEF NextField, FieldRecords, Types
<1>3. CASE At(s, o).t = "field" /\ At(s, o).a # 0
  BY <1>1, <1>3 DEF NextField, FieldRecords
<1>4. CASE At(s, o).t = "field" /\ At(s, o).a = 0
  BY <1>1, <1>4 DEF NextField, FieldRecords
<1> QED BY <1>2, <1>3, <1>4

\* What is to skip is a list of types and numbers.
LEMMA ValuesTyped ==
  ASSUME NEW type \in Types, NEW n \in Int
  PROVE  Values(type, n) \in Seq(Todo)
<1>1. CASE n < 1 \/ type = "bool"
  BY <1>1, EmptySeq DEF Values
<1>2. CASE ~(n < 1 \/ type = "bool")
  <2>1. [type |-> type, n |-> n] \in Todo BY <1>2 DEF Todo
  <2> QED BY <1>2, <2>1 DEF Values
<1> QED BY <1>1, <1>2

\* A call is a place and what is left to skip.
LEMMA CallIs ==
  /\ \A o \in Nat : \A todo \in Seq(Todo) : [at |-> o, todo |-> todo] \in Calls
  /\ \A c \in Calls : c.at \in Nat /\ c.todo \in Seq(Todo) /\ c = [at |-> c.at, todo |-> c.todo]
BY DEF Calls, Todo

\* What a call puts in front of the rest.
LEMMA InnerTyped ==
  ASSUME NEW s, IsBlob(s), NEW o \in Nat, NEW type \in Types
  PROVE  /\ Inside(s, o, type) \in {o + 1, o + 2} /\ Inside(s, o, type) \in Nat
         /\ Inner(s, o, type) \in Seq(Todo)
<1> DEFINE f == NextField(s, o, 0)
<1>1. f \in FieldRecords /\ f.value \in {o + 1, o + 2} BY NextFieldRead
<1>2. Inside(s, o, type) \in {o + 1, o + 2} BY <1>1 DEF Inside
<1>3. ElemAt(s, o) \in Types /\ SizeAt(s, o) \in Int
  <2>1. ElemAt(s, o) \in Types /\ SizeAt(s, o) \in Nat BY TokenRead
  <2> QED BY <2>1
<1>4. f.type \in Types /\ "struct" \in Types /\ 1 \in Int BY <1>1 DEF FieldRecords, Types
<1>5. Values(ElemAt(s, o), SizeAt(s, o)) \in Seq(Todo) BY <1>3, ValuesTyped
<1>6. Inner(s, o, type) =
        CASE type = "list" -> Values(ElemAt(s, o), SizeAt(s, o))
          [] type = "struct" /\ f.type # "stop" -> Values(f.type, 1) \o Values("struct", 1)
          [] OTHER -> <<>>
  BY DEF Inner
<1> HIDE DEF f
<1>7. Values(f.type, 1) \in Seq(Todo) /\ Values("struct", 1) \in Seq(Todo) BY <1>4, ValuesTyped
<1>8. Values(f.type, 1) \o Values("struct", 1) \in Seq(Todo) BY <1>7, ConcatProperties
<1>9. Inner(s, o, type) \in Seq(Todo) BY <1>5, <1>6, <1>8, EmptySeq
<1> QED BY <1>2, <1>9

\* The parts of the next call.
LEMMA StepParts ==
  ASSUME NEW s, IsBlob(s), NEW c \in Calls, c.todo # <<>>
  PROVE  /\ Head(c.todo) \in Todo /\ Head(c.todo).type \in Types
         /\ Values(Head(c.todo).type, Head(c.todo).n - 1) \in Seq(Todo)
         /\ Tail(c.todo) \in Seq(Todo)
         /\ Inner(s, c.at, Head(c.todo).type) \in Seq(Todo)
         /\ Inside(s, c.at, Head(c.todo).type) \in {c.at + 1, c.at + 2}
<1>1. c.at \in Nat /\ c.todo \in Seq(Todo) BY CallIs
<1>2. Head(c.todo) \in Todo /\ Tail(c.todo) \in Seq(Todo) BY <1>1, HeadTailProperties
<1>3. Head(c.todo).type \in Types /\ Head(c.todo).n - 1 \in Int BY <1>2 DEF Todo
<1> QED BY <1>1, <1>2, <1>3, ValuesTyped, InnerTyped

\* A call moves forward.
LEMMA StepForward ==
  ASSUME NEW s, IsBlob(s), NEW c \in Calls, c.todo # <<>>
  PROVE  SkipStep(s, c) \in Calls /\ SkipStep(s, c).at > c.at
<1> DEFINE type == Head(c.todo).type
           V == Values(type, Head(c.todo).n - 1)
           I == Inner(s, c.at, type)
<1>1. c.at \in Nat BY CallIs
<1>2. V \in Seq(Todo) /\ Tail(c.todo) \in Seq(Todo) /\ I \in Seq(Todo)
      /\ Inside(s, c.at, type) \in {c.at + 1, c.at + 2}
  BY StepParts
<1>3. SkipStep(s, c) = [at |-> Inside(s, c.at, type), todo |-> I \o (V \o Tail(c.todo))] BY DEF SkipStep
<1> HIDE DEF type, V, I
<1>4. I \o (V \o Tail(c.todo)) \in Seq(Todo)
  <2>1. V \o Tail(c.todo) \in Seq(Todo) BY <1>2, ConcatProperties
  <2> QED BY <1>2, <2>1, ConcatProperties
<1>5. Inside(s, c.at, type) \in Nat /\ Inside(s, c.at, type) > c.at BY <1>1, <1>2
<1> QED BY <1>3, <1>4, <1>5, CallIs

\* Induction along the calls, from where they end.
Halted(s, c) == c.todo = <<>> \/ c.at > Len(s)

\* What holds of a call where it ends, or if it holds of the next one, holds of all.
LEMMA AlongCalls ==
  ASSUME NEW s, IsBlob(s), NEW S,
         \A c \in Calls : Halted(s, c) \/ SkipStep(s, c) \in S => c \in S
  PROVE  Calls \subseteq S
<1> DEFINE left(c) == IF c.at > Len(s) THEN 0 ELSE Len(s) + 1 - c.at
           bad == {n \in Nat : \E c \in Calls \ S : n = left(c)}
<1>1. Len(s) \in Nat BY DEF IsBlob
<1>2. \A c \in Calls : left(c) \in Nat BY <1>1, CallIs
<1> SUFFICES ASSUME NEW c0 \in Calls, c0 \notin S PROVE FALSE OBVIOUS
<1>3. PICK n \in bad : \A m \in bad : n <= m
  <2>1. left(c0) \in bad BY <1>2
  <2>2. bad \subseteq Nat /\ bad # {} BY <2>1
  <2> HIDE DEF bad
  <2> QED BY <2>2, LeastNatural
<1>4. PICK c \in Calls \ S : n = left(c) BY <1>3
<1>5. ~Halted(s, c) /\ SkipStep(s, c) \notin S BY <1>4
<1>6. SkipStep(s, c) \in Calls /\ SkipStep(s, c).at > c.at BY <1>5, StepForward DEF Halted
<1>7. c.at \in Nat /\ SkipStep(s, c).at \in Nat /\ ~(c.at > Len(s)) BY <1>5, <1>6, CallIs DEF Halted
<1>8. left(SkipStep(s, c)) < left(c) BY <1>1, <1>6, <1>7
<1>9. left(SkipStep(s, c)) \in bad BY <1>2, <1>5, <1>6
<1>10. n <= left(SkipStep(s, c)) BY <1>3, <1>9
<1>11. left(c) \in Nat /\ left(SkipStep(s, c)) \in Nat BY <1>2, <1>6
<1> HIDE DEF left
<1> QED BY <1>4, <1>8, <1>10, <1>11

\* Induction, for a set of natural numbers.
LEMMA Induct ==
  ASSUME NEW P, 0 \in P, \A n \in Nat : n \in P => n + 1 \in P
  PROVE  Nat \subseteq P
<1> DEFINE bad == {n \in Nat : n \notin P}
<1> SUFFICES ASSUME bad # {} PROVE FALSE OBVIOUS
<1>1. PICK n \in bad : \A m \in bad : n <= m
  <2>1. bad \subseteq Nat OBVIOUS
  <2> HIDE DEF bad
  <2> QED BY <2>1, LeastNatural
<1>2. n # 0 /\ n \in Nat BY <1>1
<1>3. n - 1 \in Nat /\ ~(n <= n - 1) /\ (n - 1) + 1 = n BY <1>2
<1>4. n - 1 \in P BY <1>1, <1>3
<1>5. n \in P BY <1>3, <1>4
<1> QED BY <1>1, <1>5

\* The recursion over the calls has a solution: they end.
LEMMA EndsUnfold ==
  ASSUME NEW s, IsBlob(s)
  PROVE  \A c \in Calls :
           Ends(s)[c] = IF Halted(s, c) THEN c.at ELSE Ends(s)[SkipStep(s, c)]
<1> DEFINE L == Len(s)
           Next1(c) == IF Halted(s, c) THEN c ELSE SkipStep(s, c)
           H == [n \in Nat |-> [c \in Calls |-> Next1(c)]]
           T(c) == CHOOSE f : IsRecursion(f, Calls, c, H)
           E == [c \in Calls |-> T(c)[L + 1].at]
<1>1. L \in Nat BY DEF IsBlob
<1>2. \A c \in Calls : Next1(c) \in Calls BY StepForward DEF Halted
<1>3. ASSUME NEW c \in Calls
      PROVE  /\ T(c) \in [Nat -> Calls] /\ T(c)[0] = c
             /\ \A n \in Nat : T(c)[n + 1] = Next1(T(c)[n])
  <2>1. H \in [Nat -> [Calls -> Calls]]
    <3> HIDE DEF Next1
    <3> QED BY <1>2
  <2> HIDE DEF Next1
  <2>2. \A n \in Nat : \A d \in Calls : H[n][d] = Next1(d) OBVIOUS
  <2> HIDE DEF H
  <2>3. \E f : IsRecursion(f, Calls, c, H) BY <2>1, RecursionExists
  <2>4. IsRecursion(T(c), Calls, c, H) BY <2>3, Zenon
  <2> HIDE DEF T
  <2> QED BY <2>2, <2>4 DEF IsRecursion
<1> HIDE DEF T, H
<1>4. ASSUME NEW c \in Calls PROVE Halted(s, T(c)[L + 1])
  <2> DEFINE P == {n \in Nat : Halted(s, T(c)[n]) \/ T(c)[n].at >= n}
  <2>1. 0 \in P BY <1>3, CallIs
  <2>2. ASSUME NEW n \in Nat, n \in P PROVE n + 1 \in P
    <3>1. T(c)[n] \in Calls /\ T(c)[n + 1] = Next1(T(c)[n]) BY <1>3
    <3>2. CASE Halted(s, T(c)[n]) BY <3>1, <3>2
    <3>3. CASE ~Halted(s, T(c)[n])
      <4>1. T(c)[n + 1] = SkipStep(s, T(c)[n]) BY <3>1, <3>3
      <4>2. SkipStep(s, T(c)[n]) \in Calls /\ SkipStep(s, T(c)[n]).at > T(c)[n].at
        BY <3>1, <3>3, StepForward DEF Halted
      <4>3. T(c)[n + 1].at \in Nat /\ T(c)[n].at \in Nat BY <3>1, <4>1, <4>2, CallIs
      <4>4. T(c)[n].at >= n BY <2>2, <3>3
      <4>5. T(c)[n + 1].at >= n + 1 BY <4>1, <4>2, <4>3, <4>4
      <4> QED BY <4>5
    <3> QED BY <3>2, <3>3
  <2>3. L + 1 \in P
    <3> HIDE DEF P, L
    <3>1. L + 1 \in Nat BY <1>1
    <3> QED BY <2>1, <2>2, <3>1, Induct
  <2>4. CASE Halted(s, T(c)[L + 1]) BY <2>4
  <2>5. CASE T(c)[L + 1].at >= L + 1
    <3>1. T(c)[L + 1] \in Calls BY <1>1, <1>3
    <3>2. T(c)[L + 1].at \in Nat BY <3>1, CallIs
    <3>3. T(c)[L + 1].at > Len(s) BY <1>1, <2>5, <3>2
    <3> QED BY <3>3 DEF Halted
  <2> QED BY <2>3, <2>4, <2>5
<1>5. ASSUME NEW c \in Calls, Halted(s, c) PROVE E[c] = c.at
  <2> DEFINE P == {n \in Nat : T(c)[n] = c}
  <2>1. 0 \in P BY <1>3
  <2>2. ASSUME NEW n \in Nat, n \in P PROVE n + 1 \in P
    <3>1. n + 1 \in Nat /\ T(c)[n + 1] = Next1(T(c)[n])
      <4> HIDE DEF Next1
      <4> QED BY <1>3
    <3> QED BY <1>5, <2>2, <3>1
  <2>3. L + 1 \in P
    <3> HIDE DEF P, L
    <3>1. L + 1 \in Nat BY <1>1
    <3> QED BY <2>1, <2>2, <3>1, Induct
  <2> QED BY <2>3
<1>6. ASSUME NEW c \in Calls, ~Halted(s, c) PROVE E[c] = E[SkipStep(s, c)]
  <2> DEFINE d == SkipStep(s, c)
             P == {n \in Nat : T(d)[n] = T(c)[n + 1]}
  <2>1. d \in Calls BY <1>6, StepForward DEF Halted
  <2>2. d = Next1(c) BY <1>6
  <2> HIDE DEF d
  <2>3. 0 \in P
    <3>1. T(c)[0 + 1] = Next1(T(c)[0]) /\ T(c)[0] = c /\ T(d)[0] = d
      <4> HIDE DEF Next1
      <4> QED BY <1>3, <2>1
    <3> QED BY <2>2, <3>1
  <2>4. ASSUME NEW n \in Nat, n \in P PROVE n + 1 \in P
    <3>1. n + 1 \in Nat /\ T(d)[n + 1] = Next1(T(d)[n]) /\ T(c)[(n + 1) + 1] = Next1(T(c)[n + 1])
      <4> HIDE DEF Next1
      <4>1. n + 1 \in Nat OBVIOUS
      <4>2. T(d)[n + 1] = Next1(T(d)[n]) BY <1>3, <2>1
      <4>3. T(c)[(n + 1) + 1] = Next1(T(c)[n + 1]) BY <1>3, <4>1
      <4> QED BY <4>1, <4>2, <4>3
    <3> HIDE DEF Next1
    <3> QED BY <2>4, <3>1
  <2>5. L + 1 \in P
    <3> HIDE DEF P, L
    <3>1. L + 1 \in Nat BY <1>1
    <3> QED BY <2>3, <2>4, <3>1, Induct
  <2>6. T(c)[(L + 1) + 1] = T(c)[L + 1]
    <3>1. L + 1 \in Nat BY <1>1
    <3>2. T(c)[(L + 1) + 1] = Next1(T(c)[L + 1])
      <4> HIDE DEF Next1, L
      <4> QED BY <1>3, <3>1
    <3> QED BY <1>4, <3>2
  <2>7. E[c] = T(c)[L + 1].at /\ E[d] = T(d)[L + 1].at BY <2>1
  <2> QED BY <2>5, <2>6, <2>7 DEF d
<1> HIDE DEF E, Next1, L
<1> DEFINE Solves(end) ==
             end = [c \in Calls |-> IF c.todo = <<>> \/ c.at > Len(s) THEN c.at ELSE end[SkipStep(s, c)]]
<1>7. Solves(E)
  <2>1. DOMAIN E = Calls BY DEF E
  <2>2. E = [c \in Calls |-> E[c]] BY DEF E
  <2>3. \A c \in Calls : E[c] = IF c.todo = <<>> \/ c.at > Len(s) THEN c.at ELSE E[SkipStep(s, c)]
    BY <1>5, <1>6 DEF Halted
  <2> QED BY <2>2, <2>3
<1>8. Solves(Ends(s))
  <2>1. Ends(s) = CHOOSE end : Solves(end) BY DEF Ends
  <2> HIDE DEF Solves
  <2>2. Solves(CHOOSE end : Solves(end)) BY <1>7, Zenon
  <2> QED BY <2>1, <2>2
<1> QED BY <1>8 DEF Halted

\* A call ends where it is or further on.
LEMMA EndsForward ==
  ASSUME NEW s, IsBlob(s)
  PROVE  \A c \in Calls : /\ Ends(s)[c] \in Nat /\ Ends(s)[c] >= c.at
                          /\ c.todo # <<>> => Ends(s)[c] > c.at \/ c.at > Len(s)
<1> DEFINE S == {c \in Calls : /\ Ends(s)[c] \in Nat /\ Ends(s)[c] >= c.at
                               /\ c.todo # <<>> => Ends(s)[c] > c.at \/ c.at > Len(s)}
<1>1. ASSUME NEW c \in Calls, Halted(s, c) \/ SkipStep(s, c) \in S PROVE c \in S
  <2>1. c.at \in Nat BY CallIs
  <2>2. CASE Halted(s, c)
    <3>1. Ends(s)[c] = c.at BY <2>2, EndsUnfold
    <3> QED BY <2>1, <2>2, <3>1 DEF Halted
  <2>3. CASE ~Halted(s, c)
    <3>1. Ends(s)[c] = Ends(s)[SkipStep(s, c)] BY <2>3, EndsUnfold
    <3>2. SkipStep(s, c) \in Calls /\ SkipStep(s, c).at > c.at BY <2>3, StepForward DEF Halted
    <3>3. SkipStep(s, c).at \in Nat BY <3>2, CallIs
    <3>4. Ends(s)[SkipStep(s, c)] \in Nat /\ Ends(s)[SkipStep(s, c)] >= SkipStep(s, c).at
      BY <1>1, <2>3
    <3> QED BY <2>1, <3>1, <3>2, <3>3, <3>4
  <2> QED BY <2>2, <2>3
<1> HIDE DEF S
<1>2. Calls \subseteq S BY <1>1, AlongCalls
<1> QED BY <1>2 DEF S

\* The head of a sequence stays the head when another is put behind it.
LEMMA HeadOfConcat ==
  ASSUME NEW S, NEW s \in Seq(S), NEW t \in Seq(S), s # <<>>
  PROVE  s \o t # <<>> /\ Head(s \o t) = Head(s) /\ Tail(s \o t) = Tail(s) \o t
<1>1. /\ Len(s) \in Nat \ {0} /\ Len(t) \in Nat
      /\ s \o t \in Seq(S) /\ Len(s \o t) = Len(s) + Len(t)
      /\ \A j \in 1 .. Len(s) + Len(t) : (s \o t)[j] = IF j <= Len(s) THEN s[j] ELSE t[j - Len(s)]
  BY EmptySeq, LenProperties, ConcatProperties
<1>2. s \o t # <<>>
  <2>1. Len(s \o t) # 0 BY <1>1
  <2> QED BY <2>1, EmptySeq
<1>3. Head(s \o t) = Head(s)
  <2>1. Head(s) = s[1] /\ Head(s \o t) = (s \o t)[1] OBVIOUS
  <2>2. 1 \in 1 .. Len(s) + Len(t) /\ 1 <= Len(s) BY <1>1
  <2> QED BY <1>1, <2>1, <2>2
<1>4. /\ Tail(s) \in Seq(S) /\ Len(Tail(s)) = Len(s) - 1
      /\ \A j \in 1 .. Len(s) - 1 : Tail(s)[j] = s[j + 1]
  BY HeadTailProperties
<1>5. /\ Tail(s \o t) \in Seq(S) /\ Len(Tail(s \o t)) = Len(s) + Len(t) - 1
      /\ \A j \in 1 .. Len(s) + Len(t) - 1 : Tail(s \o t)[j] = (s \o t)[j + 1]
  BY <1>1, <1>2, HeadTailProperties
<1>6. /\ Tail(s) \o t \in Seq(S) /\ Len(Tail(s) \o t) = Len(s) - 1 + Len(t)
      /\ \A j \in 1 .. Len(s) - 1 + Len(t) :
           (Tail(s) \o t)[j] = IF j <= Len(s) - 1 THEN Tail(s)[j] ELSE t[j - (Len(s) - 1)]
  <2>1. PICK u \in Seq(S) : u = Tail(s) BY <1>4
  <2>2. /\ u \o t \in Seq(S) /\ Len(u \o t) = Len(u) + Len(t)
        /\ \A j \in 1 .. Len(u) + Len(t) : (u \o t)[j] = IF j <= Len(u) THEN u[j] ELSE t[j - Len(u)]
    BY ConcatProperties
  <2>3. Len(u) = Len(s) - 1 BY <1>4, <2>1
  <2> QED BY <2>1, <2>2, <2>3
<1>7. ASSUME NEW j \in 1 .. Len(s) + Len(t) - 1
      PROVE  Tail(s \o t)[j] = (Tail(s) \o t)[j]
  <2>1. /\ j + 1 \in 1 .. Len(s) + Len(t) /\ j \in 1 .. Len(s) - 1 + Len(t)
        /\ j + 1 - Len(s) = j - (Len(s) - 1)
    BY <1>1
  <2>2. CASE j <= Len(s) - 1
    <3>1. j + 1 <= Len(s) /\ j \in 1 .. Len(s) - 1 BY <1>1, <2>2
    <3>2. (s \o t)[j + 1] = s[j + 1] BY <1>1, <2>1, <3>1
    <3>3. (Tail(s) \o t)[j] = Tail(s)[j] BY <1>6, <2>1, <2>2
    <3> QED BY <1>4, <1>5, <3>1, <3>2, <3>3
  <2>3. CASE ~(j <= Len(s) - 1)
    <3>1. ~(j + 1 <= Len(s)) BY <1>1, <2>3
    <3>2. (s \o t)[j + 1] = t[j + 1 - Len(s)] BY <1>1, <2>1, <3>1
    <3>3. (Tail(s) \o t)[j] = t[j - (Len(s) - 1)] BY <1>6, <2>1, <2>3
    <3> QED BY <1>5, <2>1, <3>2, <3>3
  <2> QED BY <2>2, <2>3
<1>8. Len(s) + Len(t) - 1 = Len(s) - 1 + Len(t) BY <1>1
<1>9. Tail(s \o t) = Tail(s) \o t BY <1>5, <1>6, <1>7, <1>8, SeqEqual
<1> QED BY <1>2, <1>3, <1>9

\* Four sequences one behind the other.
Joined(s, t) == s \o t

\* In which order they are joined does not matter.
LEMMA FourJoined ==
  ASSUME NEW S, NEW s1 \in Seq(S), NEW s2 \in Seq(S), NEW s3 \in Seq(S), NEW s4 \in Seq(S)
  PROVE  Joined(s1, Joined(s2, Joined(s3, s4))) = Joined(Joined(s1, Joined(s2, s3)), s4)
<1>1. s2 \o (s3 \o s4) = (s2 \o s3) \o s4 BY ConcatAssociative, SMTT(30)
<1>2. PICK s5 \in Seq(S) : s5 = s2 \o s3 BY ConcatProperties
<1>3. s1 \o (s5 \o s4) = (s1 \o s5) \o s4 BY ConcatAssociative, SMTT(30)
<1> QED BY <1>1, <1>2, <1>3 DEF Joined

\* Work behind work starts where that ends.
EndOf(s, o, todo) == Ends(s)[[at |-> o, todo |-> todo]]

\* It does so for every work.
LEMMA EndsAppend ==
  ASSUME NEW s, IsBlob(s)
  PROVE  \A o \in Nat : \A A, B \in Seq(Todo) :
           EndOf(s, o, A \o B) = EndOf(s, EndOf(s, o, A), B)
<1> TAKE o \in Nat
<1> TAKE A, B \in Seq(Todo)
<1> DEFINE S == {c \in Calls :
                   Ends(s)[[at |-> c.at, todo |-> c.todo \o B]] =
                     Ends(s)[[at |-> Ends(s)[c], todo |-> B]]}
<1>1. ASSUME NEW c \in Calls, Halted(s, c) \/ SkipStep(s, c) \in S PROVE c \in S
  <2>1. c.at \in Nat /\ c.todo \in Seq(Todo) BY CallIs
  <2> DEFINE d == [at |-> c.at, todo |-> c.todo \o B]
  <2>2. d \in Calls /\ d.at = c.at /\ d.todo = c.todo \o B
    <3>1. c.todo \o B \in Seq(Todo) BY <2>1, ConcatProperties
    <3> QED BY <2>1, <3>1, CallIs
  <2>3. CASE c.todo = <<>>
    <3>1. Ends(s)[c] = c.at BY <2>3, EndsUnfold DEF Halted
    <3>2. c.todo \o B = B BY <2>3, ConcatEmptySeq
    <3> QED BY <3>1, <3>2
  <2>4. CASE c.at > Len(s)
    <3>1. Ends(s)[c] = c.at BY <2>4, EndsUnfold DEF Halted
    <3>2. Ends(s)[d] = c.at
      <4> HIDE DEF d
      <4> QED BY <2>2, <2>4, EndsUnfold DEF Halted
    <3>3. [at |-> c.at, todo |-> B] \in Calls BY <2>1, CallIs
    <3>4. Ends(s)[[at |-> c.at, todo |-> B]] = c.at BY <2>4, <3>3, EndsUnfold DEF Halted
    <3> QED BY <3>1, <3>2, <3>4
  <2>5. CASE c.todo # <<>> /\ ~(c.at > Len(s))
    <3>1. ~Halted(s, c) BY <2>5 DEF Halted
    <3>2. SkipStep(s, c) \in S /\ SkipStep(s, c) \in Calls BY <1>1, <3>1
    <3>3. Ends(s)[c] = Ends(s)[SkipStep(s, c)] BY <3>1, EndsUnfold
    <3>4. d.todo # <<>> /\ Head(d.todo) = Head(c.todo) /\ Tail(d.todo) = Tail(c.todo) \o B
      <4> HIDE DEF d
      <4>1. PICK a \in Seq(Todo) : a = c.todo BY <2>1
      <4>2. a # <<>> BY <2>5, <4>1
      <4>3. a \o B # <<>> /\ Head(a \o B) = Head(a) /\ Tail(a \o B) = Tail(a) \o B
        BY <4>2, HeadOfConcat
      <4> QED BY <2>2, <4>1, <4>3
    <3>5. SkipStep(s, d) = [at |-> SkipStep(s, c).at, todo |-> SkipStep(s, c).todo \o B]
      <4> DEFINE type == Head(c.todo).type
                 V == Values(type, Head(c.todo).n - 1)
                 T == Tail(c.todo)
                 I == Inner(s, c.at, type)
      <4>1. V \in Seq(Todo) /\ T \in Seq(Todo) /\ I \in Seq(Todo) BY <2>5, StepParts
      <4>2. SkipStep(s, c) = [at |-> Inside(s, c.at, type), todo |-> I \o (V \o T)] BY Zenon DEF SkipStep
      <4>3. SkipStep(s, d) = [at |-> Inside(s, c.at, type), todo |-> I \o (V \o (T \o B))]
        <5> HIDE DEF d
        <5> QED BY <2>2, <3>4 DEF SkipStep
      <4> HIDE DEF d, V, T, I, type
      <4>4. I \o (V \o (T \o B)) = (I \o (V \o T)) \o B
        <5>1. Joined(I, Joined(V, Joined(T, B))) = Joined(Joined(I, Joined(V, T)), B) BY <4>1, FourJoined
        <5> QED BY <5>1 DEF Joined
      <4> QED BY <4>2, <4>3, <4>4
    <3>6. ~Halted(s, d)
      <4> HIDE DEF d
      <4> QED BY <2>2, <2>5, <3>4 DEF Halted
    <3>7. Ends(s)[d] = Ends(s)[SkipStep(s, d)]
      <4> HIDE DEF d
      <4> QED BY <2>2, <3>6, EndsUnfold
    <3> QED BY <3>2, <3>3, <3>5, <3>7
  <2> QED BY <2>3, <2>4, <2>5
<1>2. [at |-> o, todo |-> A] \in S
  <2> HIDE DEF S
  <2>1. Calls \subseteq S BY <1>1, AlongCalls
  <2> QED BY <2>1, CallIs
<1> QED BY <1>2 DEF EndOf

\* Skip moves forward, over anything but a boolean.
LEMMA SkipForward ==
  ASSUME NEW s, IsBlob(s), NEW o \in Nat, NEW type \in Types
  PROVE  /\ Skip(s, o, type) \in Nat /\ Skip(s, o, type) >= o
         /\ type # "bool" => Skip(s, o, type) > o \/ o > Len(s)
         /\ type = "bool" => Skip(s, o, type) = o
<1> DEFINE c == [at |-> o, todo |-> Values(type, 1)]
<1>1. Values(type, 1) \in Seq(Todo) BY ValuesTyped
<1>2. c \in Calls /\ c.at = o /\ c.todo = Values(type, 1) BY <1>1, CallIs
<1>3. Skip(s, o, type) = Ends(s)[c] BY DEF Skip
<1>4. type # "bool" => c.todo # <<>> BY DEF Values
<1>5. type = "bool" => c.todo = <<>> BY DEF Values
<1> HIDE DEF c
<1>6. type = "bool" => Ends(s)[c] = o BY <1>2, <1>5, EndsUnfold DEF Halted
<1> QED BY <1>2, <1>3, <1>4, <1>6, EndsForward

-----------------------------------------------------------------------------
(* A part of a blob that is moved.                                         *)

Agree(s, t, o, L, d) ==
  /\ L <= Len(s) /\ L + d <= Len(t)
  /\ \A p \in o .. L - 1 : At(t, p + d) = At(s, p)
Moved(f, d) == [id |-> f.id, type |-> f.type, at |-> f.at + d, value |-> f.value + d]

\* A field, its value and the end of a value, read in the part the blobs share.
LEMMA FieldMoved ==
  ASSUME NEW s, IsBlob(s), NEW t, IsBlob(t), NEW o \in Nat, NEW L \in Nat, NEW d \in Nat,
         Agree(s, t, o, L, d), NEW p \in Nat, p >= o, NEW last \in Int,
         NextField(s, p, last).value <= L
  PROVE  NextField(t, p + d, last) = Moved(NextField(s, p, last), d)
<1>1. NextField(s, p, last).value \in {p + 1, p + 2} BY NextFieldRead
<1>2. p \in o .. L - 1 BY <1>1
<1>3. At(t, p + d) = At(s, p) BY <1>2 DEF Agree
<1>4. CASE At(s, p).t # "field"
  BY <1>3, <1>4 DEF NextField, Moved
<1>5. CASE At(s, p).t = "field" /\ At(s, p).a # 0
  BY <1>3, <1>5 DEF NextField, Moved
<1>6. CASE At(s, p).t = "field" /\ At(s, p).a = 0
  <2>1. NextField(s, p, last).value = p + 2 BY <1>6 DEF NextField
  <2>2. p + 1 \in o .. L - 1 /\ (p + 1) + d = (p + d) + 1 BY <1>1, <2>1
  <2>3. At(t, (p + d) + 1) = At(s, p + 1) BY <2>2 DEF Agree
  <2>4. NumAt(t, (p + d) + 1) = NumAt(s, p + 1) BY <2>3 DEF NumAt
  <2> QED BY <1>3, <1>6, <2>4 DEF NextField, Moved
<1> QED BY <1>4, <1>5, <1>6

\* What is inside a value is the same there.
LEMMA InnerMoved ==
  ASSUME NEW s, IsBlob(s), NEW t, IsBlob(t), NEW o \in Nat, NEW L \in Nat, NEW d \in Nat,
         Agree(s, t, o, L, d), NEW p \in Nat, p >= o, NEW type \in Types,
         Inside(s, p, type) <= L
  PROVE  /\ Inside(t, p + d, type) = Inside(s, p, type) + d
         /\ Inner(t, p + d, type) = Inner(s, p, type)
<1>1. CASE type = "struct"
  <2>1. NextField(s, p, 0).value <= L BY <1>1 DEF Inside
  <2>2. NextField(t, p + d, 0) = Moved(NextField(s, p, 0), d) BY <2>1, FieldMoved
  <2>3. /\ NextField(t, p + d, 0).type = NextField(s, p, 0).type
        /\ NextField(t, p + d, 0).value = NextField(s, p, 0).value + d
    BY <2>2 DEF Moved
  <2> QED BY <1>1, <2>3 DEF Inside, Inner
<1>2. CASE type # "struct"
  <2>1. p \in o .. L - 1 BY <1>2 DEF Inside
  <2>2. At(t, p + d) = At(s, p) BY <2>1 DEF Agree
  <2>3. ElemAt(t, p + d) = ElemAt(s, p) /\ SizeAt(t, p + d) = SizeAt(s, p)
    BY <2>2 DEF ElemAt, SizeAt
  <2> QED BY <1>2, <2>3 DEF Inside, Inner
<1> QED BY <1>1, <1>2

\* Calls end at the moved place.
LEMMA EndsMoved ==
  ASSUME NEW s, IsBlob(s), NEW t, IsBlob(t), NEW o \in Nat, NEW L \in Nat, NEW d \in Nat,
         Agree(s, t, o, L, d)
  PROVE  \A c \in Calls : c.at >= o /\ Ends(s)[c] <= L =>
           Ends(t)[[at |-> c.at + d, todo |-> c.todo]] = Ends(s)[c] + d
<1> DEFINE S == {c \in Calls : c.at >= o /\ Ends(s)[c] <= L =>
                   Ends(t)[[at |-> c.at + d, todo |-> c.todo]] = Ends(s)[c] + d}
<1>0. Len(s) \in Nat /\ Len(t) \in Nat /\ L <= Len(s) /\ L + d <= Len(t) BY DEF Agree, IsBlob
<1>1. ASSUME NEW c \in Calls, Halted(s, c) \/ SkipStep(s, c) \in S PROVE c \in S
  <2> SUFFICES ASSUME c.at >= o, Ends(s)[c] <= L
               PROVE  Ends(t)[[at |-> c.at + d, todo |-> c.todo]] = Ends(s)[c] + d
    OBVIOUS
  <2>1. c.at \in Nat /\ c.todo \in Seq(Todo) BY CallIs
  <2> DEFINE e == [at |-> c.at + d, todo |-> c.todo]
  <2>2. e \in Calls /\ e.at = c.at + d /\ e.todo = c.todo BY <2>1, CallIs
  <2>3. CASE c.todo = <<>>
    <3>1. Ends(s)[c] = c.at BY <2>3, EndsUnfold DEF Halted
    <3>2. Ends(t)[e] = e.at
      <4> HIDE DEF e
      <4> QED BY <2>2, <2>3, EndsUnfold DEF Halted
    <3> QED BY <2>2, <3>1, <3>2
  <2>4. CASE c.todo # <<>>
    <3>1. Ends(s)[c] \in Nat /\ (Ends(s)[c] > c.at \/ c.at > Len(s)) /\ Ends(s)[c] >= c.at
      BY <2>4, EndsForward
    <3>2. c.at < L BY <1>0, <2>1, <3>1
    <3>3. ~Halted(s, c) BY <1>0, <2>1, <2>4, <3>2 DEF Halted
    <3>4. ~Halted(t, e)
      <4>1. ~(e.at > Len(t)) BY <1>0, <2>1, <3>2
      <4> HIDE DEF e
      <4> QED BY <2>2, <2>4, <4>1 DEF Halted
    <3>5. Ends(s)[c] = Ends(s)[SkipStep(s, c)] BY <3>3, EndsUnfold
    <3>6. Ends(t)[e] = Ends(t)[SkipStep(t, e)]
      <4> HIDE DEF e
      <4> QED BY <2>2, <3>4, EndsUnfold
    <3>7. SkipStep(s, c) \in Calls /\ SkipStep(s, c).at > c.at BY <2>4, StepForward
    <3>8. SkipStep(s, c).at \in Nat /\ Ends(s)[SkipStep(s, c)] >= SkipStep(s, c).at
      BY <3>7, CallIs, EndsForward
    <3>9. SkipStep(s, c).at <= L /\ SkipStep(s, c).at >= o BY <2>1, <3>1, <3>5, <3>7, <3>8
    <3> DEFINE type == Head(c.todo).type
    <3>10. type \in Types BY <2>4, StepParts
    <3>11. SkipStep(s, c).at = Inside(s, c.at, type) BY DEF SkipStep
    <3>12. /\ Inside(t, c.at + d, type) = Inside(s, c.at, type) + d
           /\ Inner(t, c.at + d, type) = Inner(s, c.at, type)
      <4> HIDE DEF type
      <4>1. PICK p \in Nat, x \in Types : p = c.at /\ x = type BY <2>1, <3>10
      <4>2. p >= o /\ Inside(s, p, x) <= L BY <2>1, <3>9, <3>11, <4>1
      <4>3. Inside(t, p + d, x) = Inside(s, p, x) + d /\ Inner(t, p + d, x) = Inner(s, p, x)
        BY <4>2, InnerMoved
      <4> QED BY <4>1, <4>3
    <3>13. SkipStep(t, e) = [at |-> SkipStep(s, c).at + d, todo |-> SkipStep(s, c).todo]
      BY <3>12 DEF SkipStep
    <3>14. SkipStep(s, c) \in S BY <1>1, <3>3
    <3>15. Ends(t)[[at |-> SkipStep(s, c).at + d, todo |-> SkipStep(s, c).todo]]
             = Ends(s)[SkipStep(s, c)] + d
      BY <3>5, <3>9, <3>14
    <3> QED BY <3>5, <3>6, <3>13, <3>15
  <2> QED BY <2>3, <2>4
<1> HIDE DEF S
<1>2. Calls \subseteq S BY <1>1, AlongCalls
<1> QED BY <1>2 DEF S

\* And so does Skip.
LEMMA SkipMoved ==
  ASSUME NEW s, IsBlob(s), NEW t, IsBlob(t), NEW o \in Nat, NEW L \in Nat, NEW d \in Nat,
         Agree(s, t, o, L, d), NEW p \in Nat, p >= o, NEW type \in Types, Skip(s, p, type) <= L
  PROVE  Skip(t, p + d, type) = Skip(s, p, type) + d
<1> DEFINE c == [at |-> p, todo |-> Values(type, 1)]
<1>1. Values(type, 1) \in Seq(Todo) BY ValuesTyped
<1>2. c \in Calls /\ c.at = p /\ c.todo = Values(type, 1) BY <1>1, CallIs
<1>3. Skip(s, p, type) = Ends(s)[c] /\ Skip(t, p + d, type) = Ends(t)[[at |-> c.at + d, todo |-> c.todo]]
  BY DEF Skip
<1> HIDE DEF c
<1> QED BY <1>2, <1>3, EndsMoved

-----------------------------------------------------------------------------
(* Structs and lists.                                                      *)

\* A value is its first tokens and what is inside it.
LEMMA ValueUnfolds ==
  ASSUME NEW s, IsBlob(s), NEW o \in Nat, o <= Len(s), NEW type \in Types, type # "bool",
         NEW n \in Nat, n >= 1
  PROVE  Ends(s)[[at |-> o, todo |-> Values(type, n)]] =
           Ends(s)[[at |-> Ends(s)[[at |-> Inside(s, o, type), todo |-> Inner(s, o, type)]],
                    todo |-> Values(type, n - 1)]]
<1> DEFINE c == [at |-> o, todo |-> Values(type, n)]
           I == Inner(s, o, type)
           V == Values(type, n - 1)
           p == Inside(s, o, type)
<1>1. V \in Seq(Todo) /\ Values(type, n) \in Seq(Todo)
  <2>1. n \in Int /\ n - 1 \in Int OBVIOUS
  <2> QED BY <2>1, ValuesTyped
<1>2. c \in Calls /\ c.at = o /\ c.todo = Values(type, n) BY <1>1, CallIs
<1>3. c.todo = <<[type |-> type, n |-> n]>> BY DEF Values
<1>4. Head(c.todo).type = type /\ Head(c.todo).n = n /\ Tail(c.todo) = <<>> /\ c.todo # <<>>
  <2> HIDE DEF c
  <2> QED BY <1>3
<1>5. I \in Seq(Todo) /\ p \in Nat BY InnerTyped
<1>6. SkipStep(s, c) = [at |-> p, todo |-> I \o (V \o <<>>)] BY <1>4 DEF SkipStep
<1>7. V \o <<>> = V BY <1>1, ConcatEmptySeq
<1>8. ~Halted(s, c)
  <2>1. Len(s) \in Nat /\ ~(c.at > Len(s)) BY DEF IsBlob
  <2> HIDE DEF c
  <2> QED BY <1>4, <2>1 DEF Halted
<1>9. Ends(s)[c] = Ends(s)[SkipStep(s, c)]
  <2> HIDE DEF c
  <2> QED BY <1>2, <1>8, EndsUnfold
<1> HIDE DEF c, I, V, p
<1>10. Ends(s)[[at |-> p, todo |-> I \o V]] = Ends(s)[[at |-> Ends(s)[[at |-> p, todo |-> I]], todo |-> V]]
  <2>1. EndOf(s, p, I \o V) = EndOf(s, EndOf(s, p, I), V) BY <1>1, <1>5, EndsAppend
  <2> QED BY <2>1 DEF EndOf
<1>11. Ends(s)[c] = Ends(s)[[at |-> Ends(s)[[at |-> p, todo |-> I]], todo |-> V]]
  BY <1>6, <1>7, <1>9, <1>10
<1> QED BY <1>11 DEF c, I, V, p

\* Skip at a value goes on behind its first tokens.
LEMMA SkipUnfolds ==
  ASSUME NEW s, IsBlob(s), NEW o \in Nat, o <= Len(s), NEW type \in Types, type # "bool"
  PROVE  Skip(s, o, type) = Ends(s)[[at |-> Inside(s, o, type), todo |-> Inner(s, o, type)]]
<1> DEFINE e == Ends(s)[[at |-> Inside(s, o, type), todo |-> Inner(s, o, type)]]
<1>1. Skip(s, o, type) = Ends(s)[[at |-> e, todo |-> Values(type, 1 - 1)]]
  <2>1. 1 \in Nat /\ 1 >= 1 OBVIOUS
  <2> QED BY <2>1, ValueUnfolds DEF Skip
<1>2. Values(type, 1 - 1) = <<>> BY DEF Values
<1>3. e \in Nat
  <2>1. [at |-> Inside(s, o, type), todo |-> Inner(s, o, type)] \in Calls BY InnerTyped, CallIs
  <2> QED BY <2>1, EndsForward
<1>4. [at |-> e, todo |-> <<>>] \in Calls
  <2> HIDE DEF e
  <2> QED BY <1>3, EmptySeq, CallIs
<1> HIDE DEF e
<1>5. Ends(s)[[at |-> e, todo |-> <<>>]] = e BY <1>4, EndsUnfold DEF Halted
<1> QED BY <1>1, <1>2, <1>5 DEF e

\* Behind the blob nothing is skipped.
LEMMA BehindEnd ==
  ASSUME NEW s, IsBlob(s), NEW o \in Nat, o > Len(s), NEW type \in Types, NEW n \in Int
  PROVE  Ends(s)[[at |-> o, todo |-> Values(type, n)]] = o
<1>1. [at |-> o, todo |-> Values(type, n)] \in Calls BY ValuesTyped, CallIs
<1> QED BY <1>1, EndsUnfold DEF Halted

\* A struct is a field and the rest of the struct, or its STOP.
LEMMA StructUnfolds ==
  ASSUME NEW s, IsBlob(s), NEW o \in Nat, o <= Len(s), NEW last \in Int
  PROVE  LET f == NextField(s, o, last) IN
         Skip(s, o, "struct") = IF f.type = "stop" THEN o + 1
                                ELSE Skip(s, Skip(s, f.value, f.type), "struct")
<1> DEFINE f == NextField(s, o, 0)
           g == NextField(s, o, last)
<1>0. "struct" \in Types /\ "struct" # "bool" /\ 1 \in Int BY DEF Types
<1>1. g.type = f.type /\ g.value = f.value BY NextFieldRead
<1>2. f \in FieldRecords /\ (f.type = "stop" => f.value = o + 1) /\ f.value \in {o + 1, o + 2}
  BY NextFieldRead
<1>3. f.type \in Types /\ f.value \in Nat BY <1>2 DEF FieldRecords
<1>4. Skip(s, o, "struct") = Ends(s)[[at |-> f.value, todo |-> Inner(s, o, "struct")]]
  <2>1. Inside(s, o, "struct") = f.value BY DEF Inside
  <2> QED BY <1>0, <2>1, SkipUnfolds
<1>5. Inner(s, o, "struct") = IF f.type = "stop" THEN <<>> ELSE Values(f.type, 1) \o Values("struct", 1)
  BY DEF Inner
<1> HIDE DEF f
<1>6. CASE f.type = "stop"
  <2>1. [at |-> f.value, todo |-> <<>>] \in Calls BY <1>3, EmptySeq, CallIs
  <2>2. Ends(s)[[at |-> f.value, todo |-> <<>>]] = f.value BY <2>1, EndsUnfold DEF Halted
  <2> QED BY <1>1, <1>2, <1>4, <1>5, <1>6, <2>2
<1>7. CASE f.type # "stop"
  <2>1. Values(f.type, 1) \in Seq(Todo) /\ Values("struct", 1) \in Seq(Todo)
    BY <1>0, <1>3, ValuesTyped
  <2>2. Ends(s)[[at |-> f.value, todo |-> Values(f.type, 1) \o Values("struct", 1)]]
          = Ends(s)[[at |-> Ends(s)[[at |-> f.value, todo |-> Values(f.type, 1)]], todo |-> Values("struct", 1)]]
    <3>1. EndOf(s, f.value, Values(f.type, 1) \o Values("struct", 1))
            = EndOf(s, EndOf(s, f.value, Values(f.type, 1)), Values("struct", 1))
      BY <1>3, <2>1, EndsAppend
    <3> QED BY <3>1 DEF EndOf
  <2>3. Skip(s, Skip(s, f.value, f.type), "struct")
          = Ends(s)[[at |-> Ends(s)[[at |-> f.value, todo |-> Values(f.type, 1)]], todo |-> Values("struct", 1)]]
    BY DEF Skip
  <2> QED BY <1>1, <1>4, <1>5, <1>7, <2>2, <2>3
<1> QED BY <1>6, <1>7

\* What a cursor that walks a struct meets: where it is before its j-th field, the
\* id it last saw, and its fields up to the STOP.
Place(s, o, F, j) == IF j = 1 THEN o ELSE Skip(s, F[j - 1].value, F[j - 1].type)
IdBefore(F, j) == IF j = 1 THEN 0 ELSE F[j - 1].id
IsFields(s, o, F, n) ==
  /\ n \in Nat /\ F \in [1 .. n -> FieldRecords]
  /\ \A j \in 1 .. n : F[j].type # "stop" /\ F[j] = NextField(s, Place(s, o, F, j), IdBefore(F, j))
  /\ NextField(s, Place(s, o, F, n + 1), IdBefore(F, n + 1)).type = "stop"

\* The same from within a struct, where the id last seen is last.
IdFrom(last, F, j) == IF j = 1 THEN last ELSE F[j - 1].id
IsFieldsFrom(s, o, last, F, n) ==
  /\ n \in Nat /\ F \in [1 .. n -> FieldRecords]
  /\ \A j \in 1 .. n : F[j].type # "stop" /\ F[j] = NextField(s, Place(s, o, F, j), IdFrom(last, F, j))
  /\ NextField(s, Place(s, o, F, n + 1), IdFrom(last, F, n + 1)).type = "stop"

LEMMA FromTheStart ==
  ASSUME NEW s, NEW o, NEW F, NEW n
  PROVE  IsFields(s, o, F, n) <=> IsFieldsFrom(s, o, 0, F, n)
BY DEF IsFields, IsFieldsFrom, IdBefore, IdFrom

\* There is one walk from a place.
LEMMA WalksAgree ==
  ASSUME NEW s, IsBlob(s), NEW o, NEW last,
         NEW F, NEW n, IsFieldsFrom(s, o, last, F, n), NEW G, NEW m, IsFieldsFrom(s, o, last, G, m)
  PROVE  F = G /\ n = m
<1> DEFINE differ == {j \in Nat : j \in 1 .. n /\ j \in 1 .. m /\ F[j] # G[j]}
<1>0. n \in Nat /\ m \in Nat BY DEF IsFieldsFrom
<1>1. differ = {}
  <2> SUFFICES ASSUME differ # {} PROVE FALSE OBVIOUS
  <2>1. PICK j \in differ : \A l \in differ : j <= l
    <3>1. differ \subseteq Nat OBVIOUS
    <3> HIDE DEF differ
    <3> QED BY <3>1, LeastNatural
  <2>2. F[j] = NextField(s, Place(s, o, F, j), IdFrom(last, F, j)) /\ G[j] = NextField(s, Place(s, o, G, j), IdFrom(last, G, j))
    BY <2>1 DEF IsFieldsFrom
  <2>3. CASE j = 1 BY <2>1, <2>2, <2>3 DEF Place, IdFrom
  <2>4. CASE j # 1
    <3>1. j - 1 \in Nat /\ j - 1 \in 1 .. n /\ j - 1 \in 1 .. m /\ ~(j <= j - 1) BY <1>0, <2>1, <2>4
    <3>2. F[j - 1] = G[j - 1] BY <2>1, <3>1
    <3> QED BY <2>1, <2>2, <2>4, <3>2 DEF Place, IdFrom
  <2> QED BY <2>3, <2>4
<1>2. ASSUME NEW X, NEW x, IsFieldsFrom(s, o, last, X, x), NEW Y, NEW y, IsFieldsFrom(s, o, last, Y, y),
             \A j \in Nat : j \in 1 .. x /\ j \in 1 .. y => X[j] = Y[j], x < y
      PROVE  FALSE
  <2>1. x \in Nat /\ y \in Nat /\ x + 1 \in 1 .. y BY <1>2 DEF IsFieldsFrom
  <2>2. Y[x + 1].type # "stop" /\ Y[x + 1] = NextField(s, Place(s, o, Y, x + 1), IdFrom(last, Y, x + 1))
    BY <1>2, <2>1 DEF IsFieldsFrom
  <2>3. NextField(s, Place(s, o, X, x + 1), IdFrom(last, X, x + 1)).type = "stop" BY <1>2 DEF IsFieldsFrom
  <2>4. Place(s, o, X, x + 1) = Place(s, o, Y, x + 1) /\ IdFrom(last, X, x + 1) = IdFrom(last, Y, x + 1)
    <3>1. CASE x = 0 BY <3>1 DEF Place, IdFrom
    <3>2. CASE x # 0
      <4>1. x \in 1 .. x /\ x \in 1 .. y /\ (x + 1) - 1 = x /\ x + 1 # 1 BY <2>1, <3>2
      <4>2. X[x] = Y[x] BY <1>2, <2>1, <4>1
      <4> QED BY <4>1, <4>2 DEF Place, IdFrom
    <3> QED BY <3>1, <3>2
  <2> QED BY <2>2, <2>3, <2>4
<1>3. n = m
  <2>1. \A j \in Nat : j \in 1 .. n /\ j \in 1 .. m => F[j] = G[j] BY <1>1
  <2>2. ~(n < m) BY <1>2, <2>1
  <2>3. ~(m < n) BY <1>2, <2>1
  <2> QED BY <1>0, <2>2, <2>3
<1>4. \A j \in 1 .. n : F[j] = G[j] BY <1>0, <1>1, <1>3
<1>5. F \in [1 .. n -> FieldRecords] /\ G \in [1 .. n -> FieldRecords] BY <1>3 DEF IsFieldsFrom
<1>6. F = [j \in 1 .. n |-> F[j]] /\ G = [j \in 1 .. n |-> G[j]] BY <1>5
<1> QED BY <1>3, <1>4, <1>6

LEMMA FieldsUnique ==
  ASSUME NEW s, IsBlob(s), NEW o, NEW F, NEW n, IsFields(s, o, F, n), NEW G, NEW m, IsFields(s, o, G, m)
  PROVE  F = G /\ n = m
<1>1. IsFieldsFrom(s, o, 0, F, n) /\ IsFieldsFrom(s, o, 0, G, m) BY FromTheStart
<1> QED BY <1>1, WalksAgree

\* A field and the walk behind it are a walk.
LEMMA FieldBefore ==
  ASSUME NEW s, IsBlob(s), NEW o \in Nat, NEW last \in Int, NEW f, f = NextField(s, o, last), f.type # "stop",
         NEW F, NEW n, IsFieldsFrom(s, Skip(s, f.value, f.type), f.id, F, n), Len(F) = n
  PROVE  IsFieldsFrom(s, o, last, <<f>> \o F, n + 1) /\ Len(<<f>> \o F) = n + 1
<1> DEFINE p == Skip(s, f.value, f.type)
           G == <<f>> \o F
<1>1. n \in Nat /\ F \in [1 .. n -> FieldRecords] /\ f \in FieldRecords BY NextFieldRead DEF IsFieldsFrom
<1>2. F \in Seq(FieldRecords) BY <1>1, SeqDef
<1>3. <<f>> \in Seq(FieldRecords) /\ Len(<<f>>) = 1 /\ <<f>>[1] = f BY <1>1
<1>4. /\ G \in Seq(FieldRecords) /\ Len(G) = 1 + n
      /\ \A j \in 1 .. 1 + n : G[j] = IF j <= 1 THEN <<f>>[j] ELSE F[j - 1]
  BY <1>2, <1>3, ConcatProperties
<1> HIDE DEF G
<1>5. G[1] = f /\ \A j \in 1 .. n : G[j + 1] = F[j]
  <2>1. 1 \in 1 .. 1 + n BY <1>1
  <2>2. \A j \in 1 .. n : j + 1 \in 1 .. 1 + n /\ ~(j + 1 <= 1) /\ (j + 1) - 1 = j BY <1>1
  <2> QED BY <1>3, <1>4, <2>1, <2>2
<1>6. G \in [1 .. n + 1 -> FieldRecords] /\ Len(G) = n + 1
  <2>1. n + 1 = 1 + n BY <1>1
  <2> QED BY <1>4, <2>1, LenProperties
<1>7. ASSUME NEW j \in 1 .. n + 1
      PROVE  Place(s, o, G, j + 1) = Place(s, p, F, j) /\ IdFrom(last, G, j + 1) = IdFrom(f.id, F, j)
  <2>1. j + 1 # 1 /\ (j + 1) - 1 = j BY <1>1
  <2>2. CASE j = 1 BY <1>5, <2>1, <2>2 DEF Place, IdFrom
  <2>3. CASE j # 1
    <3>1. j - 1 \in 1 .. n /\ (j - 1) + 1 = j BY <1>1, <2>3
    <3>2. G[j] = F[j - 1] BY <1>5, <3>1
    <3> QED BY <2>1, <2>3, <3>2 DEF Place, IdFrom
  <2> QED BY <2>2, <2>3
<1>8. ASSUME NEW j \in 1 .. n + 1
      PROVE  G[j].type # "stop" /\ G[j] = NextField(s, Place(s, o, G, j), IdFrom(last, G, j))
  <2>1. CASE j = 1 BY <1>5, <2>1 DEF Place, IdFrom
  <2>2. CASE j # 1
    <3> DEFINE l == j - 1
    <3>1. l \in 1 .. n /\ l \in 1 .. n + 1 /\ l + 1 = j BY <1>1, <2>2
    <3> HIDE DEF l
    <3>2. F[l].type # "stop" /\ F[l] = NextField(s, Place(s, p, F, l), IdFrom(f.id, F, l))
      BY <3>1 DEF IsFieldsFrom
    <3>3. G[l + 1] = F[l] BY <1>5, <3>1
    <3>4. Place(s, o, G, l + 1) = Place(s, p, F, l) /\ IdFrom(last, G, l + 1) = IdFrom(f.id, F, l)
      BY <1>7, <3>1
    <3> QED BY <3>1, <3>2, <3>3, <3>4
  <2> QED BY <2>1, <2>2
<1>9. NextField(s, Place(s, o, G, (n + 1) + 1), IdFrom(last, G, (n + 1) + 1)).type = "stop"
  <2>1. n + 1 \in 1 .. n + 1 BY <1>1
  <2>2. Place(s, o, G, (n + 1) + 1) = Place(s, p, F, n + 1) /\ IdFrom(last, G, (n + 1) + 1) = IdFrom(f.id, F, n + 1)
    BY <1>7, <2>1
  <2>3. NextField(s, Place(s, p, F, n + 1), IdFrom(f.id, F, n + 1)).type = "stop" BY DEF IsFieldsFrom
  <2> QED BY <2>2, <2>3
<1>10. n + 1 \in Nat BY <1>1
<1>11. IsFieldsFrom(s, o, last, G, n + 1) BY <1>6, <1>8, <1>9, <1>10 DEF IsFieldsFrom
<1> QED BY <1>6, <1>11 DEF G

\* Fields finds them: the walk of a struct ends.
LEMMA FieldsExist ==
  ASSUME NEW s, IsBlob(s), NEW o \in Nat
  PROVE  \E n \in Nat : IsFields(s, o, Fields(s, o), n) /\ Len(Fields(s, o)) = n
<1> DEFINE D == [at : Nat, last : Int]
           Read(c) == NextField(s, c.at, c.last)
           Behind(c) == [at |-> Skip(s, Read(c).value, Read(c).type), last |-> Read(c).id]
           Body(c, x) == IF Read(c).type = "stop" THEN <<>> ELSE <<Read(c)>> \o x
           Good(c, F) == \E n \in Nat : IsFieldsFrom(s, c.at, c.last, F, n) /\ Len(F) = n
           Solves(g) == g = [c \in D |->
                               LET f == NextField(s, c.at, c.last) IN
                               IF f.type = "stop" THEN <<>>
                               ELSE <<f>> \o g[[at |-> Skip(s, f.value, f.type), last |-> f.id]]]
           from == CHOOSE g : Solves(g)
<1>1. ASSUME NEW c \in D
      PROVE  /\ c.at \in Nat /\ c.last \in Int
             /\ Read(c).type # "stop" => c.at < Len(s) /\ Behind(c) \in D /\ Behind(c).at > c.at
  <2>1. c.at \in Nat /\ c.last \in Int OBVIOUS
  <2>2. /\ Read(c) \in FieldRecords /\ Read(c).value \in {c.at + 1, c.at + 2}
        /\ Read(c).type # "stop" => c.at < Len(s)
    BY <2>1, NextFieldRead
  <2> HIDE DEF Read
  <2>3. Read(c).type \in Types /\ Read(c).value \in Nat /\ Read(c).id \in Int BY <2>2 DEF FieldRecords
  <2>4. Skip(s, Read(c).value, Read(c).type) \in Nat /\ Skip(s, Read(c).value, Read(c).type) >= Read(c).value
    BY <2>3, SkipForward
  <2> QED BY <2>1, <2>2, <2>3, <2>4
\* The cursor moves on, so what holds of a place if it holds of the next one holds of all.
<1>2. ASSUME NEW Q, \A c \in D : (Read(c).type # "stop" => Behind(c) \in Q) => c \in Q PROVE D \subseteq Q
  <2> HIDE DEF Read, Behind, D
  <2> DEFINE P == {m \in Nat : \A c \in D : c.at + m >= Len(s) => c \in Q}
  <2>1. Len(s) \in Nat BY DEF IsBlob
  <2>2. 0 \in P
    <3>1. \A c \in D : c.at + 0 >= Len(s) => Read(c).type = "stop" BY <1>1, <2>1
    <3> QED BY <1>2, <3>1
  <2>3. ASSUME NEW m \in Nat, m \in P PROVE m + 1 \in P
    <3>1. ASSUME NEW c \in D, c.at + (m + 1) >= Len(s) PROVE c \in Q
      <4>1. ASSUME Read(c).type # "stop" PROVE Behind(c) \in Q
        <5>1. c.at \in Nat /\ Behind(c) \in D /\ Behind(c).at > c.at BY <1>1, <4>1
        <5>2. Behind(c).at \in Nat BY <1>1, <5>1
        <5>3. Behind(c).at + m >= Len(s) BY <2>1, <3>1, <5>1, <5>2
        <5> QED BY <2>3, <5>1, <5>3
      <4> QED BY <1>2, <4>1
    <3> QED BY <3>1
  <2>4. Nat \subseteq P
    <3> HIDE DEF P
    <3> QED BY <2>2, <2>3, Induct
  <2>5. \A c \in D : c.at + Len(s) >= Len(s) BY <1>1, <2>1
  <2> QED BY <2>1, <2>4, <2>5
<1>3. ASSUME NEW c \in D, NEW F, Read(c).type # "stop" => Good(Behind(c), F) PROVE Good(c, Body(c, F))
  <2>1. CASE Read(c).type = "stop"
    <3>1. Body(c, F) = <<>> /\ Len(<<>>) = 0 /\ <<>> \in [1 .. 0 -> FieldRecords] BY <2>1
    <3>2. Place(s, c.at, <<>>, 1) = c.at /\ IdFrom(c.last, <<>>, 1) = c.last BY DEF Place, IdFrom
    <3>3. IsFieldsFrom(s, c.at, c.last, <<>>, 0) BY <2>1, <3>1, <3>2 DEF IsFieldsFrom
    <3> HIDE DEF Body
    <3> QED BY <3>1, <3>3
  <2>2. CASE Read(c).type # "stop"
    <3> DEFINE f == Read(c)
    <3>1. c.at \in Nat /\ c.last \in Int BY <1>1
    <3>2. Behind(c).at = Skip(s, f.value, f.type) /\ Behind(c).last = f.id OBVIOUS
    <3>3. PICK n \in Nat : IsFieldsFrom(s, Skip(s, f.value, f.type), f.id, F, n) /\ Len(F) = n
      <4> HIDE DEF Behind, Read
      <4> QED BY <1>3, <2>2, <3>2
    <3>4. f = NextField(s, c.at, c.last) OBVIOUS
    <3>5. Body(c, F) = <<f>> \o F BY <2>2
    <3> HIDE DEF f, Body
    <3>6. f.type # "stop" BY <2>2 DEF f
    <3>7. IsFieldsFrom(s, c.at, c.last, <<f>> \o F, n + 1) /\ Len(<<f>> \o F) = n + 1
      BY <3>1, <3>3, <3>4, <3>6, FieldBefore
    <3>8. n + 1 \in Nat OBVIOUS
    <3> QED BY <3>5, <3>7, <3>8
  <2> QED BY <2>1, <2>2
<1>4. ASSUME NEW c, NEW F, NEW G, Good(c, F), Good(c, G) PROVE F = G
  BY <1>4, WalksAgree
<1> DEFINE T == [c \in D |-> CHOOSE F : Good(c, F)]
<1>5. ASSUME NEW c \in D PROVE Good(c, T[c])
  <2> DEFINE Q == {d \in D : \E F : Good(d, F)}
  <2> HIDE DEF D, Good, Body, Read, Behind
  <2>1. \A d \in D : (Read(d).type # "stop" => Behind(d) \in Q) => d \in Q BY <1>3
  <2>2. D \subseteq Q
    <3> HIDE DEF Q
    <3> QED BY <1>2, <2>1
  <2>3. \E F : Good(c, F) BY <2>2
  <2> QED BY <2>3
<1>6. ASSUME NEW c \in D PROVE T[c] = Body(c, T[Behind(c)])
  <2> HIDE DEF T
  <2>1. Read(c).type # "stop" => Good(Behind(c), T[Behind(c)])
    <3> HIDE DEF Good, D, Behind, Read
    <3> QED BY <1>1, <1>5
  <2> HIDE DEF Good, D, Behind, Read, Body
  <2> QED BY <1>3, <1>4, <1>5, <2>1
<1>7. Solves(T)
  <2>1. T = [c \in D |-> T[c]]
    <3> HIDE DEF Good, D
    <3> QED OBVIOUS
  <2> HIDE DEF T
  <2>2. T = [c \in D |-> Body(c, T[Behind(c)])]
    <3> HIDE DEF Body, Behind, Read, D
    <3> QED BY <1>6, <2>1
  <2> QED BY <2>2
<1>8. Solves(from)
  <2> HIDE DEF Solves
  <2> QED BY <1>7, ZenonT(60)
<1>9. ASSUME NEW c \in D PROVE from[c] = Body(c, from[Behind(c)])
  <2> HIDE DEF from, D
  <2> QED BY <1>8
<1>10. Fields(s, o) = from[[at |-> o, last |-> 0]] BY DEF Fields
<1> HIDE DEF from
<1>11. ASSUME NEW c \in D PROVE Good(c, from[c])
  <2> DEFINE Q == {d \in D : Good(d, from[d])}
  <2> HIDE DEF D, Good, Body, Read, Behind
  <2>1. \A d \in D : (Read(d).type # "stop" => Behind(d) \in Q) => d \in Q BY <1>3, <1>9
  <2>2. D \subseteq Q
    <3> HIDE DEF Q
    <3> QED BY <1>2, <2>1
  <2> QED BY <2>2
<1>12. [at |-> o, last |-> 0] \in D OBVIOUS
<1>13. PICK n \in Nat : IsFieldsFrom(s, o, 0, Fields(s, o), n) /\ Len(Fields(s, o)) = n
  <2>1. [at |-> o, last |-> 0].at = o /\ [at |-> o, last |-> 0].last = 0 OBVIOUS
  <2> HIDE DEF D
  <2> QED BY <1>10, <1>11, <1>12, <2>1
<1> QED BY <1>13, FromTheStart

\* The walk goes forward.
LEMMA PlacesGrow ==
  ASSUME NEW s, IsBlob(s), NEW o \in Nat, NEW F, NEW n, IsFields(s, o, F, n)
  PROVE  /\ n \in Nat
         /\ \A j \in 1 .. n + 1 : Place(s, o, F, j) \in Nat /\ Place(s, o, F, j) >= o
         /\ \A j \in 1 .. n + 1 : IdBefore(F, j) \in Int
         /\ \A j \in 1 .. n :
              /\ F[j] \in FieldRecords /\ F[j].type \in Types \ {"stop"} /\ F[j].id \in Int
              /\ F[j].at = Place(s, o, F, j) /\ F[j].value \in {F[j].at + 1, F[j].at + 2}
              /\ F[j].value \in Nat /\ F[j].value <= Place(s, o, F, j + 1)
              /\ Place(s, o, F, j + 1) = Skip(s, F[j].value, F[j].type)
<1>1. n \in Nat BY DEF IsFields
<1>2. ASSUME NEW j \in 1 .. n
      PROVE  F[j] \in FieldRecords /\ F[j].type \in Types \ {"stop"} /\ F[j].value \in Nat /\ F[j].id \in Int
  <2>1. F[j] \in FieldRecords /\ F[j].type # "stop" BY DEF IsFields
  <2> QED BY <2>1 DEF FieldRecords
<1>3. ASSUME NEW j \in 1 .. n
      PROVE  /\ Place(s, o, F, j + 1) = Skip(s, F[j].value, F[j].type)
             /\ Place(s, o, F, j + 1) \in Nat /\ F[j].value <= Place(s, o, F, j + 1)
  <2>1. Skip(s, F[j].value, F[j].type) \in Nat /\ Skip(s, F[j].value, F[j].type) >= F[j].value
    BY <1>2, SkipForward
  <2>2. j + 1 # 1 /\ (j + 1) - 1 = j OBVIOUS
  <2>3. Place(s, o, F, j + 1) = Skip(s, F[j].value, F[j].type) BY <2>2 DEF Place
  <2> QED BY <1>2, <2>1, <2>3
<1>4. ASSUME NEW j \in 1 .. n + 1 PROVE Place(s, o, F, j) \in Nat /\ IdBefore(F, j) \in Int
  <2>1. CASE j = 1 BY <2>1 DEF Place, IdBefore
  <2>2. CASE j # 1
    <3>1. j - 1 \in 1 .. n /\ (j - 1) + 1 = j BY <1>1, <2>2
    <3>2. Place(s, o, F, (j - 1) + 1) \in Nat BY <1>3, <3>1
    <3>3. F[j - 1].id \in Int BY <1>2, <3>1
    <3> QED BY <2>2, <3>1, <3>2, <3>3 DEF IdBefore
  <2> QED BY <2>1, <2>2
<1>5. ASSUME NEW j \in 1 .. n
      PROVE  F[j].at = Place(s, o, F, j) /\ F[j].value \in {F[j].at + 1, F[j].at + 2}
  <2>1. F[j] = NextField(s, Place(s, o, F, j), IdBefore(F, j)) BY DEF IsFields
  <2>2. j \in 1 .. n + 1 BY <1>1
  <2>3. Place(s, o, F, j) \in Nat /\ IdBefore(F, j) \in Int BY <1>4, <2>2
  <2> QED BY <2>1, <2>3, NextFieldRead
<1>6. \A j \in 1 .. n + 1 : Place(s, o, F, j) >= o
  <2> DEFINE P == {m \in Nat : m + 1 \in 1 .. n + 1 => Place(s, o, F, m + 1) >= o}
  <2>1. 0 \in P BY DEF Place
  <2>2. ASSUME NEW m \in Nat, m \in P PROVE m + 1 \in P
    <3> SUFFICES ASSUME (m + 1) + 1 \in 1 .. n + 1 PROVE Place(s, o, F, (m + 1) + 1) >= o
      OBVIOUS
    <3>1. m + 1 \in 1 .. n /\ m + 1 \in 1 .. n + 1 BY <1>1
    <3>2. Place(s, o, F, m + 1) >= o BY <2>2, <3>1
    <3>3. /\ F[m + 1].at = Place(s, o, F, m + 1) /\ F[m + 1].value \in {F[m + 1].at + 1, F[m + 1].at + 2}
          /\ F[m + 1].value <= Place(s, o, F, (m + 1) + 1) /\ Place(s, o, F, (m + 1) + 1) \in Nat
          /\ Place(s, o, F, m + 1) \in Nat
      BY <1>3, <1>4, <1>5, <3>1
    <3> QED BY <3>2, <3>3
  <2>3. Nat \subseteq P
    <3> HIDE DEF P
    <3> QED BY <2>1, <2>2, Induct
  <2>4. ASSUME NEW j \in 1 .. n + 1 PROVE Place(s, o, F, j) >= o
    <3>1. j - 1 \in Nat /\ (j - 1) + 1 = j BY <1>1
    <3>2. j - 1 \in P
      <4> HIDE DEF P
      <4> QED BY <2>3, <3>1
    <3> QED BY <3>1, <3>2
  <2> QED BY <2>4
<1> QED BY <1>1, <1>2, <1>3, <1>4, <1>5, <1>6

\* A field lies behind the header of every field before it.
LEMMA FieldsApart ==
  ASSUME NEW s, IsBlob(s), NEW o \in Nat, NEW F, NEW n, IsFields(s, o, F, n),
         NEW j \in 1 .. n, NEW l \in 1 .. n + 1, j < l
  PROVE  F[j].value <= Place(s, o, F, l)
<1>1. n \in Nat BY PlacesGrow
<1> DEFINE P == {m \in Nat : j + 1 + m \in 1 .. n + 1 => F[j].value <= Place(s, o, F, j + 1 + m)}
<1>2. 0 \in P
  <2>1. F[j].value <= Place(s, o, F, j + 1) BY PlacesGrow
  <2> QED BY <2>1
<1>3. ASSUME NEW m \in Nat, m \in P PROVE m + 1 \in P
  <2> SUFFICES ASSUME j + 1 + (m + 1) \in 1 .. n + 1 PROVE F[j].value <= Place(s, o, F, j + 1 + (m + 1))
    OBVIOUS
  <2> DEFINE i == j + 1 + m
  <2>1. i \in 1 .. n /\ i \in 1 .. n + 1 /\ i + 1 = j + 1 + (m + 1) /\ i + 1 \in 1 .. n + 1 BY <1>1
  <2>2. F[j].value <= Place(s, o, F, i) BY <1>3, <2>1
  <2> HIDE DEF i
  <2>3. /\ F[i].at = Place(s, o, F, i) /\ F[i].value \in {F[i].at + 1, F[i].at + 2}
        /\ F[i].value <= Place(s, o, F, i + 1) /\ Place(s, o, F, i + 1) \in Nat
        /\ Place(s, o, F, i) \in Nat /\ F[j].value \in Nat
    BY <2>1, PlacesGrow
  <2>4. F[j].value <= Place(s, o, F, i + 1) BY <2>2, <2>3
  <2> QED BY <2>1, <2>4
<1>4. l - (j + 1) \in Nat /\ j + 1 + (l - (j + 1)) = l BY <1>1
<1>5. l - (j + 1) \in P
  <2> HIDE DEF P
  <2> QED BY <1>2, <1>3, <1>4, Induct
<1> QED BY <1>4, <1>5

\* A struct that ends inside the blob ends behind all its fields and its STOP.
LEMMA StructEnds ==
  ASSUME NEW s, IsBlob(s), NEW o \in Nat, NEW F, NEW n, IsFields(s, o, F, n),
         Skip(s, o, "struct") <= Len(s)
  PROVE  /\ \A j \in 1 .. n + 1 : /\ Skip(s, Place(s, o, F, j), "struct") = Skip(s, o, "struct")
                                   /\ Place(s, o, F, j) < Skip(s, o, "struct")
         /\ Skip(s, o, "struct") = Place(s, o, F, n + 1) + 1
<1> DEFINE E == Skip(s, o, "struct")
           P == {m \in Nat : m + 1 \in 1 .. n + 1 => Skip(s, Place(s, o, F, m + 1), "struct") = E}
<1>0. n \in Nat /\ Len(s) \in Nat /\ "struct" \in Types /\ "struct" # "bool"
  BY PlacesGrow DEF IsBlob, Types
<1>1. E \in Nat BY <1>0, SkipForward
<1>2. ASSUME NEW p \in Nat, Skip(s, p, "struct") = E PROVE p < E /\ p <= Len(s)
  <2>1. E >= p /\ (E > p \/ p > Len(s)) BY <1>0, <1>2, SkipForward
  <2> QED BY <1>0, <1>1, <2>1
<1> HIDE DEF E
<1>3. 0 \in P BY DEF Place, E
<1>4. ASSUME NEW m \in Nat, m \in P PROVE m + 1 \in P
  <2> SUFFICES ASSUME (m + 1) + 1 \in 1 .. n + 1 PROVE Skip(s, Place(s, o, F, (m + 1) + 1), "struct") = E
    OBVIOUS
  <2> DEFINE j == m + 1
             p == Place(s, o, F, j)
  <2>1. j \in 1 .. n /\ j \in 1 .. n + 1 BY <1>0
  <2>2. Skip(s, p, "struct") = E BY <1>4, <2>1
  <2>3. p \in Nat /\ IdBefore(F, j) \in Int /\ Place(s, o, F, j + 1) = Skip(s, F[j].value, F[j].type)
    BY <2>1, PlacesGrow
  <2>4. F[j].type # "stop" /\ F[j] = NextField(s, p, IdBefore(F, j)) BY <2>1 DEF IsFields
  <2> HIDE DEF p, j
  <2>5. p <= Len(s) BY <1>2, <2>2, <2>3
  <2>6. Skip(s, p, "struct") = Skip(s, Skip(s, F[j].value, F[j].type), "struct")
    BY <2>3, <2>4, <2>5, StructUnfolds
  <2> QED BY <2>2, <2>3, <2>6 DEF j
<1>5. Nat \subseteq P
  <2> HIDE DEF P
  <2> QED BY <1>3, <1>4, Induct
<1>6. ASSUME NEW j \in 1 .. n + 1 PROVE Skip(s, Place(s, o, F, j), "struct") = E /\ Place(s, o, F, j) < E
  <2>1. j - 1 \in Nat /\ (j - 1) + 1 = j BY <1>0
  <2>2. j - 1 \in P
    <3> HIDE DEF P
    <3> QED BY <1>5, <2>1
  <2>3. Skip(s, Place(s, o, F, j), "struct") = E BY <2>1, <2>2
  <2> QED BY <1>2, <2>3, PlacesGrow
<1>7. E = Place(s, o, F, n + 1) + 1
  <2>1. n + 1 \in 1 .. n + 1 BY <1>0
  <2> DEFINE p == Place(s, o, F, n + 1)
  <2>2. p \in Nat /\ IdBefore(F, n + 1) \in Int /\ Skip(s, p, "struct") = E BY <1>6, <2>1, PlacesGrow
  <2>3. NextField(s, p, IdBefore(F, n + 1)).type = "stop" BY DEF IsFields
  <2> HIDE DEF p
  <2>4. p <= Len(s) BY <1>2, <2>2
  <2>5. Skip(s, p, "struct") = p + 1 BY <2>2, <2>3, <2>4, StructUnfolds
  <2> QED BY <2>2, <2>5 DEF p
<1> QED BY <1>6, <1>7 DEF E

\* Where the items of a list start.
LEMMA StartsAre ==
  ASSUME NEW s, IsBlob(s), NEW o \in Nat
  PROVE  /\ SizeAt(s, o) \in Nat /\ ElemAt(s, o) \in Types
         /\ Starts(s, o) \in [1 .. SizeAt(s, o) + 1 -> Nat]
         /\ Starts(s, o)[1] = o + 1
         /\ \A j \in 1 .. SizeAt(s, o) :
              Starts(s, o)[j + 1] = Skip(s, Starts(s, o)[j], ElemAt(s, o))
<1> DEFINE elem == ElemAt(s, o)
           size == SizeAt(s, o)
           H == [j \in Nat |-> [p \in Nat |-> Skip(s, p, elem)]]
           Solves(g) == g = [j \in Nat |-> IF j = 0 THEN o + 1 ELSE Skip(s, g[j - 1], elem)]
           h == CHOOSE g : Solves(g)
<1>1. size \in Nat /\ elem \in Types BY TokenRead
<1>2. Starts(s, o) = [j \in 1 .. size + 1 |-> h[j - 1]] BY DEF Starts
<1> HIDE DEF elem, size
<1>3. \A p \in Nat : Skip(s, p, elem) \in Nat BY <1>1, SkipForward
<1>4. PICK r : IsRecursion(r, Nat, o + 1, H)
  <2>1. H \in [Nat -> [Nat -> Nat]] BY <1>3
  <2>2. o + 1 \in Nat OBVIOUS
  <2> HIDE DEF H
  <2> QED BY <2>1, <2>2, RecursionExists
<1>5. Solves(r)
  <2>1. r \in [Nat -> Nat] /\ r[0] = o + 1 /\ \A n \in Nat : r[n + 1] = H[n][r[n]] BY <1>4 DEF IsRecursion
  <2>2. \A n \in Nat : r[n + 1] = Skip(s, r[n], elem) BY <2>1
  <2>3. ASSUME NEW j \in Nat, j # 0 PROVE r[j] = Skip(s, r[j - 1], elem)
    <3>1. j - 1 \in Nat /\ (j - 1) + 1 = j BY <2>3
    <3> QED BY <2>2, <3>1
  <2>4. r = [j \in Nat |-> r[j]] BY <2>1
  <2> HIDE DEF H
  <2> QED BY <2>1, <2>3, <2>4
<1>6. Solves(h)
  <2> HIDE DEF Solves
  <2> QED BY <1>5, Zenon
<1>7. h[0] = o + 1 /\ \A j \in Nat \ {0} : h[j] = Skip(s, h[j - 1], elem) BY <1>6
<1> HIDE DEF h
<1>8. Nat \subseteq {j \in Nat : h[j] \in Nat}
  <2> DEFINE P == {j \in Nat : h[j] \in Nat}
  <2>1. 0 \in P BY <1>7
  <2>2. ASSUME NEW j \in Nat, j \in P PROVE j + 1 \in P
    <3>1. j + 1 \in Nat \ {0} /\ (j + 1) - 1 = j OBVIOUS
    <3>2. h[j + 1] = Skip(s, h[j], elem) BY <1>7, <3>1
    <3> QED BY <1>3, <2>2, <3>1, <3>2
  <2> HIDE DEF P
  <2>3. Nat \subseteq P BY <2>1, <2>2, Induct
  <2> QED BY <2>3 DEF P
<1>9. Starts(s, o) \in [1 .. size + 1 -> Nat]
  <2>1. \A j \in 1 .. size + 1 : j - 1 \in Nat BY <1>1
  <2>2. \A j \in 1 .. size + 1 : h[j - 1] \in Nat BY <1>8, <2>1
  <2> QED BY <1>2, <2>2
<1>10. Starts(s, o)[1] = o + 1
  <2>1. 1 \in 1 .. size + 1 /\ 1 - 1 = 0 BY <1>1
  <2> QED BY <1>2, <1>7, <2>1
<1>11. ASSUME NEW j \in 1 .. size PROVE Starts(s, o)[j + 1] = Skip(s, Starts(s, o)[j], elem)
  <2>1. j \in 1 .. size + 1 /\ j + 1 \in 1 .. size + 1 /\ (j + 1) - 1 = j /\ j \in Nat \ {0} BY <1>1
  <2>2. h[j] = Skip(s, h[j - 1], elem) BY <1>7, <2>1
  <2>3. Starts(s, o)[j + 1] = h[j] /\ Starts(s, o)[j] = h[j - 1] BY <1>2, <2>1
  <2> QED BY <2>2, <2>3
<1> QED BY <1>1, <1>9, <1>10, <1>11 DEF elem, size

\* The last item of a list ends where the list ends.
LEMMA ListEnds ==
  ASSUME NEW s, IsBlob(s), NEW o \in Nat, o <= Len(s)
  PROVE  /\ Starts(s, o)[SizeAt(s, o) + 1] = Skip(s, o, "list")
         /\ \A j \in 1 .. SizeAt(s, o) + 1 : Starts(s, o)[j] <= Skip(s, o, "list") /\ Starts(s, o)[j] > o
<1> DEFINE elem == ElemAt(s, o)
           size == SizeAt(s, o)
           S == Starts(s, o)
           E == Skip(s, o, "list")
           P == {m \in Nat : m <= size => S[m + 1] > o /\ EndOf(s, S[m + 1], Values(elem, size - m)) = E}
<1>1. /\ size \in Nat /\ elem \in Types /\ S \in [1 .. size + 1 -> Nat] /\ S[1] = o + 1
      /\ \A j \in 1 .. size : S[j + 1] = Skip(s, S[j], elem)
  BY StartsAre
<1>2. EndOf(s, o + 1, Values(elem, size)) = E
  <2>1. "list" \in Types /\ "list" # "bool" BY DEF Types
  <2>2. Inside(s, o, "list") = o + 1 /\ Inner(s, o, "list") = Values(elem, size) BY DEF Inside, Inner
  <2> QED BY <2>1, <2>2, SkipUnfolds DEF EndOf
<1> HIDE DEF elem, size, S, E
<1>3. 0 \in P
  <2>1. size - 0 = size /\ 0 + 1 = 1 BY <1>1
  <2> QED BY <1>1, <1>2, <2>1
<1>4. ASSUME NEW m \in Nat, m \in P PROVE m + 1 \in P
  <2> SUFFICES ASSUME m + 1 <= size
               PROVE  S[(m + 1) + 1] > o /\ EndOf(s, S[(m + 1) + 1], Values(elem, size - (m + 1))) = E
    OBVIOUS
  <2>1. m + 1 \in 1 .. size /\ m + 1 \in 1 .. size + 1 /\ m <= size BY <1>1
  <2>2. S[m + 1] > o /\ EndOf(s, S[m + 1], Values(elem, size - m)) = E BY <1>4, <2>1
  <2>3. S[(m + 1) + 1] = Skip(s, S[m + 1], elem) /\ S[m + 1] \in Nat BY <1>1, <2>1
  <2>4. Skip(s, S[m + 1], elem) \in Nat /\ Skip(s, S[m + 1], elem) >= S[m + 1] BY <1>1, <2>3, SkipForward
  <2>5. size - m \in Nat /\ size - m >= 1 /\ size - (m + 1) = (size - m) - 1 BY <1>1
  <2>6. EndOf(s, S[m + 1], Values(elem, size - m)) = EndOf(s, Skip(s, S[m + 1], elem), Values(elem, (size - m) - 1))
    <3> DEFINE p == S[m + 1]
               n == size - m
    <3> HIDE DEF p, n
    <3>0. p \in Nat /\ n \in Nat /\ n >= 1 /\ n - 1 \in Int BY <2>3, <2>5 DEF p, n
    <3>1. CASE elem = "bool"
      <4>1. Skip(s, p, elem) = p BY <1>1, <3>0, <3>1, SkipForward
      <4>2. Values(elem, n) = Values(elem, n - 1) BY <3>1 DEF Values
      <4> QED BY <4>1, <4>2 DEF p, n
    <3>2. CASE elem # "bool" /\ p > Len(s)
      <4>1. EndOf(s, p, Values(elem, n)) = p /\ EndOf(s, p, Values(elem, n - 1)) = p
        BY <1>1, <3>0, <3>2, BehindEnd DEF EndOf
      <4>2. 1 \in Int OBVIOUS
      <4>3. Skip(s, p, elem) = p BY <1>1, <3>0, <3>2, <4>2, BehindEnd DEF Skip
      <4> QED BY <4>1, <4>3 DEF p, n
    <3>3. CASE elem # "bool" /\ ~(p > Len(s))
      <4>1. p <= Len(s) BY <3>0, <3>3 DEF IsBlob
      <4>2. Skip(s, p, elem) = Ends(s)[[at |-> Inside(s, p, elem), todo |-> Inner(s, p, elem)]]
        BY <1>1, <3>0, <3>3, <4>1, SkipUnfolds
      <4>3. EndOf(s, p, Values(elem, n)) = EndOf(s, Skip(s, p, elem), Values(elem, n - 1))
        BY <1>1, <3>0, <3>3, <4>1, <4>2, ValueUnfolds DEF EndOf
      <4> QED BY <4>3 DEF p, n
    <3> QED BY <3>1, <3>2, <3>3
  <2>7. S[(m + 1) + 1] > o BY <2>2, <2>3, <2>4
  <2> QED BY <2>2, <2>3, <2>5, <2>6, <2>7
<1>5. ASSUME NEW j \in 1 .. size + 1
      PROVE  S[j] > o /\ EndOf(s, S[j], Values(elem, size - (j - 1))) = E /\ S[j] \in Nat
  <2>1. j - 1 \in Nat /\ (j - 1) + 1 = j /\ j - 1 <= size BY <1>1
  <2>2. j - 1 \in P
    <3> HIDE DEF P
    <3> QED BY <1>3, <1>4, <2>1, Induct
  <2> QED BY <1>1, <2>1, <2>2
<1>6. S[size + 1] = E
  <2>1. size + 1 \in 1 .. size + 1 /\ size - ((size + 1) - 1) = 0 BY <1>1
  <2>2. EndOf(s, S[size + 1], Values(elem, 0)) = E /\ S[size + 1] \in Nat BY <1>5, <2>1
  <2>3. Values(elem, 0) = <<>> BY DEF Values
  <2>4. [at |-> S[size + 1], todo |-> <<>>] \in Calls BY <2>2, EmptySeq, CallIs
  <2>5. EndOf(s, S[size + 1], <<>>) = S[size + 1] BY <2>4, EndsUnfold DEF Halted, EndOf
  <2> QED BY <2>2, <2>3, <2>5
<1>7. ASSUME NEW j \in 1 .. size + 1 PROVE S[j] <= E
  <2>1. size - (j - 1) \in Int BY <1>1
  <2>2. EndOf(s, S[j], Values(elem, size - (j - 1))) = E /\ S[j] \in Nat BY <1>5
  <2>3. [at |-> S[j], todo |-> Values(elem, size - (j - 1))] \in Calls BY <1>1, <2>1, <2>2, ValuesTyped, CallIs
  <2>4. EndOf(s, S[j], Values(elem, size - (j - 1))) >= S[j] BY <2>3, EndsForward DEF EndOf
  <2> QED BY <2>2, <2>4
<1> QED BY <1>5, <1>6, <1>7 DEF size, S, E

-----------------------------------------------------------------------------
(* Blobs.                                                                   *)

\* A blob is a sequence of tokens.
LEMMA BlobIs ==
  ASSUME NEW s, IsBlob(s)
  PROVE  /\ Len(s) \in Nat /\ DOMAIN s = 1 .. Len(s) /\ s \in Seq(Range(s))
         /\ \A j \in 1 .. Len(s) : IsToken(s[j])
<1>1. Len(s) \in Nat /\ s = [j \in 1 .. Len(s) |-> s[j]] /\ \A j \in 1 .. Len(s) : IsToken(s[j])
  BY DEF IsBlob
<1> DEFINE n == Len(s)
<1> HIDE DEF n
<1>2. n \in Nat /\ s = [j \in 1 .. n |-> s[j]] BY <1>1 DEF n
<1>3. DOMAIN s = 1 .. n BY <1>2
<1>4. s \in [1 .. n -> Range(s)] BY <1>2, <1>3 DEF Range
<1>5. s \in Seq(Range(s)) BY <1>2, <1>4, SeqDef
<1> QED BY <1>1, <1>3, <1>5 DEF n

\* And a sequence of tokens is a blob.
LEMMA BlobOf ==
  ASSUME NEW S, NEW s \in Seq(S), \A j \in 1 .. Len(s) : IsToken(s[j])
  PROVE  IsBlob(s)
BY LenProperties DEF IsBlob

\* Two blobs one behind the other.
LEMMA BlobConcat ==
  ASSUME NEW s, IsBlob(s), NEW t, IsBlob(t)
  PROVE  /\ IsBlob(s \o t) /\ Len(s \o t) = Len(s) + Len(t)
         /\ \A j \in 1 .. Len(s) + Len(t) : (s \o t)[j] = IF j <= Len(s) THEN s[j] ELSE t[j - Len(s)]
<1> DEFINE S == Range(s) \cup Range(t)
<1>1. s \in Seq(S) /\ t \in Seq(S) BY BlobIs, SeqMonotonic
<1> HIDE DEF S
<1>2. /\ s \o t \in Seq(S) /\ Len(s \o t) = Len(s) + Len(t)
      /\ \A j \in 1 .. Len(s) + Len(t) : (s \o t)[j] = IF j <= Len(s) THEN s[j] ELSE t[j - Len(s)]
  BY <1>1, ConcatProperties
<1>3. Len(s) \in Nat /\ Len(t) \in Nat BY BlobIs
<1>4. ASSUME NEW j \in 1 .. Len(s \o t) PROVE IsToken((s \o t)[j])
  <2>1. j \in 1 .. Len(s) + Len(t) BY <1>2
  <2>2. CASE j <= Len(s)
    <3>1. j \in 1 .. Len(s) BY <1>3, <2>1, <2>2
    <3>2. (s \o t)[j] = s[j] BY <1>2, <2>1, <2>2
    <3> QED BY <3>1, <3>2, BlobIs
  <2>3. CASE ~(j <= Len(s))
    <3>1. j - Len(s) \in 1 .. Len(t) BY <1>3, <2>1, <2>3
    <3>2. (s \o t)[j] = t[j - Len(s)] BY <1>2, <2>1, <2>3
    <3> QED BY <3>1, <3>2, BlobIs
  <2> QED BY <2>2, <2>3
<1>5. IsBlob(s \o t) BY <1>2, <1>4, BlobOf
<1> QED BY <1>2, <1>5

\* What is behind an offset of a blob.
LEMMA BlobBehind ==
  ASSUME NEW s, IsBlob(s), NEW o \in 0 .. Len(s)
  PROVE  /\ IsBlob(SubSeq(s, o + 1, Len(s))) /\ Len(SubSeq(s, o + 1, Len(s))) = Len(s) - o
         /\ \A j \in 1 .. Len(s) - o : SubSeq(s, o + 1, Len(s))[j] = s[o + j]
<1> DEFINE t == SubSeq(s, o + 1, Len(s))
<1>1. Len(s) \in Nat /\ \A j \in 1 .. Len(s) : IsToken(s[j]) /\ s[j] \in Range(s)
  BY BlobIs DEF Range
<1>2. \A j \in o + 1 .. Len(s) : s[j] \in Range(s) BY <1>1
<1>3. /\ t \in Seq(Range(s)) /\ Len(t) = IF o + 1 <= Len(s) THEN Len(s) - (o + 1) + 1 ELSE 0
      /\ \A j \in 1 .. Len(s) - (o + 1) + 1 : t[j] = s[(o + 1) + j - 1]
  <2>1. o + 1 \in Int /\ Len(s) \in Int BY <1>1
  <2> QED BY <1>2, <2>1, SubSeqProperties
<1>4. Len(t) = Len(s) - o /\ \A j \in 1 .. Len(s) - o : t[j] = s[o + j]
  <2> HIDE DEF t
  <2>1. Len(s) - (o + 1) + 1 = Len(s) - o /\ o <= Len(s) BY <1>1
  <2>2. Len(t) = Len(s) - o
    <3>1. CASE o + 1 <= Len(s) BY <1>3, <2>1, <3>1
    <3>2. CASE ~(o + 1 <= Len(s))
      <4>1. Len(t) = 0 /\ Len(s) \in Nat BY <1>1, <1>3, <3>2
      <4>2. PICK n \in Nat : n = Len(s) BY <1>1
      <4>3. o \in 0 .. n /\ ~(o + 1 <= n) BY <3>2, <4>2
      <4>4. o = n BY <4>3
      <4> QED BY <4>1, <4>2, <4>4
    <3> QED BY <3>1, <3>2
  <2>3. ASSUME NEW j \in 1 .. Len(s) - o PROVE t[j] = s[o + j]
    <3>1. (o + 1) + j - 1 = o + j BY <1>1
    <3> QED BY <1>3, <2>1, <3>1
  <2> QED BY <2>2, <2>3
<1>5. \A j \in 1 .. Len(t) : IsToken(t[j])
  <2>1. \A j \in 1 .. Len(t) : o + j \in 1 .. Len(s) /\ t[j] = s[o + j] BY <1>1, <1>4
  <2> QED BY <1>1, <2>1
<1>6. IsBlob(t) BY <1>3, <1>5, BlobOf
<1> QED BY <1>4, <1>6

\* Parts that agree, as sequences.
Part(s, a, b) == SubSeq(s, a + 1, b)

\* A part of what two blobs share is the same sequence in both.
LEMMA PartMoved ==
  ASSUME NEW s, IsBlob(s), NEW t, IsBlob(t), NEW o \in Nat, NEW L \in Nat, NEW d \in Nat,
         Agree(s, t, o, L, d)
  PROVE  \A a, b \in Nat : o <= a /\ a <= b /\ b <= L => Part(t, a + d, b + d) = Part(s, a, b)
<1> SUFFICES ASSUME NEW a \in Nat, NEW b \in Nat, o <= a, a <= b, b <= L
             PROVE  SubSeq(t, a + d + 1, b + d) = SubSeq(s, a + 1, b)
  BY DEF Part
<1>1. Len(s) \in Nat /\ Len(t) \in Nat /\ L <= Len(s) /\ L + d <= Len(t) BY BlobIs DEF Agree
<1>2. ASSUME NEW j \in a + 1 .. b PROVE t[j + d] = s[j]
  <2>1. j - 1 \in o .. L - 1 BY <1>1, <1>2
  <2>2. At(t, (j - 1) + d) = At(s, j - 1) BY <2>1 DEF Agree
  <2>3. (j - 1) + d < Len(t) /\ j - 1 < Len(s) /\ (j - 1) + d + 1 = j + d /\ (j - 1) + 1 = j BY <1>1, <2>1
  <2> QED BY <2>2, <2>3 DEF At
<1> DEFINE S == Range(s) \cup Range(t)
           u == SubSeq(t, a + d + 1, b + d)
           v == SubSeq(s, a + 1, b)
<1>3. (\A j \in a + 1 .. b : s[j] \in S) /\ (\A j \in a + d + 1 .. b + d : t[j] \in S)
  <2>1. DOMAIN s = 1 .. Len(s) /\ DOMAIN t = 1 .. Len(t) BY BlobIs
  <2>2. \A j \in a + 1 .. b : j \in DOMAIN s BY <1>1, <2>1
  <2>3. \A j \in a + d + 1 .. b + d : j \in DOMAIN t BY <1>1, <2>1
  <2> QED BY <2>2, <2>3 DEF Range
<1>4. a + 1 \in Int /\ b \in Int /\ a + d + 1 \in Int /\ b + d \in Int OBVIOUS
<1> HIDE DEF S
<1>5. /\ v \in Seq(S) /\ Len(v) = IF a + 1 <= b THEN b - (a + 1) + 1 ELSE 0
      /\ \A j \in 1 .. b - (a + 1) + 1 : v[j] = s[(a + 1) + j - 1]
  BY <1>3, <1>4, SubSeqProperties
<1>6. /\ u \in Seq(S) /\ Len(u) = IF a + d + 1 <= b + d THEN (b + d) - (a + d + 1) + 1 ELSE 0
      /\ \A j \in 1 .. (b + d) - (a + d + 1) + 1 : u[j] = t[(a + d + 1) + j - 1]
  BY <1>3, <1>4, SubSeqProperties
<1> HIDE DEF u, v
<1>7. Len(u) = b - a /\ Len(v) = b - a BY <1>5, <1>6
<1>8. ASSUME NEW j \in 1 .. b - a PROVE u[j] = v[j]
  <2>1. j + a \in a + 1 .. b /\ (a + 1) + j - 1 = j + a /\ (a + d + 1) + j - 1 = (j + a) + d OBVIOUS
  <2>2. v[j] = s[j + a] /\ u[j] = t[(j + a) + d] BY <1>5, <1>6, <2>1
  <2> QED BY <1>2, <2>1, <2>2
<1>9. u = v BY <1>5, <1>6, <1>7, <1>8, SeqEqual
<1> QED BY <1>9 DEF u, v

\* The fields Those returns are fields of the kind it asks for.
LEMMA ThoseAre ==
  ASSUME NEW n \in Nat, NEW F, DOMAIN F = 1 .. n, NEW id, NEW type
  PROVE  /\ Len(Those(F, id, type)) \in 0 .. n /\ DOMAIN Those(F, id, type) = 1 .. Len(Those(F, id, type))
         /\ \A j \in DOMAIN Those(F, id, type) : \E l \in 1 .. n :
              Those(F, id, type)[j] = F[l] /\ F[l].id = id /\ F[l].type = type
<1> DEFINE S == {j \in DOMAIN F : F[j].id = id /\ F[j].type = type}
           T == InOrder(S)
<1>1. S \subseteq 0 .. (n + 1) - 1 BY SMT
<1>2. PICK m \in Nat : Ordered(T, m, S)
  <2>1. n + 1 \in Nat OBVIOUS
  <2> HIDE DEF S
  <2> QED BY <1>1, <2>1, InOrderLast
<1>3. Those(F, id, type) = [j \in DOMAIN T |-> F[T[j]]] BY DEF Those
<1>4. DOMAIN T = 1 .. m /\ \A j \in 1 .. m : T[j] \in S BY <1>2 DEF Ordered
<1> HIDE DEF T
<1>5. DOMAIN Those(F, id, type) = 1 .. m /\ Len(Those(F, id, type)) = m BY <1>3, <1>4
<1>6. m <= n
  <2>1. \A j, l \in 1 .. m : j < l => T[j] < T[l] BY <1>2 DEF Ordered
  <2> DEFINE bad == {j \in 1 .. m : T[j] < j}
  <2>2. bad = {}
    <3> SUFFICES ASSUME bad # {} PROVE FALSE OBVIOUS
    <3>1. PICK j \in bad : \A l \in bad : j <= l
      <4>1. bad \subseteq Nat OBVIOUS
      <4> HIDE DEF bad
      <4> QED BY <4>1, LeastNatural
    <3>2. T[j] \in 1 .. n BY <1>4
    <3>3. j # 1 BY <3>1, <3>2
    <3>4. j - 1 \in 1 .. m /\ j - 1 < j /\ ~(j <= j - 1) BY <3>3
    <3>5. T[j - 1] < T[j] /\ T[j - 1] \in 1 .. n BY <1>4, <2>1, <3>4
    <3>6. j - 1 \notin bad
      <4> HIDE DEF bad
      <4> QED BY <3>1, <3>4
    <3>7. T[j - 1] >= j - 1 BY <3>4, <3>5, <3>6
    <3> QED BY <3>1, <3>2, <3>5, <3>7
  <2>3. CASE m = 0 BY <2>3
  <2>4. CASE m # 0
    <3>1. m \in 1 .. m BY <2>4
    <3>2. T[m] \in 1 .. n BY <1>4, <3>1
    <3>3. ~(T[m] < m) BY <2>2, <3>1
    <3> QED BY <3>2, <3>3
  <2> QED BY <2>3, <2>4
<1>7. \A j \in 1 .. m : Those(F, id, type)[j] = F[T[j]] BY <1>3, <1>4
<1> QED BY <1>4, <1>5, <1>6, <1>7

\* The only field of its kind.
Only(F, n, id, type, l) == \A j \in 1 .. n : (F[j].id = id /\ F[j].type = type) <=> j = l

\* Those returns it alone.
LEMMA ThoseOnly ==
  ASSUME NEW n \in Nat, NEW F, DOMAIN F = 1 .. n, NEW id, NEW type, NEW l \in 1 .. n,
         Only(F, n, id, type, l)
  PROVE  Those(F, id, type) = <<F[l]>>
<1> DEFINE S == {j \in DOMAIN F : F[j].id = id /\ F[j].type = type}
           T == InOrder(S)
<1>1. S = {l} /\ S \subseteq 0 .. (n + 1) - 1 BY DEF Only
<1>2. PICK m \in Nat : Ordered(T, m, S)
  <2>1. n + 1 \in Nat OBVIOUS
  <2> HIDE DEF S
  <2> QED BY <1>1, <2>1, InOrderLast
<1>3. Those(F, id, type) = [j \in DOMAIN T |-> F[T[j]]] BY DEF Those
<1>4. DOMAIN T = 1 .. m /\ \A j \in 1 .. m : T[j] = l
  <2>1. DOMAIN T = 1 .. m /\ \A j \in 1 .. m : T[j] \in S BY <1>2 DEF Ordered
  <2> QED BY <1>1, <2>1
<1> HIDE DEF T
<1>5. m = 1
  <2>1. m # 0
    <3>1. S = {T[j] : j \in 1 .. m} BY <1>2 DEF Ordered
    <3> HIDE DEF S
    <3> QED BY <1>1, <3>1
  <2>2. ~(m > 1)
    <3> SUFFICES ASSUME m > 1 PROVE FALSE OBVIOUS
    <3>1. 1 \in 1 .. m /\ 2 \in 1 .. m OBVIOUS
    <3>2. T[1] < T[2] BY <1>2, <3>1 DEF Ordered
    <3> QED BY <1>4, <3>1, <3>2
  <2> QED BY <2>1, <2>2
<1>6. Those(F, id, type) = [j \in 1 .. 1 |-> F[l]] BY <1>3, <1>4, <1>5
<1> QED BY <1>6

-----------------------------------------------------------------------------
(* The walk.                                                               *)

\* The items of a list of structs inside a struct, and where the list ends: a
\* cursor that skips a struct from there stays inside.
LEMMA ItemsInside ==
  ASSUME NEW s, IsBlob(s), NEW o \in Nat, Skip(s, o, "struct") <= Len(s),
         NEW F, NEW n, IsFields(s, o, F, n), NEW i \in 1 .. n,
         F[i].type = "list", ElemAt(s, F[i].value) = "struct"
  PROVE  /\ SizeAt(s, F[i].value) \in Nat
         /\ Starts(s, F[i].value) \in [1 .. SizeAt(s, F[i].value) + 1 -> Nat]
         /\ \A j \in 1 .. SizeAt(s, F[i].value) + 1 :
              /\ Starts(s, F[i].value)[j] > F[i].value
              /\ Skip(s, Starts(s, F[i].value)[j], "struct") <= Skip(s, o, "struct")
<1> DEFINE v == F[i].value
           size == SizeAt(s, v)
           S == Starts(s, v)
           E == Skip(s, o, "struct")
           e == Skip(s, v, "list")
<1>1. /\ n \in Nat /\ v \in Nat /\ v <= Place(s, o, F, i + 1)
      /\ Place(s, o, F, i + 1) = Skip(s, v, "list") /\ Place(s, o, F, i + 1) \in Nat
  <2>1. n \in Nat BY PlacesGrow
  <2>2. i + 1 \in 1 .. n + 1 BY <2>1
  <2>3. /\ F[i].value \in Nat /\ F[i].value <= Place(s, o, F, i + 1)
        /\ Place(s, o, F, i + 1) = Skip(s, F[i].value, F[i].type)
    BY PlacesGrow
  <2>4. Place(s, o, F, i + 1) \in Nat BY <2>2, PlacesGrow
  <2> QED BY <2>1, <2>3, <2>4
<1>2. E \in Nat /\ Len(s) \in Nat /\ "struct" \in Types
  <2>1. "struct" \in Types BY DEF Types
  <2> QED BY <2>1, SkipForward, BlobIs
<1>3. Skip(s, e, "struct") = E /\ e < E
  <2>1. i + 1 \in 1 .. n + 1 BY <1>1
  <2> QED BY <1>1, <2>1, StructEnds
<1> HIDE DEF E, v, e
<1>4. e \in Nat /\ v <= Len(s) /\ e <= E BY <1>1, <1>2, <1>3 DEF e, E
<1>5. /\ size \in Nat /\ S \in [1 .. size + 1 -> Nat]
      /\ \A j \in 1 .. size : S[j + 1] = Skip(s, S[j], "struct")
  <2>1. ElemAt(s, v) = "struct" BY DEF v
  <2>2. /\ size \in Nat /\ S \in [1 .. size + 1 -> Nat]
        /\ \A j \in 1 .. size : S[j + 1] = Skip(s, S[j], ElemAt(s, v))
    BY <1>1, StartsAre
  <2> QED BY <2>1, <2>2
<1>6. S[size + 1] = e /\ \A j \in 1 .. size + 1 : S[j] <= e /\ S[j] > v
  BY <1>1, <1>4, ListEnds DEF e
<1> HIDE DEF size, S
<1>7. ASSUME NEW j \in 1 .. size + 1 PROVE Skip(s, S[j], "struct") <= E
  <2>1. CASE j = size + 1 BY <1>2, <1>3, <1>6, <2>1
  <2>2. CASE j # size + 1
    <3>1. j \in 1 .. size /\ j + 1 \in 1 .. size + 1 BY <1>5, <2>2
    <3>2. Skip(s, S[j], "struct") <= e /\ S[j + 1] \in Nat /\ Skip(s, S[j], "struct") = S[j + 1]
      BY <1>5, <1>6, <3>1
    <3> QED BY <1>2, <1>4, <3>2
  <2> QED BY <2>1, <2>2
<1> QED BY <1>5, <1>6, <1>7 DEF v, size, S, E

\* An offset the index may hold: behind the first header, and a struct that is read
\* from there ends inside the footer.
Held(s) == {o \in Nat : o >= NextField(s, 0, 0).value /\ Skip(s, o, "struct") <= Len(s)}

\* The top-level fields: each value behind the first header.
LEMMA TopFields ==
  ASSUME NEW s, IsBlob(s)
  PROVE  /\ Len(Fields(s, 0)) \in Nat /\ DOMAIN Fields(s, 0) = 1 .. Len(Fields(s, 0))
         /\ IsFields(s, 0, Fields(s, 0), Len(Fields(s, 0)))
         /\ \A j \in 1 .. Len(Fields(s, 0)) :
              /\ Fields(s, 0)[j] \in FieldRecords /\ Fields(s, 0)[j] \in Range(Fields(s, 0))
              /\ Fields(s, 0)[j].value >= NextField(s, 0, 0).value
              /\ Fields(s, 0)[j].value \in Nat
<1>1. PICK n \in Nat : IsFields(s, 0, Fields(s, 0), n) /\ Len(Fields(s, 0)) = n BY FieldsExist
<1> DEFINE F == Fields(s, 0)
<1> HIDE DEF F
<1>2. IsFields(s, 0, F, n) /\ Len(F) = n BY <1>1 DEF F
<1>3. F \in [1 .. n -> FieldRecords] BY <1>2 DEF IsFields
<1>4. DOMAIN F = 1 .. n BY <1>3
<1>5. ASSUME NEW j \in 1 .. n PROVE F[j].value >= NextField(s, 0, 0).value /\ F[j].value \in Nat
  <2>1. 1 \in 1 .. n /\ F[1] = NextField(s, 0, 0)
    <3>1. 1 \in 1 .. n OBVIOUS
    <3> QED BY <1>2, <3>1 DEF IsFields, Place, IdBefore
  <2>2. F[j].value \in Nat /\ F[1].value \in Nat /\ F[j].value > F[j].at /\ F[j].at = Place(s, 0, F, j)
        /\ Place(s, 0, F, j) \in Nat
    <3>1. j \in 1 .. n + 1 OBVIOUS
    <3>0. PICK o \in Nat : o = 0 OBVIOUS
    <3>3. IsFields(s, o, F, n) BY <1>2, <3>0
    <3>4. F[j].at = Place(s, o, F, j) /\ Place(s, o, F, j) \in Nat /\ F[j].value \in {F[j].at + 1, F[j].at + 2}
          /\ F[1].value \in Nat
      BY <2>1, <3>1, <3>3, PlacesGrow
    <3>2. F[j].at = Place(s, 0, F, j) /\ Place(s, 0, F, j) \in Nat /\ F[j].value \in {F[j].at + 1, F[j].at + 2}
          /\ F[1].value \in Nat
      BY <3>0, <3>4
    <3> QED BY <3>2
  <2>3. CASE j = 1 BY <2>1, <2>2, <2>3
  <2>4. CASE j # 1
    <3>1. j \in 1 .. n + 1 /\ 1 < j BY <2>4
    <3>2. F[1].value <= Place(s, 0, F, j) BY <1>2, <2>1, <3>1, FieldsApart
    <3> QED BY <2>1, <2>2, <3>2
  <2> QED BY <2>3, <2>4
<1> QED BY <1>2, <1>3, <1>4, <1>5 DEF F, Range

\* Every item of a top-level list of structs is an offset the index may hold.
LEMMA SchemaHeld ==
  ASSUME NEW s, IsBlob(s), Parsed(s), ListsOfStructs(s), NEW j \in 1 .. Len(Fields(s, 0)),
         Fields(s, 0)[j].type = "list", Fields(s, 0)[j].id \in {FMD_SCHEMA, FMD_ROW_GROUPS}
  PROVE  Items(s, Fields(s, 0)[j].value) \in Seq(Held(s))
<1> DEFINE F == Fields(s, 0)
           v == F[j].value
           size == SizeAt(s, v)
<1>1. /\ Len(F) \in Nat /\ IsFields(s, 0, F, Len(F)) /\ v \in Nat /\ v >= NextField(s, 0, 0).value
      /\ F[j] \in Range(F)
  BY TopFields
<1>2. ElemAt(s, v) = "struct" BY <1>1 DEF ListsOfStructs
<1>3. Skip(s, 0, "struct") <= Len(s) BY DEF Parsed
<1>4. 0 \in Nat OBVIOUS
<1> HIDE DEF F
<1>5. /\ size \in Nat /\ Starts(s, v) \in [1 .. size + 1 -> Nat]
      /\ \A i \in 1 .. size + 1 : Starts(s, v)[i] > v /\ Skip(s, Starts(s, v)[i], "struct") <= Skip(s, 0, "struct")
  BY <1>1, <1>2, <1>3, <1>4, ItemsInside DEF F
<1>6. Items(s, v) = [i \in 1 .. size |-> Starts(s, v)[i]] BY DEF Items
<1>7. NextField(s, 0, 0).value \in Nat /\ Len(s) \in Nat /\ Skip(s, 0, "struct") \in Nat
  <2>1. NextField(s, 0, 0) \in FieldRecords BY NextFieldRead
  <2>2. "struct" \in Types BY DEF Types
  <2> QED BY <2>1, <2>2, SkipForward, BlobIs DEF FieldRecords
<1>8. ASSUME NEW i \in 1 .. size PROVE Starts(s, v)[i] \in Held(s)
  <2>1. i \in 1 .. size + 1 BY <1>5
  <2>2. /\ Starts(s, v)[i] \in Nat /\ Starts(s, v)[i] > v
        /\ Skip(s, Starts(s, v)[i], "struct") <= Skip(s, 0, "struct")
    BY <1>5, <2>1
  <2>3. Skip(s, Starts(s, v)[i], "struct") \in Nat
    <3>1. "struct" \in Types BY DEF Types
    <3> QED BY <2>2, <3>1, SkipForward
  <2> HIDE DEF v
  <2> QED BY <1>1, <1>3, <1>7, <2>2, <2>3 DEF Held
<1> HIDE DEF size, v
<1>9. Items(s, v) \in [1 .. size -> Held(s)] BY <1>6, <1>8
<1>10. Items(s, v) \in Seq(Held(s)) BY <1>5, <1>9, SeqDef
<1> QED BY <1>10 DEF v, F

\* The same for the lists of chunks of a row group.
LEMMA ChunksHeld ==
  ASSUME NEW s, IsBlob(s), Parsed(s), ListsOfStructs(s), NEW j \in 1 .. Len(Fields(s, 0)),
         Fields(s, 0)[j].type = "list", Fields(s, 0)[j].id = FMD_ROW_GROUPS,
         NEW g \in Range(Items(s, Fields(s, 0)[j].value))
  PROVE  LET C == Those(Fields(s, g), RG_COLUMNS, "list") IN
         /\ Len(C) \in Nat /\ DOMAIN C = 1 .. Len(C)
         /\ \A c \in 1 .. Len(C) : /\ SizeAt(s, C[c].value) \in Nat
                                   /\ Starts(s, C[c].value) \in Seq(Held(s))
                                   /\ Len(Starts(s, C[c].value)) = SizeAt(s, C[c].value) + 1
<1> DEFINE C == Those(Fields(s, g), RG_COLUMNS, "list")
           first == NextField(s, 0, 0).value
<1>1. g \in Nat /\ g >= first /\ Skip(s, g, "struct") <= Len(s)
  <2>1. Items(s, Fields(s, 0)[j].value) \in Seq(Held(s)) BY SchemaHeld
  <2>2. g \in Held(s) BY <2>1, RangeOfSeq
  <2> QED BY <2>2 DEF Held
<1>2. first \in Nat /\ Len(s) \in Nat /\ "struct" \in Types /\ 0 \in Nat
  <2>1. NextField(s, 0, 0) \in FieldRecords BY NextFieldRead
  <2>2. "struct" \in Types BY DEF Types
  <2> QED BY <2>1, <2>2, BlobIs DEF FieldRecords
<1>3. PICK n \in Nat : IsFields(s, g, Fields(s, g), n) BY <1>1, FieldsExist
<1> DEFINE G == Fields(s, g)
<1>4. /\ Len(C) \in 0 .. n /\ DOMAIN C = 1 .. Len(C)
      /\ \A c \in DOMAIN C : \E l \in 1 .. n : C[c] = G[l] /\ G[l].type = "list"
  <2>1. DOMAIN G = 1 .. n BY <1>3 DEF IsFields
  <2> HIDE DEF G
  <2>2. /\ Len(Those(G, RG_COLUMNS, "list")) \in 0 .. n
        /\ DOMAIN Those(G, RG_COLUMNS, "list") = 1 .. Len(Those(G, RG_COLUMNS, "list"))
        /\ \A c \in DOMAIN Those(G, RG_COLUMNS, "list") : \E l \in 1 .. n :
             Those(G, RG_COLUMNS, "list")[c] = G[l] /\ G[l].id = RG_COLUMNS /\ G[l].type = "list"
    BY <2>1, ThoseAre
  <2> QED BY <2>2 DEF G
<1>5. ASSUME NEW c \in 1 .. Len(C)
      PROVE  /\ SizeAt(s, C[c].value) \in Nat
             /\ Starts(s, C[c].value) \in Seq(Held(s))
             /\ Len(Starts(s, C[c].value)) = SizeAt(s, C[c].value) + 1
  <2>1. ElemAt(s, C[c].value) = "struct"
    <3>1. C[c] \in Range(C) BY <1>4 DEF Range
    <3>2. Fields(s, 0)[j] \in Range(Fields(s, 0)) BY TopFields
    <3> QED BY <3>1, <3>2 DEF ListsOfStructs
  <2>2. PICK l \in 1 .. n : C[c] = G[l] /\ G[l].type = "list" BY <1>4, <1>5
  <2> HIDE DEF C
  <2> DEFINE v == C[c].value
             size == SizeAt(s, v)
  <2>3. /\ size \in Nat /\ Starts(s, v) \in [1 .. size + 1 -> Nat]
        /\ \A i \in 1 .. size + 1 : Starts(s, v)[i] > v /\ Skip(s, Starts(s, v)[i], "struct") <= Skip(s, g, "struct")
    <3>1. IsFields(s, g, G, n) /\ v = G[l].value /\ ElemAt(s, G[l].value) = "struct" BY <1>3, <2>1, <2>2
    <3> HIDE DEF G, v
    <3> QED BY <1>1, <2>2, <3>1, ItemsInside
  <2>4. v \in Nat /\ v >= g
    <3>1. IsFields(s, g, G, n) /\ v = G[l].value BY <1>3, <2>2
    <3>2. l \in 1 .. n + 1 BY <1>3
    <3> HIDE DEF G, v
    <3>3. G[l].at = Place(s, g, G, l) /\ Place(s, g, G, l) \in Nat /\ Place(s, g, G, l) >= g
          /\ G[l].value \in {G[l].at + 1, G[l].at + 2}
      BY <1>1, <3>1, <3>2, PlacesGrow
    <3> QED BY <1>1, <3>1, <3>3
  <2> HIDE DEF v, size
  <2>5. ASSUME NEW i \in 1 .. size + 1 PROVE Starts(s, v)[i] \in Held(s)
    <3>1. Starts(s, v)[i] \in Nat /\ Starts(s, v)[i] > v BY <2>3
    <3>2. Skip(s, Starts(s, v)[i], "struct") \in Nat /\ Skip(s, g, "struct") \in Nat
      BY <1>1, <1>2, <3>1, SkipForward
    <3>3. Starts(s, v)[i] >= first BY <1>1, <1>2, <2>4, <3>1
    <3>4. Skip(s, Starts(s, v)[i], "struct") <= Len(s) BY <1>1, <1>2, <2>3, <3>2
    <3> QED BY <3>1, <3>3, <3>4 DEF Held
  <2>6. Starts(s, v) \in [1 .. size + 1 -> Held(s)] BY <2>3, <2>5
  <2>7. Starts(s, v) \in Seq(Held(s)) /\ Len(Starts(s, v)) = size + 1
    <3>1. size + 1 \in Nat BY <2>3
    <3> QED BY <2>6, <3>1, SeqDef, LenProperties
  <2> QED BY <2>3, <2>7 DEF v, size
<1> QED BY <1>4, <1>5

\* The chunk offsets of a row group, the end of its last list with them.
LEMMA GroupHeld ==
  ASSUME IsBlob(Footer), Parsed(Footer), ListsOfStructs(Footer), NEW j \in 1 .. Len(Fields(Footer, 0)),
         Fields(Footer, 0)[j].type = "list", Fields(Footer, 0)[j].id = FMD_ROW_GROUPS,
         NEW g \in Range(Items(Footer, Fields(Footer, 0)[j].value))
  PROVE  /\ ChunkOffsets(g) \in Seq(Held(Footer))
         /\ ColumnLists(g) # <<>> => /\ Len(ChunkOffsets(g)) \in Nat \ {0}
                                     /\ SizeAt(Footer, Last(ColumnLists(g)).value) \in Nat
<1> DEFINE C == ColumnLists(g)
           P == [c \in DOMAIN C |-> Starts(Footer, C[c].value)]
           S == Held(Footer)
<1>1. /\ Len(C) \in Nat /\ DOMAIN C = 1 .. Len(C)
      /\ \A c \in 1 .. Len(C) : /\ SizeAt(Footer, C[c].value) \in Nat
                                /\ Starts(Footer, C[c].value) \in Seq(S)
                                /\ Len(Starts(Footer, C[c].value)) = SizeAt(Footer, C[c].value) + 1
  BY ChunksHeld DEF ColumnLists
<1>2. ChunkOffsets(g) = Concatenated(P) BY DEF ChunkOffsets, FlattenSeq, Concatenated
<1> HIDE DEF C
<1>3. P \in [1 .. Len(C) -> Seq(S)] /\ \A c \in 1 .. Len(C) : P[c] = Starts(Footer, C[c].value) BY <1>1
<1> HIDE DEF P, S
<1>4. P \in Seq(Seq(S)) /\ Len(P) = Len(C) BY <1>1, <1>3, SeqDef, LenProperties
<1>5. /\ Concatenated(P) \in Seq(S)
      /\ \A c \in 1 .. Len(P) : Len(P[c]) <= Len(Concatenated(P))
  BY <1>4, FlattenedElements
<1>6. ASSUME C # <<>>
      PROVE  Len(ChunkOffsets(g)) \in Nat \ {0} /\ SizeAt(Footer, Last(C).value) \in Nat
  <2>1. Len(C) # 0 BY <1>1, <1>6, EmptySeq, SeqDef
  <2>2. 1 \in 1 .. Len(C) /\ Len(C) \in 1 .. Len(C) BY <1>1, <2>1
  <2>3. SizeAt(Footer, Last(C).value) \in Nat BY <1>1, <2>2 DEF Last
  <2>4. Len(P[1]) = SizeAt(Footer, C[1].value) + 1 /\ SizeAt(Footer, C[1].value) \in Nat
    BY <1>1, <1>3, <2>2
  <2>5. Len(P[1]) <= Len(Concatenated(P)) BY <1>4, <1>5, <2>2
  <2>6. Len(Concatenated(P)) \in Nat BY <1>5, LenProperties
  <2> QED BY <1>2, <2>3, <2>4, <2>5, <2>6
<1> QED BY <1>2, <1>5, <1>6 DEF C, S

\* What the walk has found of a parsed footer.
WalkHeld(x) ==
  /\ x.row_groups \in Nat /\ x.columns \in Nat
  /\ x.schema \in Seq(Held(Footer)) /\ x.chunk_offsets \in Seq(Held(Footer))
  /\ x.columns # 0 => x.chunk_offsets # <<>>
WalkIs(x) ==
  x = [row_groups |-> x.row_groups, columns |-> x.columns, chunk_offsets |-> x.chunk_offsets,
       schema |-> x.schema, top_fields |-> x.top_fields, already_indexed |-> x.already_indexed]

\* The walk after another field, and what the four kinds of field add to it.
Topped(x, f) ==
  [row_groups |-> x.row_groups, columns |-> x.columns, chunk_offsets |-> x.chunk_offsets,
   schema |-> x.schema, top_fields |-> Append(x.top_fields, <<f.id, f.at>>), already_indexed |-> x.already_indexed]

\* The four kinds, each by itself.
LEMMA WalkedCases ==
  ASSUME NEW f, WalkIs(w)
  PROVE  LET groups == Items(Footer, f.value)
             first == ColumnLists(groups[1])
             walk == Topped(w, f) IN
         /\ f.id = FMD_POINTER => Walked(f) = [walk EXCEPT !.already_indexed = TRUE]
         /\ f.id = FMD_SCHEMA /\ f.type = "list" => Walked(f) = [walk EXCEPT !.schema = walk.schema \o groups]
         /\ f.id = FMD_ROW_GROUPS /\ f.type = "list" =>
              Walked(f) = [walk EXCEPT
                !.row_groups = Len(groups),
                !.columns = IF groups = <<>> \/ first = <<>> THEN walk.columns
                            ELSE SizeAt(Footer, Last(first).value),
                !.chunk_offsets = walk.chunk_offsets \o
                                    FlattenSeq([g \in DOMAIN groups |-> ChunkOffsets(groups[g])])]
         /\ \/ f.id = FMD_POINTER
            \/ f.id \in {FMD_SCHEMA, FMD_ROW_GROUPS} /\ f.type = "list"
            \/ Walked(f) = walk
<1> DEFINE groups == Items(Footer, f.value)
           first == ColumnLists(groups[1])
           walk == [w EXCEPT !.top_fields = Append(@, <<f.id, f.at>>)]
           A == [walk EXCEPT !.already_indexed = TRUE]
           B == [walk EXCEPT !.schema = walk.schema \o groups]
           C == [walk EXCEPT
                   !.row_groups = Len(groups),
                   !.columns = IF groups = <<>> \/ first = <<>> THEN walk.columns
                               ELSE SizeAt(Footer, Last(first).value),
                   !.chunk_offsets = walk.chunk_offsets \o
                                       FlattenSeq([g \in DOMAIN groups |-> ChunkOffsets(groups[g])])]
<1>1. Walked(f) = CASE f.id = FMD_POINTER -> A
                    [] f.id = FMD_SCHEMA /\ f.type = "list" -> B
                    [] f.id = FMD_ROW_GROUPS /\ f.type = "list" -> C
                    [] OTHER -> walk
  BY Zenon DEF Walked
<1>2. walk = Topped(w, f)
  <2>1. PICK r : w = r /\ WalkIs(r) OBVIOUS
  <2> DEFINE y == Append(r.top_fields, <<f.id, f.at>>)
  <2>2. walk = [r EXCEPT !.top_fields = y] BY <2>1
  <2> HIDE DEF y
  <2>3. [r EXCEPT !.top_fields = y]
          = [row_groups |-> r.row_groups, columns |-> r.columns, chunk_offsets |-> r.chunk_offsets,
             schema |-> r.schema, top_fields |-> y, already_indexed |-> r.already_indexed]
    BY <2>1 DEF WalkIs
  <2> QED BY <2>1, <2>2, <2>3 DEF y, Topped
<1> HIDE DEF A, B, C, walk
<1>3. f.id = FMD_POINTER => Walked(f) = A
  BY <1>1 DEF FMD_POINTER, FMD_SCHEMA, FMD_ROW_GROUPS
<1>4. f.id = FMD_SCHEMA /\ f.type = "list" => Walked(f) = B
  BY <1>1 DEF FMD_POINTER, FMD_SCHEMA, FMD_ROW_GROUPS
<1>5. f.id = FMD_ROW_GROUPS /\ f.type = "list" => Walked(f) = C
  BY <1>1 DEF FMD_POINTER, FMD_SCHEMA, FMD_ROW_GROUPS
<1>6. \/ f.id = FMD_POINTER
      \/ f.id \in {FMD_SCHEMA, FMD_ROW_GROUPS} /\ f.type = "list"
      \/ Walked(f) = walk
  BY <1>1 DEF FMD_POINTER, FMD_SCHEMA, FMD_ROW_GROUPS
<1> QED BY <1>2, <1>3, <1>4, <1>5, <1>6 DEF A, B, C

\* A field of a parsed footer adds offsets that the index may hold, and no columns
\* without a chunk offset.
LEMMA WalkedHeld ==
  ASSUME IsBlob(Footer), Parsed(Footer), ListsOfStructs(Footer), NEW j \in 1 .. Len(Fields(Footer, 0)),
         WalkIs(w), WalkHeld(w)
  PROVE  WalkHeld(Walked(Fields(Footer, 0)[j]))
<1> DEFINE f == Fields(Footer, 0)[j]
           groups == Items(Footer, f.value)
           first == ColumnLists(groups[1])
           walk == Topped(w, f)
           S == Held(Footer)
           P == [g \in DOMAIN groups |-> ChunkOffsets(groups[g])]
<1> SUFFICES WalkHeld(Walked(f)) OBVIOUS
<1>1. /\ walk.row_groups = w.row_groups /\ walk.columns = w.columns /\ walk.schema = w.schema
      /\ walk.chunk_offsets = w.chunk_offsets /\ WalkIs(walk)
  BY DEF WalkIs, Topped
<1>2. CASE f.id = FMD_POINTER
  <2>1. Walked(f) = [walk EXCEPT !.already_indexed = TRUE] BY <1>2, WalkedCases
  <2> HIDE DEF f, walk
  <2> QED BY <1>1, <2>1 DEF WalkIs, WalkHeld
<1>3. CASE f.id = FMD_SCHEMA /\ f.type = "list"
  <2>1. Walked(f) = [walk EXCEPT !.schema = walk.schema \o groups] BY <1>3, WalkedCases
  <2>2. groups \in Seq(S) BY <1>3, SchemaHeld
  <2> HIDE DEF f, groups, walk
  <2>3. w.schema \o groups \in Seq(S) BY <2>2, ConcatProperties DEF WalkHeld
  <2> QED BY <1>1, <2>1, <2>3 DEF WalkIs, WalkHeld
<1>4. CASE f.id = FMD_ROW_GROUPS /\ f.type = "list"
  <2>1. Walked(f) = [walk EXCEPT
            !.row_groups = Len(groups),
            !.columns = IF groups = <<>> \/ first = <<>> THEN walk.columns ELSE SizeAt(Footer, Last(first).value),
            !.chunk_offsets = walk.chunk_offsets \o FlattenSeq(P)]
    BY <1>4, WalkedCases
  <2>2. groups \in Seq(S) BY <1>4, SchemaHeld
  <2>3. \A g \in Range(groups) :
          /\ ChunkOffsets(g) \in Seq(S)
          /\ ColumnLists(g) # <<>> => /\ Len(ChunkOffsets(g)) \in Nat \ {0}
                                      /\ SizeAt(Footer, Last(ColumnLists(g)).value) \in Nat
    BY <1>4, GroupHeld
  <2>4. FlattenSeq(P) = Concatenated(P) BY DEF FlattenSeq, Concatenated
  <2> HIDE DEF f, groups, walk, S
  <2>5. Len(groups) \in Nat /\ DOMAIN groups = 1 .. Len(groups) BY <2>2, LenProperties
  <2>6. \A g \in 1 .. Len(groups) : groups[g] \in Range(groups) BY <2>5 DEF Range
  <2>7. P \in [1 .. Len(groups) -> Seq(S)] /\ \A g \in 1 .. Len(groups) : P[g] = ChunkOffsets(groups[g])
    BY <2>3, <2>5, <2>6
  <2> HIDE DEF P
  <2>8. P \in Seq(Seq(S)) /\ Len(P) = Len(groups) BY <2>5, <2>7, SeqDef, LenProperties
  <2>9. /\ Concatenated(P) \in Seq(S)
        /\ \A g \in 1 .. Len(P) : Len(P[g]) <= Len(Concatenated(P))
    BY <2>8, FlattenedElements
  <2>10. w.chunk_offsets \in Seq(S) BY DEF WalkHeld, S
  <2>11. /\ w.chunk_offsets \o Concatenated(P) \in Seq(S)
         /\ Len(w.chunk_offsets \o Concatenated(P)) = Len(w.chunk_offsets) + Len(Concatenated(P))
    BY <2>9, <2>10, ConcatProperties
  <2>12. Len(w.chunk_offsets) \in Nat /\ Len(Concatenated(P)) \in Nat BY <2>9, <2>10, LenProperties
  <2> DEFINE columns == IF groups = <<>> \/ first = <<>> THEN w.columns ELSE SizeAt(Footer, Last(first).value)
  <2>13. columns \in Nat /\ (columns # 0 => w.chunk_offsets \o Concatenated(P) # <<>>)
    <3>1. CASE groups = <<>> \/ first = <<>>
      <4>1. columns = w.columns BY <3>1
      <4>2. w.columns \in Nat /\ (w.columns # 0 => w.chunk_offsets # <<>>) BY DEF WalkHeld
      <4>3. w.chunk_offsets # <<>> => Len(w.chunk_offsets) # 0 BY <2>10, EmptySeq
      <4>4. w.chunk_offsets # <<>> => Len(w.chunk_offsets \o Concatenated(P)) # 0 BY <2>11, <2>12, <4>3
      <4>5. Len(<<>>) = 0 OBVIOUS
      <4> QED BY <4>1, <4>2, <4>4, <4>5
    <3>2. CASE ~(groups = <<>> \/ first = <<>>)
      <4>1. columns = SizeAt(Footer, Last(first).value) BY <3>2
      <4>2. Len(groups) # 0 BY <2>2, <3>2, EmptySeq
      <4>3. 1 \in 1 .. Len(groups) BY <2>5, <4>2
      <4>4. groups[1] \in Range(groups) BY <2>6, <4>3
      <4>5. SizeAt(Footer, Last(first).value) \in Nat /\ Len(ChunkOffsets(groups[1])) \in Nat \ {0}
        BY <2>3, <3>2, <4>4
      <4>6. Len(P[1]) <= Len(Concatenated(P)) /\ P[1] = ChunkOffsets(groups[1]) BY <2>7, <2>8, <2>9, <4>3
      <4>7. Len(w.chunk_offsets \o Concatenated(P)) # 0 BY <2>11, <2>12, <4>5, <4>6
      <4>8. Len(<<>>) = 0 OBVIOUS
      <4> QED BY <4>1, <4>5, <4>7, <4>8
    <3> QED BY <3>1, <3>2
  <2> HIDE DEF columns, first
  <2>14. /\ Walked(f).row_groups = Len(groups) /\ Walked(f).columns = columns
         /\ Walked(f).schema = w.schema /\ Walked(f).chunk_offsets = w.chunk_offsets \o Concatenated(P)
    BY <1>1, <2>1, <2>4 DEF WalkIs, columns
  <2>15. w.schema \in Seq(S) BY DEF WalkHeld, S
  <2> QED BY <2>5, <2>11, <2>13, <2>14, <2>15 DEF WalkHeld, S
<1>5. CASE ~(f.id = FMD_POINTER) /\ ~(f.id = FMD_SCHEMA /\ f.type = "list")
           /\ ~(f.id = FMD_ROW_GROUPS /\ f.type = "list")
  <2>1. Walked(f) = walk BY <1>5, WalkedCases
  <2> QED BY <1>1, <2>1 DEF WalkHeld
<1> QED BY <1>2, <1>3, <1>4, <1>5

\* And of any footer.
LEMMA WalkedIs ==
  ASSUME NEW f, WalkIs(w)
  PROVE  /\ WalkIs(Walked(f)) /\ Walked(f).top_fields = Append(w.top_fields, <<f.id, f.at>>)
         /\ Walked(f).already_indexed = IF f.id = FMD_POINTER THEN TRUE ELSE w.already_indexed
<1> DEFINE walk == Topped(w, f)
<1>1. WalkIs(walk) /\ walk.top_fields = Append(w.top_fields, <<f.id, f.at>>)
      /\ walk.already_indexed = w.already_indexed
  BY DEF WalkIs, Topped
<1>2. CASE f.id = FMD_POINTER
  <2>1. Walked(f) = [walk EXCEPT !.already_indexed = TRUE] BY <1>2, WalkedCases
  <2> HIDE DEF walk
  <2> QED BY <1>1, <1>2, <2>1 DEF WalkIs
<1>3. CASE f.id = FMD_SCHEMA /\ f.type = "list"
  <2>1. PICK x : Walked(f) = [walk EXCEPT !.schema = x] BY <1>3, WalkedCases
  <2> HIDE DEF walk
  <2> QED BY <1>1, <1>3, <2>1 DEF WalkIs, FMD_POINTER, FMD_SCHEMA
<1>4. CASE f.id = FMD_ROW_GROUPS /\ f.type = "list"
  <2> DEFINE groups == Items(Footer, f.value)
             x == Len(groups)
             y == IF groups = <<>> \/ ColumnLists(groups[1]) = <<>> THEN walk.columns
                  ELSE SizeAt(Footer, Last(ColumnLists(groups[1])).value)
             z == walk.chunk_offsets \o FlattenSeq([g \in DOMAIN groups |-> ChunkOffsets(groups[g])])
  <2>1. Walked(f) = [walk EXCEPT !.row_groups = x, !.columns = y, !.chunk_offsets = z]
    BY <1>4, WalkedCases
  <2> HIDE DEF walk, x, y, z
  <2>2. Walked(f) = [row_groups |-> x, columns |-> y, chunk_offsets |-> z, schema |-> walk.schema,
                     top_fields |-> walk.top_fields, already_indexed |-> walk.already_indexed]
    BY <1>1, <2>1 DEF WalkIs
  <2>3. FMD_POINTER # FMD_ROW_GROUPS BY DEF FMD_POINTER, FMD_ROW_GROUPS
  <2>4. WalkIs(Walked(f)) BY <2>2 DEF WalkIs
  <2>5. Walked(f).top_fields = walk.top_fields /\ Walked(f).already_indexed = walk.already_indexed BY <2>2
  <2> QED BY <1>1, <1>4, <2>3, <2>4, <2>5
<1>5. CASE ~(f.id = FMD_POINTER) /\ ~(f.id = FMD_SCHEMA /\ f.type = "list")
           /\ ~(f.id = FMD_ROW_GROUPS /\ f.type = "list")
  <2>1. Walked(f) = walk BY <1>5, WalkedCases
  <2> QED BY <1>1, <1>5, <2>1
<1> QED BY <1>2, <1>3, <1>4, <1>5

-----------------------------------------------------------------------------
(* The index.                                                               *)

\* What is written is a token, and reads as it was written.
LEMMA TokensAre ==
  /\ \A delta \in Nat : \A type \in Types \ {"stop"} :
       /\ IsToken(Short(delta, type)) /\ Short(delta, type).t = "field"
       /\ Short(delta, type).a = delta /\ Short(delta, type).b = type
  /\ \A n \in Int : IsToken(Num(n)) /\ Num(n).t = "num" /\ Num(n).a = n
  /\ \A x : IsToken(Bin(x)) /\ Bin(x).t = "bin" /\ Bin(x).a = x
  /\ IsToken(Stop) /\ Stop.t = "stop"
  /\ \A x : IsToken(Token("map", x, 0)) /\ Token("map", x, 0).t = "map"
BY DEF IsToken, Short, Num, Bin, Stop, Token

\* The token at a place of two blobs one behind the other.
LEMMA ConcatAt ==
  ASSUME NEW s, IsBlob(s), NEW t, IsBlob(t)
  PROVE  /\ IsBlob(s \o t) /\ Len(s \o t) = Len(s) + Len(t)
         /\ \A p \in Nat : At(s \o t, p) = IF p < Len(s) THEN At(s, p) ELSE At(t, p - Len(s))
<1>0. PICK m \in Nat, n \in Nat : m = Len(s) /\ n = Len(t) BY BlobIs
<1>1. /\ IsBlob(s \o t) /\ Len(s \o t) = m + n
      /\ \A j \in 1 .. m + n : (s \o t)[j] = IF j <= m THEN s[j] ELSE t[j - m]
  <2>1. /\ IsBlob(s \o t) /\ Len(s \o t) = Len(s) + Len(t)
        /\ \A j \in 1 .. Len(s) + Len(t) : (s \o t)[j] = IF j <= Len(s) THEN s[j] ELSE t[j - Len(s)]
    BY BlobConcat
  <2> QED BY <1>0, <2>1
<1>2. ASSUME NEW p \in Nat PROVE At(s \o t, p) = IF p < m THEN At(s, p) ELSE At(t, p - m)
  <2>1. CASE p < m
    <3>1. p + 1 \in 1 .. m + n /\ p + 1 <= m /\ p < m + n BY <2>1
    <3> QED BY <1>0, <1>1, <2>1, <3>1 DEF At
  <2>2. CASE ~(p < m) /\ p < m + n
    <3>1. p + 1 \in 1 .. m + n /\ ~(p + 1 <= m) /\ p + 1 - m = (p - m) + 1 /\ p - m < n BY <2>2
    <3> QED BY <1>0, <1>1, <2>2, <3>1 DEF At
  <2>3. CASE ~(p < m) /\ ~(p < m + n)
    <3>1. ~(p - m < n) BY <2>3
    <3> QED BY <1>0, <1>1, <2>3, <3>1 DEF At
  <2> QED BY <2>1, <2>2, <2>3
<1> QED BY <1>0, <1>1, <1>2

\* Blobs of one, two, five and nine tokens.
LEMMA OneBlob ==
  ASSUME NEW a1, IsToken(a1)
  PROVE  IsBlob(<<a1>>) /\ Len(<<a1>>) = 1 /\ At(<<a1>>, 0) = a1
<1>1. <<a1>> \in Seq({a1}) /\ Len(<<a1>>) = 1 /\ <<a1>>[1] = a1 OBVIOUS
<1>2. \A j \in 1 .. 1 : IsToken(<<a1>>[j]) OBVIOUS
<1>3. IsBlob(<<a1>>) BY <1>1, <1>2, BlobOf
<1> QED BY <1>1, <1>3 DEF At

\* Two tokens.
LEMMA TwoBlob ==
  ASSUME NEW a1, NEW a2, IsToken(a1), IsToken(a2)
  PROVE  LET t == <<a1, a2>> IN IsBlob(t) /\ Len(t) = 2 /\ At(t, 0) = a1 /\ At(t, 1) = a2
<1> DEFINE t == <<a1, a2>>
<1>1. t \in Seq({a1, a2}) /\ Len(t) = 2 /\ t[1] = a1 /\ t[2] = a2 OBVIOUS
<1>2. \A j \in 1 .. 2 : IsToken(t[j]) OBVIOUS
<1>3. IsBlob(t) BY <1>1, <1>2, BlobOf
<1> HIDE DEF t
<1>4. IsBlob(t) /\ Len(t) = 2 /\ At(t, 0) = a1 /\ At(t, 1) = a2 BY <1>1, <1>3 DEF At
<1> QED BY <1>4 DEF t

\* Five.
LEMMA FiveBlob ==
  ASSUME NEW a1, NEW a2, NEW a3, NEW a4, NEW a5,
         IsToken(a1), IsToken(a2), IsToken(a3), IsToken(a4), IsToken(a5)
  PROVE  LET t == <<a1, a2, a3, a4, a5>> IN
         /\ IsBlob(t) /\ Len(t) = 5
         /\ At(t, 0) = a1 /\ At(t, 1) = a2 /\ At(t, 2) = a3 /\ At(t, 3) = a4 /\ At(t, 4) = a5
<1> DEFINE t == <<a1, a2, a3, a4, a5>>
<1>1. t \in Seq({a1, a2, a3, a4, a5}) /\ Len(t) = 5 OBVIOUS
<1>2. \A j \in 1 .. 5 : IsToken(t[j]) OBVIOUS
<1>3. IsBlob(t) BY <1>1, <1>2, BlobOf
<1>4. t[1] = a1 /\ t[2] = a2 /\ t[3] = a3 /\ t[4] = a4 /\ t[5] = a5 OBVIOUS
<1> HIDE DEF t
<1>5. /\ IsBlob(t) /\ Len(t) = 5
      /\ At(t, 0) = a1 /\ At(t, 1) = a2 /\ At(t, 2) = a3 /\ At(t, 3) = a4 /\ At(t, 4) = a5
  BY <1>1, <1>3, <1>4 DEF At
<1> QED BY <1>5 DEF t

\* Nine.
LEMMA NineBlob ==
  ASSUME NEW a1, NEW a2, NEW a3, NEW a4, NEW a5, NEW a6, NEW a7, NEW a8, NEW a9,
         IsToken(a1), IsToken(a2), IsToken(a3), IsToken(a4), IsToken(a5),
         IsToken(a6), IsToken(a7), IsToken(a8), IsToken(a9)
  PROVE  LET t == <<a1, a2, a3, a4, a5, a6, a7, a8, a9>> IN
         /\ IsBlob(t) /\ Len(t) = 9
         /\ At(t, 0) = a1 /\ At(t, 1) = a2 /\ At(t, 2) = a3 /\ At(t, 3) = a4 /\ At(t, 4) = a5
         /\ At(t, 5) = a6 /\ At(t, 6) = a7 /\ At(t, 7) = a8 /\ At(t, 8) = a9
<1> DEFINE t == <<a1, a2, a3, a4, a5, a6, a7, a8, a9>>
<1>1. t \in Seq({a1, a2, a3, a4, a5, a6, a7, a8, a9}) /\ Len(t) = 9 OBVIOUS
<1>2. \A j \in 1 .. 9 : IsToken(t[j]) OBVIOUS
<1>3. IsBlob(t) BY <1>1, <1>2, BlobOf
<1>4. /\ t[1] = a1 /\ t[2] = a2 /\ t[3] = a3 /\ t[4] = a4 /\ t[5] = a5
      /\ t[6] = a6 /\ t[7] = a7 /\ t[8] = a8 /\ t[9] = a9
  OBVIOUS
<1> HIDE DEF t
<1>5. /\ IsBlob(t) /\ Len(t) = 9
      /\ At(t, 0) = a1 /\ At(t, 1) = a2 /\ At(t, 2) = a3 /\ At(t, 3) = a4 /\ At(t, 4) = a5
      /\ At(t, 5) = a6 /\ At(t, 6) = a7 /\ At(t, 7) = a8 /\ At(t, 8) = a9
  BY <1>1, <1>3, <1>4 DEF At
<1> QED BY <1>5 DEF t

\* The fifteen tokens of the index.
LEMMA IndexIs ==
  ASSUME w.columns \in Int, w.row_groups \in Int, Len(w.schema) \in Int
  PROVE  /\ IsBlob(IndexBlob) /\ Len(IndexBlob) = 15
         /\ At(IndexBlob, 0) = Short(1, "int") /\ At(IndexBlob, 1) = Num(w.columns)
         /\ At(IndexBlob, 2) = Short(1, "int") /\ At(IndexBlob, 3) = Num(w.row_groups)
         /\ At(IndexBlob, 4) = Short(1, "bin") /\ At(IndexBlob, 5) = Bin(PackBytes(Shifted(w.chunk_offsets)))
         /\ At(IndexBlob, 6) = Short(1, "map") /\ At(IndexBlob, 7) = Token("map", FieldOffsets, 0)
         /\ At(IndexBlob, 8) = Short(1, "struct") /\ At(IndexBlob, 9) = Short(1, "int")
         /\ At(IndexBlob, 10) = Num(Len(w.schema)) /\ At(IndexBlob, 11) = Short(1, "bin")
         /\ At(IndexBlob, 12) = Bin(PackBytes(Shifted(w.schema))) /\ At(IndexBlob, 13) = Stop
         /\ At(IndexBlob, 14) = Stop
<1> DEFINE int1 == Short(1, "int")
           bin1 == Short(1, "bin")
           map1 == Short(1, "map")
           struct1 == Short(1, "struct")
           columns == Num(w.columns)
           groups == Num(w.row_groups)
           chunks == Bin(PackBytes(Shifted(w.chunk_offsets)))
           fields == Token("map", FieldOffsets, 0)
           size == Num(Len(w.schema))
           elements == Bin(PackBytes(Shifted(w.schema)))
           A == <<int1, columns, int1, groups, bin1, chunks, map1, fields, struct1>>
           B == <<int1, size, bin1, elements, Stop>>
           C == <<Stop>>
<1>1. IndexBlob = A \o B \o C BY DEF IndexBlob, SchemaLayout
<1>2. /\ IsToken(int1) /\ IsToken(bin1) /\ IsToken(map1) /\ IsToken(struct1) /\ IsToken(columns)
      /\ IsToken(groups) /\ IsToken(chunks) /\ IsToken(fields) /\ IsToken(size) /\ IsToken(elements)
      /\ IsToken(Stop)
  <2>1. 1 \in Nat /\ {"int", "bin", "map", "struct"} \subseteq Types \ {"stop"} BY DEF Types
  <2> QED BY <2>1, TokensAre
<1> HIDE DEF int1, bin1, map1, struct1, columns, groups, chunks, fields, size, elements
<1>3. /\ IsBlob(A) /\ Len(A) = 9
      /\ At(A, 0) = int1 /\ At(A, 1) = columns /\ At(A, 2) = int1 /\ At(A, 3) = groups /\ At(A, 4) = bin1
      /\ At(A, 5) = chunks /\ At(A, 6) = map1 /\ At(A, 7) = fields /\ At(A, 8) = struct1
  BY <1>2, NineBlob
<1>4. /\ IsBlob(B) /\ Len(B) = 5
      /\ At(B, 0) = int1 /\ At(B, 1) = size /\ At(B, 2) = bin1 /\ At(B, 3) = elements /\ At(B, 4) = Stop
  BY <1>2, FiveBlob
<1>5. IsBlob(C) /\ Len(C) = 1 /\ At(C, 0) = Stop BY <1>2, OneBlob
<1> HIDE DEF A, B, C
<1>6. /\ IsBlob(A \o B) /\ Len(A \o B) = 14
      /\ \A p \in Nat : At(A \o B, p) = IF p < 9 THEN At(A, p) ELSE At(B, p - 9)
  <2>1. /\ IsBlob(A \o B) /\ Len(A \o B) = Len(A) + Len(B)
        /\ \A p \in Nat : At(A \o B, p) = IF p < Len(A) THEN At(A, p) ELSE At(B, p - Len(A))
    BY <1>3, <1>4, ConcatAt
  <2>2. Len(A) = 9 /\ Len(B) = 5 /\ 9 + 5 = 14 BY <1>3, <1>4
  <2> QED BY <2>1, <2>2
<1>7. /\ IsBlob(IndexBlob) /\ Len(IndexBlob) = 15
      /\ \A p \in Nat : At(IndexBlob, p) = IF p < 14 THEN At(A \o B, p) ELSE At(C, p - 14)
  <2> DEFINE D == A \o B
  <2>0. IsBlob(D) /\ IsBlob(C) BY <1>5, <1>6
  <2> HIDE DEF D
  <2>1. /\ IsBlob(D \o C) /\ Len(D \o C) = Len(D) + Len(C)
        /\ \A p \in Nat : At(D \o C, p) = IF p < Len(D) THEN At(D, p) ELSE At(C, p - Len(D))
    BY <2>0, ConcatAt
  <2>2. Len(D) = 14 /\ Len(C) = 1 /\ 14 + 1 = 15 BY <1>5, <1>6 DEF D
  <2>3. /\ IsBlob(D \o C) /\ Len(D \o C) = 15
        /\ \A p \in Nat : At(D \o C, p) = IF p < 14 THEN At(D, p) ELSE At(C, p - 14)
    BY <2>1, <2>2
  <2> QED BY <1>1, <2>3 DEF D
<1>8. /\ At(IndexBlob, 0) = At(A, 0) /\ At(IndexBlob, 1) = At(A, 1) /\ At(IndexBlob, 2) = At(A, 2)
      /\ At(IndexBlob, 3) = At(A, 3) /\ At(IndexBlob, 4) = At(A, 4) /\ At(IndexBlob, 5) = At(A, 5)
      /\ At(IndexBlob, 6) = At(A, 6) /\ At(IndexBlob, 7) = At(A, 7) /\ At(IndexBlob, 8) = At(A, 8)
  BY <1>6, <1>7
<1>9. /\ At(IndexBlob, 9) = At(B, 0) /\ At(IndexBlob, 10) = At(B, 1) /\ At(IndexBlob, 11) = At(B, 2)
      /\ At(IndexBlob, 12) = At(B, 3) /\ At(IndexBlob, 13) = At(B, 4)
  BY <1>6, <1>7
<1>10. At(IndexBlob, 14) = At(C, 0) BY <1>7
<1> QED BY <1>3, <1>4, <1>5, <1>7, <1>8, <1>9, <1>10
        DEF int1, bin1, map1, struct1, columns, groups, chunks, fields, size, elements

\* A value of one token.
LEMMA TokenSkipped ==
  ASSUME NEW s, IsBlob(s), NEW o \in Nat, o <= Len(s), NEW type \in {"int", "bin", "map"}
  PROVE  Skip(s, o, type) = o + 1
<1>1. type \in Types /\ type # "bool" /\ type # "struct" /\ type # "list" BY DEF Types
<1>2. Inside(s, o, type) = o + 1 /\ Inner(s, o, type) = <<>> BY <1>1 DEF Inside, Inner
<1>3. Skip(s, o, type) = Ends(s)[[at |-> o + 1, todo |-> <<>>]] BY <1>1, <1>2, SkipUnfolds
<1>4. [at |-> o + 1, todo |-> <<>>] \in Calls
  <2>1. <<>> \in Seq(Todo) /\ o + 1 \in Nat OBVIOUS
  <2> QED BY <2>1, CallIs
<1>5. Ends(s)[[at |-> o + 1, todo |-> <<>>]] = o + 1 BY <1>4, EndsUnfold DEF Halted
<1> QED BY <1>3, <1>5

\* The field behind a header with a delta.
LEMMA ShortRead ==
  ASSUME NEW s, NEW o \in Nat, NEW last \in Int, NEW delta \in Nat, delta # 0, NEW type \in Types \ {"stop"},
         At(s, o) = Short(delta, type)
  PROVE  NextField(s, o, last) = [id |-> last + delta, type |-> type, at |-> o, value |-> o + 1]
BY TokensAre DEF NextField

\* A STOP ends the struct.
LEMMA StopRead ==
  ASSUME NEW s, NEW o \in Nat, NEW last \in Int, At(s, o) = Stop
  PROVE  NextField(s, o, last).type = "stop"
BY TokensAre DEF NextField

\* The index's fields.
IndexFields ==
  <<[id |-> 1, type |-> "int", at |-> 0, value |-> 1], [id |-> 2, type |-> "int", at |-> 2, value |-> 3],
    [id |-> 3, type |-> "bin", at |-> 4, value |-> 5], [id |-> 4, type |-> "map", at |-> 6, value |-> 7],
    [id |-> 5, type |-> "struct", at |-> 8, value |-> 9]>>

\* A cursor over the index meets them.
LEMMA IndexFieldsAre ==
  ASSUME w.columns \in Int, w.row_groups \in Int, Len(w.schema) \in Int
  PROVE  Fields(IndexBlob, 0) = IndexFields
<1>0. PICK s : s = IndexBlob OBVIOUS
<1>b. PICK o \in Nat : o = 0 OBVIOUS
<1>1. /\ IsBlob(s) /\ Len(s) = 15
      /\ At(s, 0) = Short(1, "int") /\ At(s, 2) = Short(1, "int") /\ At(s, 4) = Short(1, "bin")
      /\ At(s, 6) = Short(1, "map") /\ At(s, 8) = Short(1, "struct") /\ At(s, 9) = Short(1, "int")
      /\ At(s, 11) = Short(1, "bin") /\ At(s, 13) = Stop /\ At(s, 14) = Stop
  BY <1>0, IndexIs
<1>2. {"int", "bin", "map", "struct"} \subseteq Types \ {"stop"} BY DEF Types
<1>a. ASSUME NEW p \in Nat, NEW last \in Nat, NEW type \in {"int", "bin", "map", "struct"}, At(s, p) = Short(1, type)
      PROVE  NextField(s, p, last) = [id |-> last + 1, type |-> type, at |-> p, value |-> p + 1]
  <2>1. PICK delta \in Nat : delta = 1 OBVIOUS
  <2>2. delta # 0 /\ At(s, p) = Short(delta, type) /\ type \in Types \ {"stop"} /\ last \in Int
    BY <1>a, <1>2, <2>1
  <2>3. NextField(s, p, last) = [id |-> last + delta, type |-> type, at |-> p, value |-> p + 1]
    BY <2>2, ShortRead
  <2> QED BY <2>1, <2>3
<1>3. Skip(s, 1, "int") = 2 /\ Skip(s, 3, "int") = 4 /\ Skip(s, 5, "bin") = 6 /\ Skip(s, 7, "map") = 8
      /\ Skip(s, 10, "int") = 11 /\ Skip(s, 12, "bin") = 13
  <2>1. \A p \in 0 .. 15 : \A type \in {"int", "bin", "map"} : Skip(s, p, type) = p + 1
    <3>1. \A p \in 0 .. 15 : p \in Nat /\ p <= Len(s) BY <1>1
    <3> QED BY <1>1, <3>1, TokenSkipped
  <2> QED BY <2>1
<1>4. Skip(s, 9, "struct") = 14
  <2>1. /\ NextField(s, 9, 0) = [id |-> 0 + 1, type |-> "int", at |-> 9, value |-> 9 + 1]
        /\ NextField(s, 11, 0) = [id |-> 0 + 1, type |-> "bin", at |-> 11, value |-> 11 + 1]
    <3>1. NextField(s, 9, 0) = [id |-> 0 + 1, type |-> "int", at |-> 9, value |-> 9 + 1] BY <1>1, <1>a
    <3>2. NextField(s, 11, 0) = [id |-> 0 + 1, type |-> "bin", at |-> 11, value |-> 11 + 1] BY <1>1, <1>a
    <3> QED BY <3>1, <3>2
  <2>2. NextField(s, 13, 0).type = "stop" BY <1>1, StopRead
  <2>3. \A p \in 0 .. 15 : Skip(s, p, "struct") =
          IF NextField(s, p, 0).type = "stop" THEN p + 1
          ELSE Skip(s, Skip(s, NextField(s, p, 0).value, NextField(s, p, 0).type), "struct")
    <3>1. \A p \in 0 .. 15 : p \in Nat /\ p <= Len(s) /\ 0 \in Int BY <1>1
    <3> QED BY <1>1, <3>1, StructUnfolds
  <2>4. Skip(s, 9, "struct") = Skip(s, Skip(s, 10, "int"), "struct") BY <2>1, <2>3
  <2>5. Skip(s, 11, "struct") = Skip(s, Skip(s, 12, "bin"), "struct") BY <2>1, <2>3
  <2>6. Skip(s, 13, "struct") = 14 BY <2>2, <2>3
  <2> QED BY <1>3, <2>4, <2>5, <2>6
<1>5. /\ NextField(s, 0, 0) = [id |-> 1, type |-> "int", at |-> 0, value |-> 1]
      /\ NextField(s, 2, 1) = [id |-> 2, type |-> "int", at |-> 2, value |-> 3]
      /\ NextField(s, 4, 2) = [id |-> 3, type |-> "bin", at |-> 4, value |-> 5]
      /\ NextField(s, 6, 3) = [id |-> 4, type |-> "map", at |-> 6, value |-> 7]
      /\ NextField(s, 8, 4) = [id |-> 5, type |-> "struct", at |-> 8, value |-> 9]
  <2>1. /\ NextField(s, 0, 0) = [id |-> 0 + 1, type |-> "int", at |-> 0, value |-> 0 + 1]
        /\ NextField(s, 2, 1) = [id |-> 1 + 1, type |-> "int", at |-> 2, value |-> 2 + 1]
        /\ NextField(s, 4, 2) = [id |-> 2 + 1, type |-> "bin", at |-> 4, value |-> 4 + 1]
        /\ NextField(s, 6, 3) = [id |-> 3 + 1, type |-> "map", at |-> 6, value |-> 6 + 1]
        /\ NextField(s, 8, 4) = [id |-> 4 + 1, type |-> "struct", at |-> 8, value |-> 8 + 1]
    <3>1. NextField(s, 0, 0) = [id |-> 0 + 1, type |-> "int", at |-> 0, value |-> 0 + 1] BY <1>1, <1>a
    <3>2. NextField(s, 2, 1) = [id |-> 1 + 1, type |-> "int", at |-> 2, value |-> 2 + 1] BY <1>1, <1>a
    <3>3. NextField(s, 4, 2) = [id |-> 2 + 1, type |-> "bin", at |-> 4, value |-> 4 + 1] BY <1>1, <1>a
    <3>4. NextField(s, 6, 3) = [id |-> 3 + 1, type |-> "map", at |-> 6, value |-> 6 + 1] BY <1>1, <1>a
    <3>5. NextField(s, 8, 4) = [id |-> 4 + 1, type |-> "struct", at |-> 8, value |-> 8 + 1] BY <1>1, <1>a
    <3> QED BY <3>1, <3>2, <3>3, <3>4, <3>5
  <2> QED BY <2>1
<1>6. NextField(s, 14, 5).type = "stop" BY <1>1, StopRead
<1> DEFINE G == IndexFields
<1>7. /\ G \in [1 .. 5 -> FieldRecords]
      /\ G[1] = [id |-> 1, type |-> "int", at |-> 0, value |-> 1]
      /\ G[2] = [id |-> 2, type |-> "int", at |-> 2, value |-> 3]
      /\ G[3] = [id |-> 3, type |-> "bin", at |-> 4, value |-> 5]
      /\ G[4] = [id |-> 4, type |-> "map", at |-> 6, value |-> 7]
      /\ G[5] = [id |-> 5, type |-> "struct", at |-> 8, value |-> 9]
  <2>1. DOMAIN G = 1 .. 5 BY DEF IndexFields
  <2>2. /\ G[1] = [id |-> 1, type |-> "int", at |-> 0, value |-> 1]
        /\ G[2] = [id |-> 2, type |-> "int", at |-> 2, value |-> 3]
        /\ G[3] = [id |-> 3, type |-> "bin", at |-> 4, value |-> 5]
        /\ G[4] = [id |-> 4, type |-> "map", at |-> 6, value |-> 7]
        /\ G[5] = [id |-> 5, type |-> "struct", at |-> 8, value |-> 9]
    BY DEF IndexFields
  <2>3. G[1] \in FieldRecords /\ G[2] \in FieldRecords /\ G[3] \in FieldRecords
        /\ G[4] \in FieldRecords /\ G[5] \in FieldRecords
    BY <1>2, <2>2 DEF FieldRecords
  <2>4. \A j \in 1 .. 5 : G[j] \in FieldRecords BY <2>3
  <2>5. G = [j \in 1 .. 5 |-> G[j]] BY <2>1 DEF IndexFields
  <2> QED BY <2>2, <2>4, <2>5
<1> HIDE DEF G
<1>8. /\ Place(s, 0, G, 1) = 0 /\ Place(s, 0, G, 2) = 2 /\ Place(s, 0, G, 3) = 4 /\ Place(s, 0, G, 4) = 6
      /\ Place(s, 0, G, 5) = 8 /\ Place(s, 0, G, 6) = 14
      /\ IdBefore(G, 1) = 0 /\ IdBefore(G, 2) = 1 /\ IdBefore(G, 3) = 2 /\ IdBefore(G, 4) = 3
      /\ IdBefore(G, 5) = 4 /\ IdBefore(G, 6) = 5
  BY <1>3, <1>4, <1>7 DEF Place, IdBefore
<1>9. \A j \in 1 .. 5 : G[j].type # "stop" /\ G[j] = NextField(s, Place(s, 0, G, j), IdBefore(G, j))
  <2>1. /\ G[1].type # "stop" /\ G[1] = NextField(s, Place(s, 0, G, 1), IdBefore(G, 1))
        /\ G[2].type # "stop" /\ G[2] = NextField(s, Place(s, 0, G, 2), IdBefore(G, 2))
        /\ G[3].type # "stop" /\ G[3] = NextField(s, Place(s, 0, G, 3), IdBefore(G, 3))
        /\ G[4].type # "stop" /\ G[4] = NextField(s, Place(s, 0, G, 4), IdBefore(G, 4))
        /\ G[5].type # "stop" /\ G[5] = NextField(s, Place(s, 0, G, 5), IdBefore(G, 5))
    BY <1>5, <1>7, <1>8
  <2> QED BY <2>1
<1>10. IsFields(s, 0, G, 5)
  <2>1. NextField(s, Place(s, 0, G, 5 + 1), IdBefore(G, 5 + 1)).type = "stop" BY <1>6, <1>8
  <2> QED BY <1>7, <1>9, <2>1 DEF IsFields
<1>11. \E n \in Nat : IsFields(s, o, Fields(s, o), n) BY <1>1, FieldsExist
<1>12. PICK n \in Nat : IsFields(s, 0, Fields(s, 0), n) BY <1>b, <1>11
<1>13. Fields(s, 0) = G BY <1>1, <1>10, <1>12, FieldsUnique
<1> QED BY <1>0, <1>13 DEF G

-----------------------------------------------------------------------------
(* The new footer.                                                         *)

NewPointer ==
  [version |-> 1, index_start |-> IndexStart, index_length |-> Len(IndexBlob), fmd_length |-> FmdLength]

\* A parsed footer with a field: the header of its first field is inside.
LEMMA FirstHeader ==
  ASSUME IsBlob(Footer), Parsed(Footer), Len(Fields(Footer, 0)) # 0
  PROVE  /\ Fields(Footer, 0)[1] = NextField(Footer, 0, 0) /\ Fields(Footer, 0)[1].type = At(Footer, 0).b
         /\ At(Footer, 0).b \in Types \ {"stop"} /\ Id0 \in Int
         /\ OldHdrLen \in {1, 2} /\ OldHdrLen <= Len(Footer) /\ OldHdrLen = Fields(Footer, 0)[1].value
<1> DEFINE F == Fields(Footer, 0)
           n == Len(Fields(Footer, 0))
<1>0. PICK o \in Nat : o = 0 OBVIOUS
<1>1. n \in Nat /\ IsFields(Footer, o, F, n) BY <1>0, TopFields
<1>2. 1 \in 1 .. n BY <1>1
<1>3. F[1] = NextField(Footer, 0, 0) /\ F[1].type # "stop" BY <1>0, <1>1, <1>2 DEF IsFields, Place, IdBefore
<1>4. NextField(Footer, 0, 0) \in FieldRecords /\ NextField(Footer, 0, 0).value \in {0 + 1, 0 + 2}
      /\ (NextField(Footer, 0, 0).type = "stop" <=> At(Footer, 0).t # "field")
  BY NextFieldRead
<1>5. NextField(Footer, 0, 0).type = At(Footer, 0).b BY <1>3, <1>4 DEF NextField
<1> HIDE DEF F, n
<1>6. F[1].value <= Place(Footer, o, F, 1 + 1) /\ Place(Footer, o, F, 1 + 1) \in Nat
  <2>1. 1 + 1 \in 1 .. n + 1 BY <1>1, <1>2
  <2> QED BY <1>1, <1>2, <2>1, PlacesGrow
<1>7. Place(Footer, o, F, 1 + 1) < Skip(Footer, o, "struct") /\ Skip(Footer, o, "struct") <= Len(Footer)
  <2>1. 1 + 1 \in 1 .. n + 1 BY <1>1, <1>2
  <2>2. Skip(Footer, o, "struct") <= Len(Footer) BY <1>0 DEF Parsed
  <2> QED BY <1>1, <2>1, <2>2, StructEnds
<1>8. Skip(Footer, o, "struct") \in Nat /\ Len(Footer) \in Nat
  <2>1. "struct" \in Types BY DEF Types
  <2> QED BY <2>1, SkipForward, BlobIs
<1>9. OldHdrLen \in {1, 2} /\ OldHdrLen <= Len(Footer) BY <1>3, <1>4, <1>6, <1>7, <1>8 DEF OldHdrLen
<1> QED BY <1>3, <1>4, <1>5, <1>9 DEF F, OldHdrLen, Id0, FieldRecords

\* The new footer: the pointer's two tokens, the new header's two, the old footer
\* from behind its first header, moved by Shift, and the index.
LEMMA NewFooterIs ==
  ASSUME IsBlob(Footer), Parsed(Footer), Len(Fields(Footer, 0)) # 0,
         w.columns \in Int, w.row_groups \in Int, Len(w.schema) \in Int
  PROVE  /\ IsBlob(NewFooter) /\ Shift = 4 - OldHdrLen /\ Shift \in {2, 3}
         /\ FmdLength \in Nat /\ FmdLength >= 4 /\ FmdLength = Len(Footer) + Shift
         /\ Len(NewFooter) = FmdLength + 15
         /\ At(NewFooter, 0) = Short(FMD_POINTER, "bin") /\ At(NewFooter, 1) = Bin(NewPointer)
         /\ At(NewFooter, 2) = Token("field", 0, At(Footer, 0).b) /\ At(NewFooter, 3) = Num(Id0)
         /\ Agree(Footer, NewFooter, OldHdrLen, Len(Footer), Shift)
         /\ SubSeq(NewFooter, FmdLength + 1, Len(NewFooter)) = IndexBlob
<1> DEFINE P == Pointer
           H == NewHdr
           R == SubSeq(Footer, OldHdrLen + 1, Len(Footer))
           I == IndexBlob
           f0 == Token("field", 0, At(Footer, 0).b)
           t1 == Short(FMD_POINTER, "bin")
           t2 == Bin(NewPointer)
           t4 == Num(Id0)
<1>1. /\ At(Footer, 0).b \in Types \ {"stop"} /\ Id0 \in Int
      /\ OldHdrLen \in {1, 2} /\ OldHdrLen <= Len(Footer) /\ Len(Footer) \in Nat
  BY FirstHeader, BlobIs
<1>2. IsToken(f0) /\ IsToken(t1) /\ IsToken(t2) /\ IsToken(t4)
  <2>1. IsToken(f0) BY <1>1 DEF IsToken, Token
  <2>2. FMD_POINTER \in Nat /\ "bin" \in Types \ {"stop"} BY DEF FMD_POINTER, Types
  <2> QED BY <1>1, <2>1, <2>2, TokensAre
<1>3. P = <<t1, t2>> BY DEF Pointer, NewPointer
<1>4. H = <<f0, t4>> BY DEF NewHdr, Long, Num
<1> HIDE DEF f0, t1, t2, t4, P, H
<1>5. IsBlob(P) /\ Len(P) = 2 /\ At(P, 0) = t1 /\ At(P, 1) = t2 BY <1>2, <1>3, TwoBlob
<1>6. IsBlob(H) /\ Len(H) = 2 /\ At(H, 0) = f0 /\ At(H, 1) = t4 BY <1>2, <1>4, TwoBlob
<1>7. /\ Shift = 4 - OldHdrLen /\ Shift \in {2, 3} /\ FmdLength = Len(Footer) + Shift
      /\ FmdLength \in Nat /\ FmdLength = 4 + (Len(Footer) - OldHdrLen)
  <2>1. Shift = 2 + 2 - OldHdrLen BY <1>6 DEF Shift, PointerLen, H
  <2>2. Shift = 4 - OldHdrLen /\ Shift \in {2, 3} BY <1>1, <2>1
  <2>3. FmdLength = Len(Footer) + Shift BY DEF FmdLength
  <2> QED BY <1>1, <2>2, <2>3
<1>8. /\ IsBlob(R) /\ Len(R) = Len(Footer) - OldHdrLen
      /\ \A p \in 0 .. Len(Footer) - OldHdrLen - 1 : At(R, p) = At(Footer, p + OldHdrLen)
  <2>1. OldHdrLen \in 0 .. Len(Footer) BY <1>1
  <2>2. /\ IsBlob(R) /\ Len(R) = Len(Footer) - OldHdrLen
        /\ \A j \in 1 .. Len(Footer) - OldHdrLen : R[j] = Footer[OldHdrLen + j]
    BY <2>1, BlobBehind
  <2> HIDE DEF R
  <2>3. ASSUME NEW p \in 0 .. Len(Footer) - OldHdrLen - 1 PROVE At(R, p) = At(Footer, p + OldHdrLen)
    <3>1. p + 1 \in 1 .. Len(Footer) - OldHdrLen /\ OldHdrLen + (p + 1) = p + OldHdrLen + 1
          /\ p < Len(Footer) - OldHdrLen /\ p + OldHdrLen < Len(Footer)
      BY <1>1
    <3> QED BY <2>2, <3>1 DEF At
  <2> QED BY <2>2, <2>3
<1>9. IsBlob(I) /\ Len(I) = 15 BY IndexIs
<1>10. NewFooter = P \o H \o R \o I BY DEF NewFooter, P, H
<1>11. PICK p4 : p4 = P \o H OBVIOUS
<1> HIDE DEF R, I
<1>12. /\ IsBlob(p4) /\ Len(p4) = 4 /\ At(p4, 0) = t1 /\ At(p4, 1) = t2 /\ At(p4, 2) = f0 /\ At(p4, 3) = t4
  <2>1. /\ IsBlob(P \o H) /\ Len(P \o H) = Len(P) + Len(H)
        /\ \A p \in Nat : At(P \o H, p) = IF p < Len(P) THEN At(P, p) ELSE At(H, p - Len(P))
    BY <1>5, <1>6, ConcatAt
  <2>2. IsBlob(p4) /\ Len(p4) = 4 /\ \A p \in Nat : At(p4, p) = IF p < 2 THEN At(P, p) ELSE At(H, p - 2)
    BY <1>5, <1>6, <1>11, <2>1
  <2>3. At(p4, 0) = At(P, 0) /\ At(p4, 1) = At(P, 1) /\ At(p4, 2) = At(H, 0) /\ At(p4, 3) = At(H, 1) BY <2>2
  <2> QED BY <1>5, <1>6, <2>2, <2>3
<1>13. PICK q : q = p4 \o R OBVIOUS
<1>14. /\ IsBlob(q) /\ Len(q) = FmdLength
       /\ \A p \in Nat : At(q, p) = IF p < 4 THEN At(p4, p) ELSE At(R, p - 4)
  <2>1. /\ IsBlob(p4 \o R) /\ Len(p4 \o R) = Len(p4) + Len(R)
        /\ \A p \in Nat : At(p4 \o R, p) = IF p < Len(p4) THEN At(p4, p) ELSE At(R, p - Len(p4))
    BY <1>8, <1>12, ConcatAt
  <2>2. Len(p4) + Len(R) = FmdLength BY <1>7, <1>8, <1>12
  <2> QED BY <1>12, <1>13, <2>1, <2>2
<1>15. /\ IsBlob(NewFooter) /\ Len(NewFooter) = FmdLength + 15
       /\ \A p \in Nat : At(NewFooter, p) = IF p < FmdLength THEN At(q, p) ELSE At(I, p - FmdLength)
  <2>1. /\ IsBlob(q \o I) /\ Len(q \o I) = Len(q) + Len(I)
        /\ \A p \in Nat : At(q \o I, p) = IF p < Len(q) THEN At(q, p) ELSE At(I, p - Len(q))
    BY <1>9, <1>14, ConcatAt
  <2>2. NewFooter = q \o I BY <1>10, <1>11, <1>13
  <2> QED BY <1>9, <1>14, <2>1, <2>2
<1>16. /\ At(NewFooter, 0) = t1 /\ At(NewFooter, 1) = t2 /\ At(NewFooter, 2) = f0 /\ At(NewFooter, 3) = t4
       /\ FmdLength >= 4
  <2>1. FmdLength >= 4 BY <1>1, <1>7
  <2>2. \A p \in 0 .. 3 : At(NewFooter, p) = At(p4, p)
    <3>1. \A p \in 0 .. 3 : p \in Nat /\ p < FmdLength /\ p < 4 BY <1>7, <2>1
    <3> QED BY <1>14, <1>15, <3>1
  <2> QED BY <1>12, <2>1, <2>2
<1>17. Agree(Footer, NewFooter, OldHdrLen, Len(Footer), Shift)
  <2>1. ASSUME NEW p \in OldHdrLen .. Len(Footer) - 1 PROVE At(NewFooter, p + Shift) = At(Footer, p)
    <3>1. /\ p + Shift \in Nat /\ p + Shift < FmdLength /\ ~(p + Shift < 4) /\ p + Shift - 4 = p - OldHdrLen
          /\ p - OldHdrLen \in 0 .. Len(Footer) - OldHdrLen - 1 /\ (p - OldHdrLen) + OldHdrLen = p
      BY <1>1, <1>7
    <3>2. At(NewFooter, p + Shift) = At(q, p + Shift) BY <1>15, <3>1
    <3>3. At(q, p + Shift) = At(R, p - OldHdrLen)
      <4>1. PICK x \in Nat : x = p + Shift BY <3>1
      <4>2. At(q, x) = At(R, x - 4) BY <1>14, <3>1, <4>1
      <4>3. x - 4 = p - OldHdrLen BY <1>1, <1>7, <4>1
      <4> QED BY <4>1, <4>2, <4>3
    <3>4. At(R, p - OldHdrLen) = At(Footer, p) BY <1>8, <3>1
    <3> QED BY <3>2, <3>3, <3>4
  <2>2. Len(Footer) <= Len(Footer) /\ Len(Footer) + Shift <= Len(NewFooter) BY <1>1, <1>7, <1>15
  <2> QED BY <2>1, <2>2 DEF Agree
<1>18. SubSeq(NewFooter, FmdLength + 1, Len(NewFooter)) = I
  <2> DEFINE T == SubSeq(NewFooter, FmdLength + 1, Len(NewFooter))
  <2>1. FmdLength \in 0 .. Len(NewFooter) BY <1>7, <1>15
  <2>2. /\ IsBlob(T) /\ Len(T) = Len(NewFooter) - FmdLength
        /\ \A j \in 1 .. Len(NewFooter) - FmdLength : T[j] = NewFooter[FmdLength + j]
    BY <1>15, <2>1, BlobBehind
  <2> HIDE DEF T
  <2>3. IsBlob(T) /\ Len(T) = 15 /\ \A j \in 1 .. 15 : T[j] = NewFooter[FmdLength + j]
    <3>1. Len(NewFooter) - FmdLength = 15 BY <1>7, <1>15
    <3> QED BY <2>2, <3>1
  <2>4. ASSUME NEW j \in 1 .. 15 PROVE T[j] = I[j]
    <3>1. PICK m \in Nat : m = FmdLength BY <1>7
    <3>2. PICK x \in Nat : x = m + (j - 1) OBVIOUS
    <3>3. /\ ~(x < m) /\ x - m = j - 1 /\ x < m + 15 /\ x + 1 = m + j /\ (j - 1) + 1 = j /\ j - 1 < 15
      BY <3>2
    <3>4. At(NewFooter, x) = At(I, x - m) BY <1>15, <3>1, <3>3
    <3>5. At(I, j - 1) = I[j] BY <1>9, <3>3 DEF At
    <3>6. At(NewFooter, x) = NewFooter[m + j] BY <1>15, <3>1, <3>3 DEF At
    <3>7. T[j] = NewFooter[m + j] BY <2>3, <3>1
    <3> QED BY <3>3, <3>4, <3>5, <3>6, <3>7
  <2>5. T = I
    <3>1. T = [j \in 1 .. Len(T) |-> T[j]] /\ I = [j \in 1 .. Len(I) |-> I[j]] BY <1>9, <2>3 DEF IsBlob
    <3> QED BY <1>9, <2>3, <2>4, <3>1, SMTT(30)
  <2> QED BY <2>5 DEF T
<1> QED BY <1>7, <1>15, <1>16, <1>17, <1>18 DEF f0, t1, t2, t4, I

\* Its fields: the pointer, the first field behind its new header, the others moved.
NewFields ==
  [j \in 1 .. Len(Fields(Footer, 0)) + 1 |->
     IF j = 1 THEN [id |-> FMD_POINTER, type |-> "bin", at |-> 0, value |-> 1]
     ELSE [Moved(Fields(Footer, 0)[j - 1], Shift) EXCEPT !.at = IF j = 2 THEN 2 ELSE @]]

\* A cursor over the new footer meets them, and skips their values as before.
LEMMA NewFieldsAre ==
  ASSUME IsBlob(Footer), Parsed(Footer), Len(Fields(Footer, 0)) # 0,
         w.columns \in Int, w.row_groups \in Int, Len(w.schema) \in Int
  PROVE  /\ Fields(NewFooter, 0) = NewFields
         /\ \A j \in 1 .. Len(Fields(Footer, 0)) :
              LET f == Fields(Footer, 0)[j] IN
              /\ f.value >= OldHdrLen /\ f.value <= Skip(Footer, f.value, f.type)
              /\ Skip(Footer, f.value, f.type) \in Nat /\ Skip(Footer, f.value, f.type) <= Len(Footer)
              /\ Skip(NewFooter, f.value + Shift, f.type) = Skip(Footer, f.value, f.type) + Shift
<1>0. PICK s, t : s = Footer /\ t = NewFooter OBVIOUS
<1>1. PICK h \in Nat, d \in Nat, L \in Nat : h = OldHdrLen /\ d = Shift /\ L = Len(s)
  BY <1>0, FirstHeader, NewFooterIs, BlobIs
<1>2. /\ IsBlob(s) /\ IsBlob(t) /\ Agree(s, t, h, L, d) /\ h \in {1, 2} /\ d = 4 - h /\ h <= L /\ Len(t) >= 4
      /\ At(t, 0) = Short(FMD_POINTER, "bin") /\ At(t, 2) = Token("field", 0, At(s, 0).b) /\ At(t, 3) = Num(Id0)
  <2>1. h \in {1, 2} /\ h <= L BY <1>0, <1>1, FirstHeader
  <2>2. /\ IsBlob(NewFooter) /\ Shift = 4 - OldHdrLen /\ FmdLength \in Nat /\ FmdLength >= 4
        /\ Len(NewFooter) = FmdLength + 15
        /\ At(NewFooter, 0) = Short(FMD_POINTER, "bin")
        /\ At(NewFooter, 2) = Token("field", 0, At(Footer, 0).b) /\ At(NewFooter, 3) = Num(Id0)
        /\ Agree(Footer, NewFooter, OldHdrLen, Len(Footer), Shift)
    BY NewFooterIs
  <2>3. Len(NewFooter) >= 4 BY <2>2
  <2> QED BY <1>0, <1>1, <2>1, <2>2, <2>3
<1> DEFINE F == Fields(s, 0)
           n == Len(F)
           E == Skip(s, 0, "struct")
<1>3. n \in Nat /\ n # 0 /\ F[1] = NextField(s, 0, 0) /\ F[1].type = At(s, 0).b /\ F[1].value = h /\ F[1].id = Id0
      /\ At(s, 0).b \in Types \ {"stop"} /\ Id0 \in Int
  BY <1>0, <1>1, FirstHeader, TopFields DEF Id0
<1>4. PICK o \in Nat : o = 0 OBVIOUS
<1>5. IsFields(s, o, F, n) /\ \A j \in 1 .. n : F[j] \in FieldRecords /\ F[j].value >= h /\ F[j].value \in Nat
  <2>1. IsFields(s, 0, F, n) /\ \A j \in 1 .. n : F[j] \in FieldRecords /\ F[j].value >= NextField(s, 0, 0).value
                                                  /\ F[j].value \in Nat
    BY <1>2, TopFields
  <2> QED BY <1>3, <1>4, <2>1
<1>6. E \in Nat /\ E <= L /\ E = Skip(s, o, "struct")
  <2>1. "struct" \in Types BY DEF Types
  <2>2. Skip(Footer, 0, "struct") <= Len(Footer) BY DEF Parsed
  <2>3. E \in Nat BY <1>2, <2>1, SkipForward
  <2> QED BY <1>0, <1>1, <1>4, <2>2, <2>3
<1> HIDE DEF F, n, E
<1>7. /\ \A j \in 1 .. n + 1 : Place(s, o, F, j) \in Nat /\ Place(s, o, F, j) < E /\ IdBefore(F, j) \in Int
      /\ E = Place(s, o, F, n + 1) + 1
      /\ \A j \in 1 .. n : /\ F[j].at = Place(s, o, F, j) /\ F[j].value <= Place(s, o, F, j + 1)
                           /\ Place(s, o, F, j + 1) = Skip(s, F[j].value, F[j].type)
                           /\ F[j].type \in Types \ {"stop"} /\ F[j].id \in Int
  <2>1. Skip(s, o, "struct") <= Len(s) BY <1>1, <1>6
  <2>2. /\ \A j \in 1 .. n + 1 : Place(s, o, F, j) < Skip(s, o, "struct")
        /\ Skip(s, o, "struct") = Place(s, o, F, n + 1) + 1
    BY <1>2, <1>5, <2>1, StructEnds
  <2>3. /\ \A j \in 1 .. n + 1 : Place(s, o, F, j) \in Nat
        /\ \A j \in 1 .. n + 1 : IdBefore(F, j) \in Int
        /\ \A j \in 1 .. n : /\ F[j].at = Place(s, o, F, j) /\ F[j].value <= Place(s, o, F, j + 1)
                             /\ Place(s, o, F, j + 1) = Skip(s, F[j].value, F[j].type)
                             /\ F[j].type \in Types \ {"stop"} /\ F[j].id \in Int
    BY <1>2, <1>5, PlacesGrow
  <2> QED BY <1>6, <2>2, <2>3
<1>8. ASSUME NEW j \in 1 .. n
      PROVE  /\ F[j].value <= Place(s, o, F, j + 1) /\ Place(s, o, F, j + 1) = Skip(s, F[j].value, F[j].type)
             /\ Place(s, o, F, j + 1) \in Nat /\ Place(s, o, F, j + 1) <= L
             /\ Skip(t, F[j].value + d, F[j].type) = Place(s, o, F, j + 1) + d
  <2>1. j + 1 \in 1 .. n + 1 BY <1>3
  <2>2. /\ F[j].value <= Place(s, o, F, j + 1) /\ Place(s, o, F, j + 1) = Skip(s, F[j].value, F[j].type)
        /\ Place(s, o, F, j + 1) \in Nat /\ Place(s, o, F, j + 1) < E
    BY <1>7, <2>1
  <2>3. Skip(s, F[j].value, F[j].type) <= L /\ F[j].type \in Types BY <1>6, <1>7, <2>2
  <2>4. Skip(t, F[j].value + d, F[j].type) = Skip(s, F[j].value, F[j].type) + d
    <3>1. PICK p \in Nat, type \in Types : p = F[j].value /\ type = F[j].type BY <1>5, <2>3
    <3>2. p >= h /\ Skip(s, p, type) <= L BY <1>5, <2>3, <3>1
    <3>3. Skip(t, p + d, type) = Skip(s, p, type) + d BY <1>2, <3>2, SkipMoved
    <3> QED BY <3>1, <3>3
  <2> QED BY <2>2, <2>3, <2>4
<1> DEFINE f1 == [id |-> FMD_POINTER, type |-> "bin", at |-> 0, value |-> 1]
           f2 == [id |-> Id0, type |-> At(s, 0).b, at |-> 2, value |-> 4]
           G == [j \in 1 .. n + 1 |-> IF j = 1 THEN f1 ELSE IF j = 2 THEN f2 ELSE Moved(F[j - 1], d)]
<1>9. n + 1 \in Nat /\ 1 \in 1 .. n + 1 /\ 2 \in 1 .. n + 1 BY <1>3
<1>10. /\ f1 \in FieldRecords /\ f2 \in FieldRecords /\ f2.type # "stop"
       /\ \A j \in 1 .. n : Moved(F[j], d) \in FieldRecords /\ F[j].at \in Nat
  <2>1. f1 \in FieldRecords BY DEF FieldRecords, FMD_POINTER, Types
  <2>2. f2 \in FieldRecords /\ f2.type # "stop" BY <1>3 DEF FieldRecords
  <2>3. \A j \in 1 .. n : Moved(F[j], d) \in FieldRecords /\ F[j].at \in Nat BY <1>5 DEF FieldRecords, Moved
  <2> QED BY <2>1, <2>2, <2>3
<1> HIDE DEF f1, f2
<1>11. G \in [1 .. n + 1 -> FieldRecords]
  <2>1. ASSUME NEW j \in 1 .. n + 1 PROVE G[j] \in FieldRecords
    <3>1. j = 1 \/ j = 2 \/ j - 1 \in 1 .. n BY <1>3
    <3> QED BY <1>10, <3>1
  <2> QED BY <2>1
<1>12. /\ G[1] = f1 /\ G[2] = f2 /\ \A j \in 3 .. n + 1 : G[j] = Moved(F[j - 1], d) BY <1>9
<1>13. \A j \in 1 .. n : /\ G[j + 1].id = F[j].id /\ G[j + 1].type = F[j].type /\ G[j + 1].value = F[j].value + d
                         /\ j # 1 => G[j + 1] = Moved(F[j], d)
  <2>1. ASSUME NEW j \in 1 .. n, j = 1
        PROVE  G[j + 1].id = F[j].id /\ G[j + 1].type = F[j].type /\ G[j + 1].value = F[j].value + d
    <3>1. j + 1 = 2 /\ h + d = 4 BY <1>2, <2>1
    <3>2. f2.id = Id0 /\ f2.type = At(s, 0).b /\ f2.value = 4 BY DEF f2
    <3> HIDE DEF G
    <3> QED BY <1>3, <1>12, <2>1, <3>1, <3>2
  <2>2. ASSUME NEW j \in 1 .. n, j # 1
        PROVE  /\ G[j + 1].id = F[j].id /\ G[j + 1].type = F[j].type /\ G[j + 1].value = F[j].value + d
               /\ G[j + 1] = Moved(F[j], d)
    <3>1. j + 1 \in 3 .. n + 1 /\ (j + 1) - 1 = j BY <1>3, <2>2
    <3>2. G[j + 1] = Moved(F[j], d) BY <1>12, <3>1
    <3> HIDE DEF G
    <3> QED BY <3>2 DEF Moved
  <2> QED BY <2>1, <2>2
<1> HIDE DEF G
<1>14. Place(t, o, G, 1) = 0 /\ IdBefore(G, 1) = 0 /\ Place(t, o, G, 2) = 2 /\ IdBefore(G, 2) = FMD_POINTER
  <2>1. f1.value = 1 /\ f1.type = "bin" /\ f1.id = FMD_POINTER BY DEF f1
  <2>2. PICK p \in Nat : p = 1 OBVIOUS
  <2>3. Skip(t, p, "bin") = p + 1 BY <1>2, <2>2, TokenSkipped
  <2>4. Skip(t, 1, "bin") = 2 BY <2>2, <2>3
  <2> QED BY <1>4, <1>12, <2>1, <2>4 DEF Place, IdBefore
<1>15. ASSUME NEW j \in 1 .. n
       PROVE  Place(t, o, G, j + 2) = Place(s, o, F, j + 1) + d /\ IdBefore(G, j + 2) = IdBefore(F, j + 1)
  <2>1. j + 2 # 1 /\ (j + 2) - 1 = j + 1 /\ j + 1 # 1 /\ (j + 1) - 1 = j OBVIOUS
  <2>2. Place(t, o, G, j + 2) = Skip(t, G[j + 1].value, G[j + 1].type) /\ IdBefore(G, j + 2) = G[j + 1].id
    BY <2>1 DEF Place, IdBefore
  <2>3. IdBefore(F, j + 1) = F[j].id BY <2>1 DEF IdBefore
  <2> QED BY <1>8, <1>13, <2>2, <2>3
<1>16. f1 = NextField(t, 0, 0) /\ f2 = NextField(t, 2, FMD_POINTER)
  <2>1. PICK p \in Nat, last \in Int, delta \in Nat : p = 0 /\ last = 0 /\ delta = FMD_POINTER
    BY DEF FMD_POINTER
  <2>2. At(t, p) = Short(delta, "bin") /\ delta # 0 /\ "bin" \in Types \ {"stop"} BY <1>2, <2>1 DEF FMD_POINTER, Types
  <2>3. NextField(t, p, last) = [id |-> last + delta, type |-> "bin", at |-> p, value |-> p + 1]
    <3>1. At(t, p).t = "field" /\ At(t, p).a = delta /\ At(t, p).b = "bin" BY <2>2, TokensAre
    <3> QED BY <2>2, <3>1 DEF NextField
  <2>4. last + delta = FMD_POINTER /\ p + 1 = 1 BY <2>1
  <2>5. f1 = NextField(t, 0, 0) BY <2>1, <2>3, <2>4 DEF f1
  <2>6. /\ At(t, 2).t = "field" /\ At(t, 2).a = 0 /\ At(t, 2).b = At(s, 0).b
        /\ At(t, 3).t = "num" /\ At(t, 3).a = Id0
    BY <1>2, <1>3, TokensAre DEF Token
  <2>7. NumAt(t, 2 + 1) = Id0 BY <2>6 DEF NumAt
  <2>8. NextField(t, 2, FMD_POINTER) = [id |-> NumAt(t, 2 + 1), type |-> At(t, 2).b, at |-> 2, value |-> 2 + 2]
    BY <2>6 DEF NextField
  <2> QED BY <2>5, <2>6, <2>7, <2>8 DEF f2
<1>17. ASSUME NEW j \in 2 .. n + 1
       PROVE  NextField(t, Place(s, o, F, j) + d, IdBefore(F, j))
                = Moved(NextField(s, Place(s, o, F, j), IdBefore(F, j)), d)
  <2> DEFINE p == Place(s, o, F, j)
             last == IdBefore(F, j)
  <2>1. p \in Nat /\ p < E /\ last \in Int BY <1>7
  <2>2. p >= h
    <3>1. j - 1 \in 1 .. n /\ (j - 1) + 1 = j BY <1>3
    <3>2. F[j - 1].value <= Place(s, o, F, (j - 1) + 1) /\ F[j - 1].value >= h /\ F[j - 1].value \in Nat
      BY <1>5, <1>7, <3>1
    <3> QED BY <2>1, <3>1, <3>2
  <2>3. NextField(s, p, last).value <= L
    <3>1. CASE j = n + 1
      <4>1. NextField(s, p, last).type = "stop" BY <1>5, <3>1 DEF IsFields
      <4> HIDE DEF p, last
      <4>2. NextField(s, p, last).value = p + 1 BY <1>2, <2>1, <4>1, NextFieldRead, SMTT(30)
      <4> QED BY <1>6, <2>1, <4>2
    <3>2. CASE j # n + 1
      <4>1. j \in 1 .. n /\ j + 1 \in 1 .. n + 1 BY <1>3, <3>2
      <4>2. F[j] = NextField(s, p, last) BY <1>5, <4>1 DEF IsFields
      <4>3. F[j].value <= Place(s, o, F, j + 1) /\ Place(s, o, F, j + 1) <= L /\ F[j].value \in Nat
            /\ Place(s, o, F, j + 1) \in Nat
        BY <1>5, <1>8, <4>1
      <4> QED BY <4>2, <4>3
    <3> QED BY <3>1, <3>2
  <2> HIDE DEF p, last
  <2>4. NextField(t, p + d, last) = Moved(NextField(s, p, last), d) BY <1>2, <2>1, <2>2, <2>3, FieldMoved
  <2> QED BY <2>4 DEF p, last
<1>18. ASSUME NEW j \in 1 .. n + 1
       PROVE  G[j].type # "stop" /\ G[j] = NextField(t, Place(t, o, G, j), IdBefore(G, j))
  <2>1. CASE j = 1
    <3>1. f1.type # "stop" BY DEF f1
    <3> QED BY <1>12, <1>14, <1>16, <2>1, <3>1
  <2>2. CASE j = 2 BY <1>10, <1>12, <1>14, <1>16, <2>2
  <2>3. CASE j # 1 /\ j # 2
    <3>1. PICK i \in 1 .. n : i + 1 = j - 1 /\ i + 2 = j /\ j - 1 \in 2 .. n + 1 /\ j - 1 \in 1 .. n
      <4>1. j - 2 \in 1 .. n /\ (j - 2) + 1 = j - 1 /\ (j - 2) + 2 = j /\ j - 1 \in 2 .. n + 1 /\ j - 1 \in 1 .. n
        BY <1>3, <2>3
      <4> QED BY <4>1
    <3> DEFINE l == j - 1
    <3>2. Place(t, o, G, j) = Place(s, o, F, l) + d /\ IdBefore(G, j) = IdBefore(F, l) BY <1>15, <3>1
    <3>3. NextField(t, Place(s, o, F, l) + d, IdBefore(F, l)) = Moved(NextField(s, Place(s, o, F, l), IdBefore(F, l)), d)
      BY <1>17, <3>1
    <3>4. F[l] = NextField(s, Place(s, o, F, l), IdBefore(F, l)) /\ F[l].type # "stop"
      BY <1>5, <3>1 DEF IsFields
    <3>5. G[j] = Moved(F[l], d)
      <4>1. l \in 1 .. n /\ l # 1 /\ l + 1 = j BY <2>3, <3>1
      <4> HIDE DEF l
      <4> QED BY <1>13, <4>1
    <3>6. Moved(F[l], d).type = F[l].type BY DEF Moved
    <3> HIDE DEF l
    <3> QED BY <3>2, <3>3, <3>4, <3>5, <3>6
  <2> QED BY <2>1, <2>2, <2>3
<1>19. NextField(t, Place(t, o, G, (n + 1) + 1), IdBefore(G, (n + 1) + 1)).type = "stop"
  <2>1. n \in 1 .. n /\ (n + 1) + 1 = n + 2 /\ n + 1 \in 2 .. n + 1 BY <1>3
  <2>2. Place(t, o, G, n + 2) = Place(s, o, F, n + 1) + d /\ IdBefore(G, n + 2) = IdBefore(F, n + 1) BY <1>15, <2>1
  <2>3. NextField(s, Place(s, o, F, n + 1), IdBefore(F, n + 1)).type = "stop" BY <1>5 DEF IsFields
  <2>4. PICK x : x = NextField(s, Place(s, o, F, n + 1), IdBefore(F, n + 1)) OBVIOUS
  <2>5. NextField(t, Place(s, o, F, n + 1) + d, IdBefore(F, n + 1)) = Moved(x, d) BY <1>17, <2>1, <2>4
  <2>6. Moved(x, d).type = "stop" BY <2>3, <2>4 DEF Moved
  <2> QED BY <2>1, <2>2, <2>5, <2>6
<1>20. IsFields(t, o, G, n + 1) BY <1>9, <1>11, <1>18, <1>19 DEF IsFields
<1>21. Fields(t, o) = G
  <2>1. PICK m \in Nat : IsFields(t, o, Fields(t, o), m) BY <1>2, FieldsExist
  <2> QED BY <1>2, <1>20, <2>1, FieldsUnique
<1>22. G = NewFields
  <2>1. NewFields = [j \in 1 .. n + 1 |-> IF j = 1 THEN f1
                       ELSE [Moved(F[j - 1], d) EXCEPT !.at = IF j = 2 THEN 2 ELSE @]]
    BY <1>0, <1>1 DEF NewFields, F, n, f1
  <2>2. ASSUME NEW j \in 1 .. n + 1
        PROVE  G[j] = IF j = 1 THEN f1 ELSE [Moved(F[j - 1], d) EXCEPT !.at = IF j = 2 THEN 2 ELSE @]
    <3>1. CASE j = 1 BY <1>12, <3>1
    <3>2. CASE j = 2
      <4>1. [Moved(F[1], d) EXCEPT !.at = 2] = [id |-> F[1].id, type |-> F[1].type, at |-> 2, value |-> F[1].value + d]
        BY DEF Moved
      <4>2. F[1].value + d = 4 BY <1>2, <1>3
      <4>3. [Moved(F[1], d) EXCEPT !.at = 2] = f2 BY <1>3, <4>1, <4>2 DEF f2
      <4> QED BY <1>12, <3>2, <4>3
    <3>3. CASE j # 1 /\ j # 2
      <4>1. j \in 3 .. n + 1 BY <1>3, <3>3
      <4>2. [Moved(F[j - 1], d) EXCEPT !.at = @] = Moved(F[j - 1], d) BY DEF Moved
      <4> QED BY <1>12, <3>3, <4>1, <4>2
    <3> QED BY <3>1, <3>2, <3>3
  <2>3. G = [j \in 1 .. n + 1 |-> G[j]] BY <1>11
  <2> QED BY <2>1, <2>2, <2>3
<1>23. ASSUME NEW j \in 1 .. n
       PROVE  /\ F[j].value >= h /\ F[j].value <= Skip(s, F[j].value, F[j].type)
              /\ Skip(s, F[j].value, F[j].type) \in Nat /\ Skip(s, F[j].value, F[j].type) <= L
              /\ Skip(t, F[j].value + d, F[j].type) = Skip(s, F[j].value, F[j].type) + d
  BY <1>5, <1>8
<1> QED BY <1>0, <1>1, <1>4, <1>21, <1>22, <1>23 DEF F, n

\* The value of a field, moved.
LEMMA ValueMoved ==
  ASSUME IsBlob(Footer), Parsed(Footer), Len(Fields(Footer, 0)) # 0,
         w.columns \in Int, w.row_groups \in Int, Len(w.schema) \in Int, NEW j \in 1 .. Len(Fields(Footer, 0))
  PROVE  LET f == Fields(Footer, 0)[j]
             e == Skip(Footer, f.value, f.type) IN
         /\ f.value \in Nat /\ e \in Nat /\ f.value <= e /\ e <= Len(Footer) /\ f.value >= OldHdrLen
         /\ SubSeq(NewFooter, f.value + Shift + 1, e + Shift) = ValueOf(Footer, f)
         /\ Skip(NewFooter, f.value + Shift, f.type) = e + Shift
         /\ Len(ValueOf(Footer, f)) = e - f.value
<1> DEFINE f == Fields(Footer, 0)[j]
           v == f.value
           e == Skip(Footer, f.value, f.type)
<1>1. /\ v \in Nat /\ e \in Nat /\ v >= OldHdrLen /\ v <= e /\ e <= Len(Footer)
      /\ Skip(NewFooter, v + Shift, f.type) = e + Shift
  <2>1. v \in Nat BY TopFields
  <2> QED BY <2>1, NewFieldsAre
<1>2. /\ IsBlob(NewFooter) /\ Agree(Footer, NewFooter, OldHdrLen, Len(Footer), Shift) /\ Shift \in Nat
      /\ OldHdrLen \in Nat /\ Len(Footer) \in Nat
  <2>1. OldHdrLen \in Nat BY FirstHeader
  <2>2. Shift \in Nat BY NewFooterIs
  <2> QED BY <2>1, <2>2, NewFooterIs, BlobIs
<1>3. PICK d \in Nat, h \in Nat, L \in Nat, a \in Nat, b \in Nat :
        d = Shift /\ h = OldHdrLen /\ L = Len(Footer) /\ a = v /\ b = e
  BY <1>1, <1>2
<1>s. PICK s, t : s = Footer /\ t = NewFooter OBVIOUS
<1>4. /\ IsBlob(s) /\ IsBlob(t) /\ h \in Nat /\ L \in Nat /\ d \in Nat /\ a \in Nat /\ b \in Nat
      /\ Agree(s, t, h, L, d) /\ h <= a /\ a <= b /\ b <= L
  BY <1>1, <1>2, <1>3, <1>s
<1>5. SubSeq(t, a + d + 1, b + d) = SubSeq(s, a + 1, b)
  <2>1. \A x, y \in Nat : h <= x /\ x <= y /\ y <= L => Part(t, x + d, y + d) = Part(s, x, y)
    BY <1>4, PartMoved
  <2>2. Part(t, a + d, b + d) = Part(s, a, b) BY <1>4, <2>1
  <2> QED BY <2>2 DEF Part
<1>6. Len(SubSeq(s, a + 1, b)) = b - a
  <2>1. \A i \in a + 1 .. b : s[i] \in Range(s)
    <3>1. DOMAIN s = 1 .. L BY <1>3, <1>4, <1>s, BlobIs
    <3>2. \A i \in a + 1 .. b : i \in 1 .. L BY <1>4
    <3> QED BY <3>1, <3>2 DEF Range
  <2>2. a + 1 \in Int /\ b \in Int BY <1>4
  <2>3. Len(SubSeq(s, a + 1, b)) = IF a + 1 <= b THEN b - (a + 1) + 1 ELSE 0 BY <2>1, <2>2, SubSeqProperties
  <2> QED BY <1>4, <2>3
<1> QED BY <1>1, <1>3, <1>s, <1>5, <1>6 DEF ValueOf

\* So a reader meets the same fields with the same values.
LEMMA SameContent ==
  ASSUME IsBlob(Footer), Parsed(Footer), Len(Fields(Footer, 0)) # 0,
         w.columns \in Int, w.row_groups \in Int, Len(w.schema) \in Int
  PROVE  Tail(Content(NewFooter)) = Content(Footer)
<1> DEFINE F == Fields(Footer, 0)
           n == Len(F)
           G == NewFields
           A == Content(NewFooter)
           B == Content(Footer)
<1>1. n \in Nat /\ n # 0 /\ DOMAIN F = 1 .. n BY TopFields
<1>2. Fields(NewFooter, 0) = G BY NewFieldsAre
<1>3. /\ DOMAIN G = 1 .. n + 1
      /\ \A j \in 1 .. n : G[j + 1].id = F[j].id /\ G[j + 1].type = F[j].type /\ G[j + 1].value = F[j].value + Shift
  <2>1. DOMAIN G = 1 .. n + 1 BY DEF NewFields
  <2>2. ASSUME NEW j \in 1 .. n
        PROVE  G[j + 1].id = F[j].id /\ G[j + 1].type = F[j].type /\ G[j + 1].value = F[j].value + Shift
    <3>1. j + 1 \in 1 .. n + 1 /\ j + 1 # 1 /\ (j + 1) - 1 = j BY <1>1
    <3>2. G[j + 1] = [Moved(F[j], Shift) EXCEPT !.at = IF j + 1 = 2 THEN 2 ELSE @] BY <3>1 DEF NewFields
    <3> HIDE DEF F, G
    <3> QED BY <3>2 DEF Moved
  <2> QED BY <2>1, <2>2
<1>4. A = [j \in 1 .. n + 1 |-> <<G[j].id, G[j].type, ValueOf(NewFooter, G[j])>>] BY <1>2, <1>3 DEF Content
<1>5. B = [j \in 1 .. n |-> <<F[j].id, F[j].type, ValueOf(Footer, F[j])>>] BY <1>1 DEF Content
<1>6. ASSUME NEW j \in 1 .. n PROVE ValueOf(NewFooter, G[j + 1]) = ValueOf(Footer, F[j])
  <2>1. /\ SubSeq(NewFooter, F[j].value + Shift + 1, Skip(Footer, F[j].value, F[j].type) + Shift) = ValueOf(Footer, F[j])
        /\ Skip(NewFooter, F[j].value + Shift, F[j].type) = Skip(Footer, F[j].value, F[j].type) + Shift
    BY ValueMoved
  <2> HIDE DEF F, G
  <2> QED BY <1>3, <2>1 DEF ValueOf
<1> HIDE DEF F, n, G, A, B
<1>7. \A j \in 1 .. n : A[j + 1] = B[j]
  <2>1. \A j \in 1 .. n : j + 1 \in 1 .. n + 1 BY <1>1
  <2> QED BY <1>3, <1>4, <1>5, <1>6, <2>1
<1> DEFINE S == {A[j] : j \in 1 .. n + 1}
<1>8. A \in [1 .. n + 1 -> S] /\ B \in [1 .. n -> S]
  <2>1. \A j \in 1 .. n : j + 1 \in 1 .. n + 1 BY <1>1
  <2>2. \A j \in 1 .. n : B[j] \in S BY <1>7, <2>1
  <2> QED BY <1>4, <1>5, <2>2
<1> HIDE DEF S
<1>9. A \in Seq(S) /\ B \in Seq(S) /\ Len(A) = n + 1 /\ Len(B) = n
  <2>1. n + 1 \in Nat BY <1>1
  <2> QED BY <1>1, <1>8, <2>1, SeqDef, LenProperties
<1>10. A # <<>>
  <2>1. Len(A) # 0 BY <1>1, <1>9
  <2> QED BY <2>1
<1>11. Tail(A) \in Seq(S) /\ Len(Tail(A)) = n /\ \A j \in 1 .. n : Tail(A)[j] = A[j + 1]
  <2>1. Tail(A) \in Seq(S) /\ Len(Tail(A)) = Len(A) - 1 /\ \A j \in 1 .. Len(Tail(A)) : Tail(A)[j] = A[j + 1]
    BY <1>9, <1>10, HeadTailProperties
  <2>2. Len(A) - 1 = n BY <1>1, <1>9
  <2> QED BY <2>1, <2>2
<1>12. Tail(A) = B BY <1>7, <1>9, <1>11, SeqEqual
<1> QED BY <1>12 DEF A, B

\* What the walk keeps of the fields it met.
Tops(n) == [j \in 1 .. n |-> <<Fields(Footer, 0)[j].id, Fields(Footer, 0)[j].at>>]

\* The offset the index holds of a top-level field leads to its header.
LEMMA OffsetOfField ==
  ASSUME IsBlob(Footer), Parsed(Footer), Len(Fields(Footer, 0)) # 0,
         w.columns \in Int, w.row_groups \in Int, Len(w.schema) \in Int,
         w.top_fields = Tops(Len(Fields(Footer, 0))), NEW j \in 1 .. Len(Fields(Footer, 0))
  PROVE  LET f == NextField(NewFooter, FieldOffsets[j + 1][2], 0) IN
         f.type = Fields(Footer, 0)[j].type /\ f.value = Fields(Footer, 0)[j].value + Shift
<1> DEFINE F == Fields(Footer, 0)
           n == Len(F)
           G == NewFields
           x == IF F[j].at = 0 THEN PointerLen ELSE F[j].at + Shift
<1>1. /\ n \in Nat /\ n # 0 /\ DOMAIN F = 1 .. n /\ IsFields(Footer, 0, F, n) BY TopFields
<1>2. FieldOffsets[j + 1][2] = x
  <2> DEFINE A == <<<<FMD_POINTER, 0>>>>
             B == [i \in DOMAIN w.top_fields |->
                     <<w.top_fields[i][1],
                       IF w.top_fields[i][2] = 0 THEN PointerLen ELSE w.top_fields[i][2] + Shift>>]
  <2>1. DOMAIN w.top_fields = 1 .. n /\ w.top_fields[j] = <<F[j].id, F[j].at>> BY DEF Tops
  <2>2. DOMAIN B = 1 .. n /\ B[j] = <<F[j].id, x>> BY <2>1
  <2> HIDE DEF B, n
  <2>3. B \in [1 .. n -> {B[i] : i \in 1 .. n}]
    <3>1. B = [i \in 1 .. n |-> B[i]] BY <2>2 DEF B
    <3> QED BY <3>1
  <2> DEFINE S == {B[i] : i \in 1 .. n} \cup {<<FMD_POINTER, 0>>}
  <2>4. B \in [1 .. n -> S] BY <2>3
  <2>5. A \in Seq(S) /\ Len(A) = 1
    <3>1. <<FMD_POINTER, 0>> \in S OBVIOUS
    <3> HIDE DEF S
    <3> QED BY <3>1
  <2> HIDE DEF S, A
  <2>6. B \in Seq(S) /\ Len(B) = n BY <1>1, <2>4, SeqDef, LenProperties
  <2>7. (A \o B)[j + 1] = B[j]
    <3>1. \A i \in 1 .. Len(A) + Len(B) : (A \o B)[i] = IF i <= Len(A) THEN A[i] ELSE B[i - Len(A)]
      BY <2>5, <2>6, ConcatProperties
    <3>2. \A i \in 1 .. 1 + n : (A \o B)[i] = IF i <= 1 THEN A[i] ELSE B[i - 1] BY <2>5, <2>6, <3>1
    <3>3. j + 1 \in 1 .. 1 + n /\ ~(j + 1 <= 1) /\ (j + 1) - 1 = j BY <1>1 DEF n
    <3> QED BY <3>2, <3>3
  <2>8. FieldOffsets = A \o B BY DEF FieldOffsets, A, B
  <2> HIDE DEF x, F
  <2>9. B[j][2] = x BY <2>2
  <2> QED BY <2>7, <2>8, <2>9
<1>c. PICK t : t = NewFooter OBVIOUS
<1>d. PICK o \in Nat : o = 0 OBVIOUS
<1>3. t = NewFooter /\ o = 0 BY <1>c, <1>d
<1>4. IsBlob(t) /\ Fields(t, o) = G BY <1>3, NewFooterIs, NewFieldsAre
<1>5. PICK m \in Nat : IsFields(t, o, G, m) BY <1>4, FieldsExist
<1>6. /\ DOMAIN G = 1 .. n + 1 /\ G[j + 1].type = F[j].type /\ G[j + 1].value = F[j].value + Shift
      /\ G[j + 1].at = IF j = 1 THEN 2 ELSE F[j].at + Shift
  <2>1. DOMAIN G = 1 .. n + 1 BY DEF NewFields
  <2>2. j + 1 \in 1 .. n + 1 /\ j + 1 # 1 /\ (j + 1) - 1 = j /\ (j + 1 = 2 <=> j = 1) BY <1>1
  <2>3. G[j + 1] = [Moved(F[j], Shift) EXCEPT !.at = IF j = 1 THEN 2 ELSE @]
    <3>1. G[j + 1] = [Moved(F[j], Shift) EXCEPT !.at = IF j + 1 = 2 THEN 2 ELSE @] BY <2>2 DEF NewFields
    <3> QED BY <2>2, <3>1
  <2> HIDE DEF F, G
  <2>4. G[j + 1].type = F[j].type /\ G[j + 1].value = F[j].value + Shift BY <2>3 DEF Moved
  <2>5. G[j + 1].at = IF j = 1 THEN 2 ELSE F[j].at + Shift BY <2>3 DEF Moved
  <2> QED BY <2>1, <2>4, <2>5
<1>7. m = n + 1
  <2>1. DOMAIN G = 1 .. m BY <1>5 DEF IsFields
  <2> HIDE DEF G, n, F
  <2>2. 1 .. m = 1 .. n + 1 BY <1>6, <2>1
  <2>3. m \in 1 .. m \/ m = 0 OBVIOUS
  <2>4. n + 1 \in 1 .. n + 1 BY <1>1
  <2>5. m \in 1 .. n + 1 /\ n + 1 \in 1 .. m BY <1>1, <2>2, <2>3, <2>4
  <2> QED BY <1>1, <2>5
<1>8. /\ G[j + 1].at = Place(t, o, G, j + 1) /\ Place(t, o, G, j + 1) \in Nat /\ IdBefore(G, j + 1) \in Int
      /\ G[j + 1] = NextField(t, Place(t, o, G, j + 1), IdBefore(G, j + 1))
  <2>1. j + 1 \in 1 .. m /\ j + 1 \in 1 .. m + 1 BY <1>1, <1>7
  <2>2. G[j + 1] = NextField(t, Place(t, o, G, j + 1), IdBefore(G, j + 1)) BY <1>5, <2>1 DEF IsFields
  <2> HIDE DEF G
  <2>3. Place(t, o, G, j + 1) \in Nat /\ IdBefore(G, j + 1) \in Int BY <1>4, <1>5, <2>1, PlacesGrow
  <2>4. G[j + 1].at = Place(t, o, G, j + 1) BY <1>4, <1>5, <2>1, PlacesGrow
  <2> QED BY <2>2, <2>3, <2>4
<1>9. /\ NextField(t, G[j + 1].at, 0).type = G[j + 1].type
      /\ NextField(t, G[j + 1].at, 0).value = G[j + 1].value
  <2>1. PICK p \in Nat, last \in Int : p = Place(t, o, G, j + 1) /\ last = IdBefore(G, j + 1) BY <1>8
  <2>2. NextField(t, p, last).type = NextField(t, p, 0).type /\ NextField(t, p, last).value = NextField(t, p, 0).value
    BY <1>4, NextFieldRead
  <2> HIDE DEF G
  <2> QED BY <1>8, <2>1, <2>2
<1>10. x = G[j + 1].at
  <2>1. PICK s : s = Footer OBVIOUS
  <2>2. IsBlob(s) /\ IsFields(s, o, F, n) /\ F[1].value \in {1, 2} /\ 1 \in 1 .. n /\ F[1].value \in Nat
    <3>1. F[1].value = OldHdrLen /\ OldHdrLen \in {1, 2} BY FirstHeader
    <3> HIDE DEF F, n
    <3> QED BY <1>1, <1>3, <2>1, <3>1
  <2> HIDE DEF F, n, G
  <2>3. F[j].at = Place(s, o, F, j) /\ Place(s, o, F, j) \in Nat
    <3>1. j \in 1 .. n /\ j \in 1 .. n + 1 BY <1>1 DEF n, F
    <3> QED BY <2>2, <3>1, PlacesGrow
  <2>4. CASE j = 1
    <3>1. F[j].at = 0 BY <1>3, <2>3, <2>4 DEF Place
    <3> QED BY <1>6, <2>4, <3>1 DEF PointerLen
  <2>5. CASE j # 1
    <3>1. j \in 1 .. n + 1 /\ 1 < j BY <1>1, <2>5 DEF n, F
    <3>2. F[1].value <= Place(s, o, F, j) BY <2>2, <3>1, FieldsApart
    <3>3. F[j].at # 0 BY <2>2, <2>3, <3>2
    <3> QED BY <1>6, <2>5, <3>3
  <2> QED BY <2>4, <2>5
<1> HIDE DEF G, x
<1>11. /\ NextField(t, FieldOffsets[j + 1][2], 0).type = G[j + 1].type
       /\ NextField(t, FieldOffsets[j + 1][2], 0).value = G[j + 1].value
  BY <1>2, <1>9, <1>10
<1> QED BY <1>3, <1>6, <1>11 DEF F

\* A struct of the old footer is in the new one, Shift further on.
LEMMA StructsLand ==
  ASSUME IsBlob(Footer), Parsed(Footer), Len(Fields(Footer, 0)) # 0,
         w.columns \in Int, w.row_groups \in Int, Len(w.schema) \in Int, NEW o \in Held(Footer)
  PROVE  SubSeq(NewFooter, o + Shift + 1, Skip(NewFooter, o + Shift, "struct"))
           = SubSeq(Footer, o + 1, Skip(Footer, o, "struct"))
<1>1. /\ IsBlob(NewFooter) /\ Agree(Footer, NewFooter, OldHdrLen, Len(Footer), Shift) /\ Shift \in Nat
      /\ OldHdrLen \in Nat /\ Len(Footer) \in Nat
  <2>1. OldHdrLen \in Nat BY FirstHeader
  <2>2. Shift \in Nat BY NewFooterIs
  <2> QED BY <2>1, <2>2, NewFooterIs, BlobIs
<1>2. PICK d \in Nat, h \in Nat, L \in Nat, p \in Nat : d = Shift /\ h = OldHdrLen /\ L = Len(Footer) /\ p = o
  BY <1>1 DEF Held
<1>3. PICK s, t : s = Footer /\ t = NewFooter OBVIOUS
<1>4. PICK type \in Types : type = "struct" BY DEF Types
<1>5. IsBlob(s) /\ IsBlob(t) /\ Agree(s, t, h, L, d) /\ p >= h /\ Skip(s, p, type) <= L
  BY <1>1, <1>2, <1>3, <1>4 DEF Held, OldHdrLen
<1>6. Skip(t, p + d, type) = Skip(s, p, type) + d BY <1>5, SkipMoved
<1>7. Skip(s, p, type) \in Nat /\ Skip(s, p, type) >= p BY <1>5, SkipForward
<1>8. \A x, y \in Nat : h <= x /\ x <= y /\ y <= L => Part(t, x + d, y + d) = Part(s, x, y) BY <1>5, PartMoved
<1>9. Part(t, p + d, Skip(s, p, type) + d) = Part(s, p, Skip(s, p, type)) BY <1>5, <1>7, <1>8
<1> QED BY <1>2, <1>3, <1>4, <1>6, <1>9 DEF Part

\* The offsets of the index lead to what they led to in the old footer.
LEMMA OffsetsTrue ==
  ASSUME IsBlob(Footer), Parsed(Footer), Len(Fields(Footer, 0)) # 0,
         WalkHeld(w), w.top_fields = Tops(Len(Fields(Footer, 0)))
  PROVE  /\ \A j \in DOMAIN w.top_fields :
              LET f == NextField(NewFooter, FieldOffsets[j + 1][2], 0)
                  v == ValueOf(Footer, Fields(Footer, 0)[j]) IN
              /\ f.type = Fields(Footer, 0)[j].type
              /\ SubSeq(NewFooter, f.value + 1, f.value + Len(v)) = v
         /\ \A o \in ToSet(w.schema \o w.chunk_offsets) :
              SubSeq(NewFooter, o + Shift + 1, Skip(NewFooter, o + Shift, "struct"))
                = SubSeq(Footer, o + 1, Skip(Footer, o, "struct"))
<1>1. w.columns \in Int /\ w.row_groups \in Int /\ Len(w.schema) \in Int BY LenProperties DEF WalkHeld
<1>2. ASSUME NEW j \in DOMAIN w.top_fields
      PROVE  LET f == NextField(NewFooter, FieldOffsets[j + 1][2], 0)
                 v == ValueOf(Footer, Fields(Footer, 0)[j]) IN
             /\ f.type = Fields(Footer, 0)[j].type
             /\ SubSeq(NewFooter, f.value + 1, f.value + Len(v)) = v
  <2> DEFINE f == NextField(NewFooter, FieldOffsets[j + 1][2], 0)
             F == Fields(Footer, 0)
             v == ValueOf(Footer, F[j])
             e == Skip(Footer, F[j].value, F[j].type)
  <2>1. j \in 1 .. Len(F) BY DEF Tops
  <2>2. f.type = F[j].type /\ f.value = F[j].value + Shift BY <1>1, <2>1, OffsetOfField
  <2>3. /\ F[j].value \in Nat /\ e \in Nat /\ SubSeq(NewFooter, F[j].value + Shift + 1, e + Shift) = v
        /\ Len(v) = e - F[j].value
    BY <1>1, <2>1, ValueMoved
  <2>4. Shift \in Nat BY <1>1, NewFooterIs
  <2> HIDE DEF f, F, v, e
  <2>5. f.value + 1 = F[j].value + Shift + 1 /\ f.value + Len(v) = e + Shift BY <2>2, <2>3, <2>4
  <2>6. f.type = F[j].type /\ SubSeq(NewFooter, f.value + 1, f.value + Len(v)) = v BY <2>2, <2>3, <2>5
  <2> QED BY <2>6 DEF f, F, v
<1>3. ASSUME NEW o \in ToSet(w.schema \o w.chunk_offsets)
      PROVE  SubSeq(NewFooter, o + Shift + 1, Skip(NewFooter, o + Shift, "struct"))
               = SubSeq(Footer, o + 1, Skip(Footer, o, "struct"))
  <2>1. w.schema \o w.chunk_offsets \in Seq(Held(Footer)) BY ConcatProperties DEF WalkHeld
  <2>2. o \in Held(Footer) BY <2>1, RangeOfSeq DEF ToSet, Range
  <2> QED BY <1>1, <2>2, StructsLand
<1> QED BY <1>2, <1>3

\* Packed offsets take at least a byte.
LEMMA PackedBytes ==
  ASSUME NEW vals \in Seq(Nat), vals # <<>>, Shift \in Nat
  PROVE  PackBytes(Shifted(vals)) # <<>>
<1> DEFINE V == Shifted(vals)
           n == Len(vals)
           bw == ByteWidth(Greatest(V))
           P == [j \in 1 .. Len(V) |-> [b \in 1 .. bw |-> ByteOf(V[j], b - 1)]]
           T == {ByteOf(x, b - 1) : x \in Nat, b \in 1 .. bw}
<1>1. n \in Nat /\ n # 0 /\ DOMAIN vals = 1 .. n /\ \A j \in 1 .. n : vals[j] \in Nat
  BY LenProperties, EmptySeq, ElementOfSeq
<1>2. V = [j \in 1 .. n |-> vals[j] + Shift] BY <1>1 DEF Shifted
<1>3. V \in [1 .. n -> Nat] BY <1>1, <1>2
<1>4. Len(V) = n
  <2> HIDE DEF V, n
  <2> QED BY <1>1, <1>3
<1>5. bw \in 1 .. 8
  <2> DEFINE g == Greatest(V)
             S == {m \in 1 .. 8 : m = 8 \/ g < 2 ^ (ByteBits * m)}
  <2> HIDE DEF g
  <2>1. 8 \in S OBVIOUS
  <2>2. S \subseteq Nat /\ S # {}
    <3>1. S \subseteq Nat OBVIOUS
    <3> HIDE DEF S
    <3> QED BY <2>1, <3>1
  <2>3. PICK m \in S : \A l \in S : m <= l
    <3> HIDE DEF S
    <3> QED BY <2>2, LeastNatural
  <2>4. m \in 1 .. 8 /\ (m = 8 \/ g < 2 ^ (ByteBits * m)) /\ \A l \in 1 .. m - 1 : ~(g < 2 ^ (ByteBits * l))
    <3>1. m \in 1 .. 8 /\ (m = 8 \/ g < 2 ^ (ByteBits * m)) OBVIOUS
    <3>2. ASSUME NEW l \in 1 .. m - 1, g < 2 ^ (ByteBits * l) PROVE FALSE
      <4>1. l \in S /\ ~(m <= l) BY <3>1, <3>2
      <4> QED BY <2>3, <4>1
    <3> QED BY <3>1, <3>2
  <2>5. ByteWidth(g) \in 1 .. 8 BY <2>4 DEF ByteWidth
  <2> QED BY <2>5 DEF g
<1>6. PackBytes(V) = Concatenated(P) BY DEF PackBytes, FlattenSeq, Concatenated
<1> HIDE DEF V, n, bw
<1>7. P \in [1 .. n -> Seq(T)] /\ \A j \in 1 .. n : Len(P[j]) = bw
  <2>1. ASSUME NEW j \in 1 .. n PROVE P[j] \in Seq(T) /\ Len(P[j]) = bw
    <3>1. V[j] \in Nat BY <1>3
    <3>2. P[j] = [b \in 1 .. bw |-> ByteOf(V[j], b - 1)] BY <1>4
    <3>3. \A b \in 1 .. bw : ByteOf(V[j], b - 1) \in T BY <3>1
    <3> HIDE DEF T, P
    <3>4. P[j] \in [1 .. bw -> T] BY <3>2, <3>3
    <3>5. bw \in Nat BY <1>5
    <3> QED BY <3>4, <3>5, SeqDef, LenProperties
  <2>2. DOMAIN P = 1 .. n BY <1>4
  <2> HIDE DEF T
  <2> QED BY <1>4, <2>1, <2>2
<1> HIDE DEF T, P
<1>8. P \in Seq(Seq(T)) /\ Len(P) = n BY <1>1, <1>7, SeqDef, LenProperties
<1>9. Concatenated(P) \in Seq(T) /\ Len(P[1]) <= Len(Concatenated(P))
  <2>1. 1 \in 1 .. Len(P) BY <1>1, <1>8
  <2> QED BY <1>8, <2>1, FlattenedElements
<1>10. Concatenated(P) # <<>>
  <2>1. Len(P[1]) = bw BY <1>1, <1>7
  <2>2. Len(Concatenated(P)) \in Nat BY <1>9, LenProperties
  <2>3. Len(<<>>) = 0 OBVIOUS
  <2> QED BY <1>5, <1>9, <2>1, <2>2, <2>3
<1> QED BY <1>6, <1>10 DEF V

-----------------------------------------------------------------------------
(* What a conversion leaves.                                                *)

\* A pointer in front of the footer gives the place of an index in the file.
PointedAt(prefix, s) ==
  LET pointers == Those(Fields(s, 0), FMD_POINTER, "bin")
      p == At(s, Head(pointers).value).a
      whole == prefix \o s IN
  /\ Len(pointers) = 1
  /\ p.index_start + p.index_length = Len(whole)
  /\ Fields(SubSeq(whole, p.index_start + 1, Len(whole)), 0)[1].id = 1

\* And the reader that follows it finds the numbers of the walk there.
IndexIn(x, s) ==
  LET pointers == Those(Fields(s, 0), FMD_POINTER, "bin")
      length == At(s, Head(pointers).value).a.fmd_length IN
  /\ pointers # <<>> /\ length \in Nat \ {0}
  /\ Fields(SubSeq(s, length + 1, Len(s)), 0) = IndexFields
  /\ At(s, length + 1).a = x.columns /\ At(s, length + 3).a = x.row_groups
  /\ x.columns # 0 => At(s, length + 5).a # <<>>

\* The end of a sequence.
Behind(s, o) == SubSeq(s, o + 1, Len(s))

\* The end of the second one is the end of both.
LEMMA BehindJoined ==
  ASSUME NEW s, IsBlob(s), NEW t, IsBlob(t)
  PROVE  \A o \in 0 .. Len(t) : Behind(Joined(s, t), Len(s) + o) = Behind(t, o)
<1> TAKE o \in 0 .. Len(t)
<1>1. PICK m \in Nat, n \in Nat : m = Len(s) /\ n = Len(t) BY BlobIs
<1>2. PICK u : u = s \o t OBVIOUS
<1>3. /\ IsBlob(u) /\ Len(u) = m + n
      /\ \A j \in 1 .. m + n : u[j] = IF j <= m THEN s[j] ELSE t[j - m]
  <2>1. /\ IsBlob(s \o t) /\ Len(s \o t) = Len(s) + Len(t)
        /\ \A j \in 1 .. Len(s) + Len(t) : (s \o t)[j] = IF j <= Len(s) THEN s[j] ELSE t[j - Len(s)]
    BY BlobConcat
  <2> QED BY <1>1, <1>2, <2>1
<1>4. PICK q \in Nat : q = m + o BY <1>1
<1>5. q \in 0 .. Len(u) /\ o \in 0 .. n /\ Len(u) - q = n - o BY <1>1, <1>3, <1>4
<1> DEFINE A == SubSeq(u, q + 1, Len(u))
           B == SubSeq(t, o + 1, Len(t))
<1>6. IsBlob(A) /\ Len(A) = Len(u) - q /\ \A j \in 1 .. Len(u) - q : A[j] = u[q + j]
  BY <1>3, <1>5, BlobBehind
<1>7. IsBlob(B) /\ Len(B) = Len(t) - o /\ \A j \in 1 .. Len(t) - o : B[j] = t[o + j]
  BY BlobBehind
<1> HIDE DEF A, B
<1>8. \A j \in 1 .. n - o : A[j] = B[j]
  <2> TAKE j \in 1 .. n - o
  <2>1. A[j] = u[q + j] /\ B[j] = t[o + j] BY <1>1, <1>5, <1>6, <1>7
  <2>2. q + j \in 1 .. m + n /\ ~(q + j <= m) /\ (q + j) - m = o + j BY <1>4, <1>5
  <2>3. u[q + j] = t[(q + j) - m] BY <1>3, <2>2
  <2> QED BY <2>1, <2>2, <2>3
<1>9. A = B
  <2>1. A = [j \in 1 .. n - o |-> A[j]] /\ B = [j \in 1 .. n - o |-> B[j]]
    BY <1>1, <1>5, <1>6, <1>7 DEF IsBlob
  <2> QED BY <1>8, <2>1
<1>10. Behind(Joined(s, t), Len(s) + o) = A BY <1>1, <1>2, <1>4 DEF Behind, Joined, A
<1>11. Behind(t, o) = B BY DEF Behind, B
<1> QED BY <1>9, <1>10, <1>11

\* What a conversion leaves behind a prefix: the pointer, and the index it leads to.
LEMMA PointerRead ==
  ASSUME IsBlob(Footer), Parsed(Footer), Len(Fields(Footer, 0)) # 0, WalkHeld(w),
         \A j \in 1 .. Len(Fields(Footer, 0)) : Fields(Footer, 0)[j].id # FMD_POINTER
  PROVE  /\ Len(Fields(NewFooter, 0)) # 0 /\ Fields(NewFooter, 0)[1].id = FMD_POINTER
         /\ Len(Those(Fields(NewFooter, 0), FMD_POINTER, "bin")) = 1
         /\ Those(Fields(NewFooter, 0), FMD_POINTER, "bin") # <<>>
         /\ At(NewFooter, Head(Those(Fields(NewFooter, 0), FMD_POINTER, "bin")).value).a = NewPointer
<1> DEFINE F == Fields(Footer, 0)
           n == Len(F)
           G == NewFields
<1>1. n \in Nat /\ n # 0 BY TopFields
<1>2. w.columns \in Int /\ w.row_groups \in Int /\ Len(w.schema) \in Int
  BY LenProperties DEF WalkHeld
<1>3. Fields(NewFooter, 0) = G BY <1>2, NewFieldsAre
<1>4. At(NewFooter, 1) = Bin(NewPointer) BY <1>2, NewFooterIs
<1>5. /\ DOMAIN G = 1 .. n + 1
      /\ G[1] = [id |-> FMD_POINTER, type |-> "bin", at |-> 0, value |-> 1]
      /\ \A j \in 2 .. n + 1 : G[j].id = F[j - 1].id
  <2>1. DOMAIN G = 1 .. n + 1 /\ G[1] = [id |-> FMD_POINTER, type |-> "bin", at |-> 0, value |-> 1]
    BY <1>1 DEF NewFields
  <2>2. ASSUME NEW j \in 2 .. n + 1 PROVE G[j].id = F[j - 1].id
    <3>1. j \in 1 .. n + 1 /\ j # 1 BY <1>1
    <3> DEFINE f == Moved(F[j - 1], Shift)
    <3>2. G[j] = [f EXCEPT !.at = IF j = 2 THEN 2 ELSE @] BY <3>1 DEF NewFields
    <3>3. G[j].id = f.id BY <3>2 DEF Moved
    <3> QED BY <3>3 DEF Moved
  <2> QED BY <2>1, <2>2
<1> HIDE DEF F, n, G
<1>6. \A j \in 1 .. n + 1 : (G[j].id = FMD_POINTER /\ G[j].type = "bin") <=> j = 1
  <2> TAKE j \in 1 .. n + 1
  <2>1. CASE j = 1 BY <1>5, <2>1
  <2>2. CASE j # 1
    <3>1. j \in 2 .. n + 1 /\ j - 1 \in 1 .. n BY <1>1, <2>2
    <3>2. G[j].id = F[j - 1].id /\ F[j - 1].id # FMD_POINTER BY <1>5, <3>1 DEF F, n
    <3> QED BY <2>2, <3>2
  <2> QED BY <2>1, <2>2
<1>7. Those(G, FMD_POINTER, "bin") = <<G[1]>>
  <2>1. n + 1 \in Nat /\ 1 \in 1 .. n + 1 BY <1>1
  <2>2. Only(G, n + 1, FMD_POINTER, "bin", 1) BY <1>6 DEF Only
  <2> QED BY <1>5, <2>1, <2>2, ThoseOnly
<1>8. Len(<<G[1]>>) = 1 /\ <<G[1]>> # <<>> /\ Head(<<G[1]>>) = G[1] OBVIOUS
<1>9. At(NewFooter, G[1].value).a = NewPointer
  <2>1. G[1].value = 1 BY <1>5
  <2> QED BY <1>4, <2>1, TokensAre
<1>10. Len(G) # 0 /\ G[1].id = FMD_POINTER
  <2>1. Len(G) = n + 1 BY <1>1, <1>5
  <2> QED BY <1>1, <1>5, <2>1
<1>11. PICK T : T = Those(G, FMD_POINTER, "bin") OBVIOUS
<1>12. Len(T) = 1 /\ T # <<>> /\ At(NewFooter, Head(T).value).a = NewPointer
  BY <1>7, <1>8, <1>9, <1>11
<1> QED BY <1>3, <1>10, <1>11, <1>12

\* The tokens of the index, where the pointer's length of the footer leads.
LEMMA IndexRead ==
  ASSUME IsBlob(Footer), Parsed(Footer), Len(Fields(Footer, 0)) # 0,
         w.columns \in Int, w.row_groups \in Int, Len(w.schema) \in Int
  PROVE  /\ At(NewFooter, FmdLength + 1) = Num(w.columns)
         /\ At(NewFooter, FmdLength + 3) = Num(w.row_groups)
         /\ At(NewFooter, FmdLength + 5) = Bin(PackBytes(Shifted(w.chunk_offsets)))
<1>0. PICK L \in Nat : L = FmdLength BY NewFooterIs
<1>1. PICK s : L = FmdLength /\ s = NewFooter BY <1>0
<1>2. IsBlob(s) /\ Len(s) = L + 15 /\ SubSeq(s, L + 1, Len(s)) = IndexBlob BY <1>1, NewFooterIs
<1>3. \A j \in 1 .. 15 : IndexBlob[j] = s[L + j]
  <2>1. L \in 0 .. Len(s) /\ Len(s) - L = 15 BY <1>2
  <2>2. \A j \in 1 .. Len(s) - L : SubSeq(s, L + 1, Len(s))[j] = s[L + j] BY <1>2, <2>1, BlobBehind
  <2> QED BY <1>2, <2>1, <2>2
<1>4. Len(IndexBlob) = 15 BY IndexIs
<1>5. \A j \in 1 .. 14 : At(s, L + j) = At(IndexBlob, j)
  <2> TAKE j \in 1 .. 14
  <2>1. L + j < Len(s) /\ j < 15 /\ j + 1 \in 1 .. 15 /\ L + j + 1 = L + (j + 1) BY <1>2
  <2> QED BY <1>3, <1>4, <2>1 DEF At
<1>6. At(IndexBlob, 1) = Num(w.columns) /\ At(IndexBlob, 3) = Num(w.row_groups)
      /\ At(IndexBlob, 5) = Bin(PackBytes(Shifted(w.chunk_offsets)))
  BY IndexIs
<1>7. 1 \in 1 .. 14 /\ 3 \in 1 .. 14 /\ 5 \in 1 .. 14 OBVIOUS
<1>8. At(s, L + 1) = At(IndexBlob, 1) /\ At(s, L + 3) = At(IndexBlob, 3) /\ At(s, L + 5) = At(IndexBlob, 5)
  BY <1>5, <1>7
<1> QED BY <1>1, <1>6, <1>8

\* What is written is found: the pointer leads to the index, and the index says
\* what the walk found.
LEMMA OutputTrue ==
  ASSUME IsBlob(Footer), Parsed(Footer), Len(Fields(Footer, 0)) # 0, WalkHeld(w),
         \A j \in 1 .. Len(Fields(Footer, 0)) : Fields(Footer, 0)[j].id # FMD_POINTER,
         NEW pre, IsBlob(pre), IndexStart = Len(pre) + FmdLength
  PROVE  PointedAt(pre, NewFooter) /\ IndexIn(w, NewFooter)
<1>1. w.columns \in Int /\ w.row_groups \in Int /\ Len(w.schema) \in Int
      /\ w.chunk_offsets \in Seq(Nat) /\ (w.columns # 0 => w.chunk_offsets # <<>>)
  <2>1. Held(Footer) \subseteq Nat BY DEF Held
  <2>2. w.chunk_offsets \in Seq(Nat) BY <2>1, SeqMonotonic DEF WalkHeld
  <2> QED BY <2>2, LenProperties DEF WalkHeld
<1>0. PICK L \in Nat, m \in Nat : L = FmdLength /\ m = Len(pre) BY <1>1, BlobIs, NewFooterIs
<1>2. PICK s, pointers :
        L = FmdLength /\ m = Len(pre) /\ s = NewFooter /\ pointers = Those(Fields(s, 0), FMD_POINTER, "bin")
  BY <1>0
<1>3. /\ Len(pointers) = 1 /\ pointers # <<>>
      /\ At(s, Head(pointers).value).a = NewPointer
  BY <1>2, PointerRead
<1>4. IsBlob(s) /\ Len(s) = L + 15 /\ L >= 4 /\ Behind(s, L) = IndexBlob
  BY <1>1, <1>2, NewFooterIs DEF Behind
<1>5. /\ NewPointer.index_start = m + L /\ NewPointer.index_length = 15 /\ NewPointer.fmd_length = L
  BY <1>1, <1>2, IndexIs DEF NewPointer
<1>6. Fields(IndexBlob, 0) = IndexFields BY <1>1, IndexFieldsAre
<1> DEFINE whole == Joined(pre, s)
<1>7. Len(whole) = m + (L + 15)
  <2>1. Len(pre \o s) = Len(pre) + Len(s) BY <1>4, BlobConcat
  <2> QED BY <1>2, <1>4, <2>1 DEF Joined
<1>8. Behind(whole, m + L) = IndexBlob
  <2>1. L \in 0 .. Len(s) BY <1>4
  <2>2. Behind(whole, Len(pre) + L) = Behind(s, L) BY <1>4, <2>1, BehindJoined
  <2> QED BY <1>2, <1>4, <2>2
<1>9. PointedAt(pre, s)
  <2>1. PICK i, n \in Nat : i = NewPointer.index_start /\ n = m + L BY <1>5
  <2>2. NewPointer.index_start + NewPointer.index_length = Len(whole) BY <1>5, <1>7
  <2>3. Fields(SubSeq(whole, NewPointer.index_start + 1, Len(whole)), 0)[1].id = 1
    <3>1. SubSeq(whole, NewPointer.index_start + 1, Len(whole)) = IndexBlob BY <1>5, <1>8 DEF Behind
    <3>2. IndexFields[1].id = 1 BY DEF IndexFields
    <3> QED BY <1>6, <3>1, <3>2
  <2> QED BY <1>2, <1>3, <2>2, <2>3 DEF PointedAt, Joined
<1>10. /\ At(s, L + 1).a = w.columns /\ At(s, L + 3).a = w.row_groups
       /\ At(s, L + 5).a = PackBytes(Shifted(w.chunk_offsets))
  <2>1. /\ At(s, L + 1) = Num(w.columns) /\ At(s, L + 3) = Num(w.row_groups)
        /\ At(s, L + 5) = Bin(PackBytes(Shifted(w.chunk_offsets)))
    BY <1>1, <1>2, IndexRead
  <2> QED BY <1>1, <2>1, TokensAre
<1>11. w.columns # 0 => PackBytes(Shifted(w.chunk_offsets)) # <<>>
  <2>1. Shift \in Nat BY <1>1, NewFooterIs, SMTT(30)
  <2> QED BY <1>1, <2>1, PackedBytes
<1>12. IndexIn(w, s)
  <2>1. SubSeq(s, L + 1, Len(s)) = IndexBlob BY <1>4 DEF Behind
  <2>2. L \in Nat \ {0} BY <1>4
  <2> QED BY <1>2, <1>3, <1>5, <1>6, <1>10, <1>11, <2>1, <2>2 DEF IndexIn
<1> QED BY <1>2, <1>9, <1>12

\* The numbers ReadFooterIndex takes from the index.
LEMMA IndexNumbers ==
  ASSUME NEW L \in Nat, BlobAt(L) = IndexFields
  PROVE  LET index == [j \in DOMAIN BlobAt(L) |-> InBlob(L, BlobAt(L)[j])] IN
         /\ Num1(index, 1) = At(Footer, L + 1).a /\ Num1(index, 2) = At(Footer, L + 3).a
         /\ Bytes1(index, 3) = At(Footer, L + 5).a
<1> DEFINE index == [j \in DOMAIN BlobAt(L) |-> InBlob(L, BlobAt(L)[j])]
<1>1. /\ DOMAIN IndexFields = 1 .. 5
      /\ IndexFields[1] = [id |-> 1, type |-> "int", at |-> 0, value |-> 1]
      /\ IndexFields[2] = [id |-> 2, type |-> "int", at |-> 2, value |-> 3]
      /\ IndexFields[3] = [id |-> 3, type |-> "bin", at |-> 4, value |-> 5]
      /\ IndexFields[4] = [id |-> 4, type |-> "map", at |-> 6, value |-> 7]
      /\ IndexFields[5] = [id |-> 5, type |-> "struct", at |-> 8, value |-> 9]
  BY DEF IndexFields
<1>2. DOMAIN index = 1 .. 5 /\ \A j \in 1 .. 5 : index[j] = [IndexFields[j] EXCEPT !.value = @ + L]
  BY <1>1 DEF InBlob
<1> HIDE DEF index
<1>3. /\ index[1].id = 1 /\ index[1].type = "int" /\ index[1].value = 1 + L
      /\ index[2].id = 2 /\ index[2].type = "int" /\ index[2].value = 3 + L
      /\ index[3].id = 3 /\ index[3].type = "bin" /\ index[3].value = 5 + L
      /\ index[4].id = 4 /\ index[5].id = 5
  BY <1>1, <1>2
<1>4. ASSUME NEW l \in 1 .. 3, NEW type, index[l].type = type
      PROVE  Those(index, l, type) = <<index[l]>>
  <2>1. \A j \in 1 .. 5 : index[j].id = j BY <1>3
  <2>2. \A j \in 1 .. 5 : (index[j].id = l /\ index[j].type = type) <=> j = l BY <1>4, <2>1
  <2>3. PICK n \in Nat : n = 5 OBVIOUS
  <2>4. DOMAIN index = 1 .. n /\ l \in 1 .. n BY <1>2, <2>3
  <2>5. \A j \in 1 .. n : (index[j].id = l /\ index[j].type = type) <=> j = l BY <2>2, <2>3
  <2>6. Only(index, n, l, type, l) BY <2>5 DEF Only
  <2> QED BY <2>4, <2>6, ThoseOnly
<1>5. ASSUME NEW l \in 1 .. 3, NEW type, index[l].type = type
      PROVE  Those(index, l, type) # <<>> /\ Last(Those(index, l, type)) = index[l]
  <2>1. Those(index, l, type) = <<index[l]>> BY <1>4, <1>5
  <2>2. <<index[l]>> # <<>> /\ Last(<<index[l]>>) = index[l] BY DEF Last
  <2> QED BY <2>1, <2>2
<1>6. 1 \in 1 .. 3 /\ 2 \in 1 .. 3 /\ 3 \in 1 .. 3 /\ 1 + L = L + 1 /\ 3 + L = L + 3 /\ 5 + L = L + 5 OBVIOUS
<1>7. Num1(index, 1) = At(Footer, L + 1).a BY <1>3, <1>5, <1>6 DEF Num1
<1>8. Num1(index, 2) = At(Footer, L + 3).a BY <1>3, <1>5, <1>6 DEF Num1
<1>9. Bytes1(index, 3) = At(Footer, L + 5).a BY <1>3, <1>5, <1>6 DEF Bytes1
<1> QED BY <1>7, <1>8, <1>9 DEF index

\* The reader fails on an index only for its number of columns.
LEMMA ReaderFails ==
  ASSUME ReadFooterIndex, IndexIn(w, Footer), w.row_groups # 0
  PROVE  phase' \in {"read", "failed"} /\ (phase' = "failed" => w.columns = 0)
<1> DEFINE pointers == Those(Fields(Footer, 0), FMD_POINTER, "bin")
           there == At(Footer, Head(pointers).value).a.fmd_length
           length == IF pointers = <<>> THEN 0 ELSE there
<1>1. /\ pointers # <<>> /\ there \in Nat \ {0}
      /\ BlobAt(there) = IndexFields
      /\ At(Footer, there + 1).a = w.columns /\ At(Footer, there + 3).a = w.row_groups
      /\ w.columns # 0 => At(Footer, there + 5).a # <<>>
  BY DEF IndexIn, BlobAt
<1>2. PICK L \in Nat : L = there /\ L # 0 BY <1>1
<1>3. length = L BY <1>1, <1>2
<1> DEFINE index == [j \in DOMAIN BlobAt(length) |-> InBlob(length, BlobAt(length)[j])]
<1>4. /\ Num1(index, 1) = w.columns /\ Num1(index, 2) = w.row_groups
      /\ w.columns # 0 => Bytes1(index, 3) # <<>>
  <2>1. BlobAt(L) = IndexFields BY <1>1, <1>2
  <2>2. index = [j \in DOMAIN BlobAt(L) |-> InBlob(L, BlobAt(L)[j])] BY <1>3
  <2> HIDE DEF length, index
  <2>3. /\ Num1(index, 1) = At(Footer, L + 1).a /\ Num1(index, 2) = At(Footer, L + 3).a
        /\ Bytes1(index, 3) = At(Footer, L + 5).a
    BY <2>1, <2>2, IndexNumbers
  <2> QED BY <1>1, <1>2, <2>3
<1>5. \/ /\ length = 0 \/ Bytes1(index, 3) = <<>> \/ Num1(index, 1) = 0 \/ Num1(index, 2) = 0
         /\ phase' = "failed"
      \/ phase' = "read"
  BY Zenon DEF ReadFooterIndex
<1> HIDE DEF length, index
<1>6. CASE phase' = "read" BY <1>6
<1>7. CASE /\ length = 0 \/ Bytes1(index, 3) = <<>> \/ Num1(index, 1) = 0 \/ Num1(index, 2) = 0
           /\ phase' = "failed"
  <2>1. w.columns = 0 BY <1>2, <1>3, <1>4, <1>7
  <2> QED BY <1>7, <2>1
<1> QED BY <1>5, <1>6, <1>7


-----------------------------------------------------------------------------
(* The invariant.                                                           *)

\* The parts of the invariant: the file, the walk so far, what a conversion leaves.
FileTrue ==
  /\ file = [full |-> file.full, prefix |-> file.prefix, footer |-> file.footer] /\ file.full \in BOOLEAN
  /\ IsBlob(file.prefix) /\ IsBlob(Footer)
  /\ run = 0 => file \in Inputs /\ phase \in {"walk", "write", "refused"}
  /\ run # 0 => /\ phase # "write" /\ Len(Fields(Footer, 0)) # 0
                /\ Fields(Footer, 0)[1].id = FMD_POINTER
WalkTrue ==
  phase \in {"walk", "write"} =>
    /\ k \in 0 .. Len(Fields(Footer, 0)) /\ WalkIs(w) /\ w.top_fields = Tops(k)
    /\ w.already_indexed = (\E j \in 1 .. k : Fields(Footer, 0)[j].id = FMD_POINTER)
    /\ run = 0 /\ Parsed(Footer) => WalkHeld(w)
    /\ k = 0 => w.schema = <<>>
    /\ phase = "write" => k = Len(Fields(Footer, 0)) /\ ~Refused
IndexTrue ==
  /\ phase \in {"open", "read"} => PointedAt(file.prefix, Footer)
  /\ phase \in {"open", "read", "failed"} => w.row_groups # 0
  /\ phase = "open" => IndexIn(w, Footer)
  /\ phase = "failed" => w.columns = 0

JumpInv ==
  /\ run \in Nat /\ phase \in {"walk", "write", "open", "read", "failed", "refused"}
  /\ FileTrue /\ WalkTrue /\ IndexTrue

\* A file that no conversion has touched is an input.
LEMMA InputsAre ==
  ASSUME file \in Inputs
  PROVE  /\ file = [full |-> file.full, prefix |-> file.prefix, footer |-> file.footer] /\ file.full \in BOOLEAN
         /\ IsBlob(file.prefix) /\ IsBlob(Footer)
         /\ Parsed(Footer) => ListsOfStructs(Footer)
BY JumpAssumption DEF Footer

\* The invariant holds at first.
LEMMA JumpInit == Init => JumpInv
<1> SUFFICES ASSUME Init PROVE JumpInv OBVIOUS
<1> USE DEF Init
<1>1. FileTrue BY InputsAre DEF FileTrue
<1>2. WalkTrue
  <2>1. IsBlob(Footer) BY InputsAre
  <2>2. Len(Fields(Footer, 0)) \in Nat BY <2>1, TopFields
  <2>3. 0 \in 0 .. Len(Fields(Footer, 0)) BY <2>2
  <2>4. WalkIs(NoWalk) BY DEF WalkIs, NoWalk
  <2>5. NoWalk.top_fields = Tops(0) BY DEF NoWalk, Tops
  <2>6. NoWalk.already_indexed = (\E j \in 1 .. 0 : Fields(Footer, 0)[j].id = FMD_POINTER)
    <3>1. ~\E j \in 1 .. 0 : Fields(Footer, 0)[j].id = FMD_POINTER OBVIOUS
    <3> QED BY <3>1 DEF NoWalk
  <2>7. WalkHeld(NoWalk) /\ NoWalk.schema = <<>> BY DEF WalkHeld, NoWalk
  <2> QED BY <2>3, <2>4, <2>5, <2>6, <2>7 DEF WalkTrue
<1>3. IndexTrue BY DEF IndexTrue
<1> QED BY <1>1, <1>2, <1>3 DEF JumpInv

\* A step that changes neither the file nor the walk.
LEMMA JumpKept ==
  ASSUME JumpInv, UNCHANGED <<file, run, phase, k, w>>
  PROVE  JumpInv'
<1>1. Footer' = Footer BY DEF Footer
<1>2. FileTrue' BY <1>1 DEF JumpInv, FileTrue
<1>3. WalkTrue'
  <2>1. Tops(k)' = Tops(k) BY <1>1 DEF Tops
  <2>2. WalkIs(w)' = WalkIs(w) /\ WalkHeld(w)' = WalkHeld(w) /\ Refused' = Refused
    BY <1>1 DEF WalkIs, WalkHeld, Refused
  <2> QED BY <1>1, <2>1, <2>2 DEF JumpInv, WalkTrue
<1>4. IndexTrue' BY <1>1 DEF JumpInv, IndexTrue, IndexIn, PointedAt
<1> QED BY <1>2, <1>3, <1>4 DEF JumpInv

\* The walk keeps the fields it met in order, and finds the pointer if there is one.
LEMMA JumpWalkField ==
  ASSUME JumpInv, WalkField
  PROVE  JumpInv'
<1> DEFINE F == Fields(Footer, 0)
           f == F[k + 1]
<1>1. /\ phase = "walk" /\ k < Len(F) /\ w' = Walked(f) /\ k' = k + 1
      /\ file' = file /\ run' = run /\ phase' = phase
  BY DEF WalkField
<1>2. /\ k \in 0 .. Len(F) /\ WalkIs(w) /\ w.top_fields = Tops(k)
      /\ w.already_indexed = (\E j \in 1 .. k : F[j].id = FMD_POINTER)
      /\ run = 0 /\ Parsed(Footer) => WalkHeld(w)
  BY <1>1 DEF JumpInv, WalkTrue
<1>3. Footer' = Footer BY <1>1 DEF Footer
<1>4. Len(F) \in Nat BY TopFields DEF JumpInv, FileTrue
<1>5. k \in Nat /\ k + 1 \in 1 .. Len(F) /\ 1 .. k + 1 = (1 .. k) \cup {k + 1} BY <1>1, <1>2, <1>4
<1>6. /\ WalkIs(Walked(f)) /\ Walked(f).top_fields = Append(w.top_fields, <<f.id, f.at>>)
      /\ Walked(f).already_indexed = IF f.id = FMD_POINTER THEN TRUE ELSE w.already_indexed
  BY <1>2, WalkedIs
<1>7. Append(Tops(k), <<f.id, f.at>>) = Tops(k + 1)
  <2> DEFINE S == {<<F[j].id, F[j].at>> : j \in 1 .. k}
  <2>1. Tops(k) \in [1 .. k -> S] BY DEF Tops
  <2> HIDE DEF S
  <2>2. Tops(k) \in Seq(S) /\ Len(Tops(k)) = k BY <1>5, <2>1, SeqDef, LenProperties
  <2>3. Append(Tops(k), <<f.id, f.at>>) = [j \in 1 .. k + 1 |-> IF j = k + 1 THEN <<f.id, f.at>> ELSE Tops(k)[j]]
    BY <2>2, SMT
  <2>4. \A j \in 1 .. k : Tops(k)[j] = <<F[j].id, F[j].at>> BY DEF Tops
  <2>5. \A j \in 1 .. k + 1 :
          (IF j = k + 1 THEN <<f.id, f.at>> ELSE Tops(k)[j]) = <<F[j].id, F[j].at>>
    BY <1>5, <2>4
  <2>6. Tops(k + 1) = [j \in 1 .. k + 1 |-> <<F[j].id, F[j].at>>] BY DEF Tops
  <2> HIDE DEF f, F
  <2> QED BY <2>3, <2>5, <2>6
<1> HIDE DEF f
<1>8. Walked(f).already_indexed = (\E j \in 1 .. k + 1 : F[j].id = FMD_POINTER)
  <2>1. CASE f.id = FMD_POINTER
    <3>1. \E j \in 1 .. k + 1 : F[j].id = FMD_POINTER BY <1>5, <2>1 DEF f
    <3> QED BY <1>6, <2>1, <3>1
  <2>2. CASE ~(f.id = FMD_POINTER)
    <3>1. (\E j \in 1 .. k + 1 : F[j].id = FMD_POINTER) <=> (\E j \in 1 .. k : F[j].id = FMD_POINTER)
      BY <1>5, <2>2 DEF f
    <3>2. Walked(f).already_indexed = w.already_indexed BY <1>6, <2>2
    <3> QED BY <1>2, <3>1, <3>2
  <2> QED BY <2>1, <2>2
<1>9. run = 0 /\ Parsed(Footer) => WalkHeld(Walked(f))
  <2> SUFFICES ASSUME run = 0, Parsed(Footer) PROVE WalkHeld(Walked(f)) OBVIOUS
  <2>1. IsBlob(Footer) /\ ListsOfStructs(Footer) BY InputsAre DEF JumpInv, FileTrue
  <2>2. WalkHeld(w) /\ WalkIs(w) BY <1>2
  <2> QED BY <1>5, <2>1, <2>2, WalkedHeld DEF f
<1>10. WalkTrue'
  <2>1. Tops(k)' = Tops(k + 1) BY <1>1, <1>3 DEF Tops
  <2>2. WalkIs(w)' /\ (WalkHeld(Walked(f)) => WalkHeld(w)') BY <1>1, <1>3, <1>6 DEF WalkIs, WalkHeld
  <2>3. k' \in 0 .. Len(F) /\ k' # 0 BY <1>1, <1>5
  <2>4. w'.top_fields = Tops(k)' BY <1>1, <1>2, <1>6, <1>7, <2>1
  <2>5. w'.already_indexed = (\E j \in 1 .. k' : F[j].id = FMD_POINTER) BY <1>1, <1>8
  <2>6. run' = 0 /\ Parsed(Footer') => WalkHeld(w)' BY <1>1, <1>3, <1>9, <2>2
  <2> QED BY <1>1, <1>3, <2>2, <2>3, <2>4, <2>5, <2>6 DEF WalkTrue
<1>11. FileTrue' BY <1>1, <1>3 DEF JumpInv, FileTrue
<1>12. IndexTrue' BY <1>1 DEF IndexTrue
<1> QED BY <1>1, <1>10, <1>11, <1>12 DEF JumpInv

\* A footer with a pointer is refused.
LEMMA JumpEndWalk ==
  ASSUME JumpInv, EndWalk
  PROVE  JumpInv'
<1> DEFINE F == Fields(Footer, 0)
<1>1. /\ phase = "walk" /\ k = Len(F) /\ phase' = IF Refused THEN "refused" ELSE "write"
      /\ file' = file /\ run' = run /\ w' = w /\ k' = k
  BY DEF EndWalk
<1>2. Footer' = Footer BY <1>1 DEF Footer
<1>3. Refused' = Refused BY <1>1, <1>2 DEF Refused
<1>4. run # 0 => Refused
  <2> SUFFICES ASSUME run # 0 PROVE w.already_indexed BY DEF Refused
  <2>1. Len(F) # 0 /\ F[1].id = FMD_POINTER /\ Len(F) \in Nat BY TopFields DEF JumpInv, FileTrue
  <2>2. 1 \in 1 .. k BY <1>1, <2>1
  <2>3. w.already_indexed = (\E j \in 1 .. k : F[j].id = FMD_POINTER) BY <1>1 DEF JumpInv, WalkTrue
  <2> QED BY <2>1, <2>2, <2>3
<1>5. FileTrue' BY <1>1, <1>2, <1>4 DEF JumpInv, FileTrue
<1>6. WalkTrue'
  <2>1. Tops(k)' = Tops(k) BY <1>1, <1>2 DEF Tops
  <2>2. WalkIs(w)' = WalkIs(w) /\ WalkHeld(w)' = WalkHeld(w) BY <1>1, <1>2 DEF WalkIs, WalkHeld
  <2>3. phase' = "write" => ~Refused BY <1>1
  <2> QED BY <1>1, <1>2, <1>3, <2>1, <2>2, <2>3 DEF JumpInv, WalkTrue
<1>7. IndexTrue' BY <1>1 DEF IndexTrue
<1> QED BY <1>1, <1>5, <1>6, <1>7 DEF JumpInv

\* What holds when a footer is written: a first conversion, of a parsed footer.
LEMMA WritesOnce ==
  ASSUME JumpInv, phase = "write"
  PROVE  /\ run = 0 /\ IsBlob(Footer) /\ Parsed(Footer) /\ Len(Fields(Footer, 0)) # 0 /\ WalkHeld(w)
         /\ w.top_fields = Tops(Len(Fields(Footer, 0))) /\ w.row_groups # 0
         /\ \A j \in 1 .. Len(Fields(Footer, 0)) : Fields(Footer, 0)[j].id # FMD_POINTER
<1> DEFINE F == Fields(Footer, 0)
<1>1. run = 0 /\ IsBlob(Footer) BY DEF JumpInv, FileTrue
<1>2. /\ k = Len(F) /\ ~Refused /\ w.top_fields = Tops(k) /\ (k = 0 => w.schema = <<>>)
      /\ w.already_indexed = (\E j \in 1 .. k : F[j].id = FMD_POINTER)
      /\ Parsed(Footer) => WalkHeld(w)
  BY <1>1 DEF JumpInv, WalkTrue
<1>3. Parsed(Footer) /\ ~w.already_indexed /\ w.row_groups # 0 /\ w.schema # <<>> BY <1>2 DEF Refused
<1>4. \A j \in 1 .. k : F[j].id # FMD_POINTER BY <1>2, <1>3
<1> QED BY <1>1, <1>2, <1>3, <1>4

\* What is written has the pointer in front and the index behind.
LEMMA JumpWrite ==
  ASSUME JumpInv, Write
  PROVE  JumpInv'
<1> DEFINE pre == IF file.full THEN file.prefix ELSE <<>>
<1>1. /\ phase = "write" /\ phase' = "open" /\ run' = run + 1 /\ w' = w
      /\ file' = [file EXCEPT !.footer = NewFooter, !.prefix = IF file.full THEN @ ELSE <<>>]
  BY DEF Write
<1>2. /\ run = 0 /\ IsBlob(Footer) /\ Parsed(Footer) /\ Len(Fields(Footer, 0)) # 0 /\ WalkHeld(w)
      /\ w.row_groups # 0
      /\ \A j \in 1 .. Len(Fields(Footer, 0)) : Fields(Footer, 0)[j].id # FMD_POINTER
  BY <1>1, WritesOnce
<1>3. file = [full |-> file.full, prefix |-> file.prefix, footer |-> file.footer] /\ file.full \in BOOLEAN
      /\ IsBlob(file.prefix)
  BY DEF JumpInv, FileTrue
<1>4. PICK s, p, x : s = NewFooter /\ p = pre /\ x = w OBVIOUS
<1>5. file' = [full |-> file.full, prefix |-> p, footer |-> s]
  <2>1. file' = [file EXCEPT !.footer = s, !.prefix = p] BY <1>1, <1>4
  <2> QED BY <1>3, <2>1
<1>6. file'.full = file.full /\ file'.prefix = p /\ file'.footer = s /\ Footer' = s BY <1>5 DEF Footer
<1>7. IsBlob(p) /\ IndexStart = Len(p) + FmdLength
  <2>1. CASE file.full
    <3>1. p = file.prefix BY <1>4, <2>1
    <3> QED BY <1>3, <2>1, <3>1 DEF IndexStart
  <2>2. CASE ~file.full
    <3>1. p = <<>> /\ Len(p) = 0 BY <1>4, <2>2
    <3>2. <<>> \in Seq({}) /\ \A j \in 1 .. Len(<<>>) : IsToken(<<>>[j]) BY EmptySeq
    <3>3. IsBlob(<<>>)
      <4>1. PICK e : e = <<>> OBVIOUS
      <4> QED BY <3>2, <4>1, BlobOf
    <3> QED BY <2>2, <3>1, <3>3 DEF IndexStart
  <2> QED BY <2>1, <2>2
<1>8. w.columns \in Int /\ w.row_groups \in Int /\ Len(w.schema) \in Int
  BY <1>2, LenProperties DEF WalkHeld
<1>9. /\ IsBlob(s) /\ Len(Fields(s, 0)) # 0 /\ Fields(s, 0)[1].id = FMD_POINTER
      /\ PointedAt(p, s) /\ IndexIn(x, s)
  <2>1. IsBlob(s) BY <1>2, <1>4, <1>8, NewFooterIs
  <2>2. Len(Fields(s, 0)) # 0 /\ Fields(s, 0)[1].id = FMD_POINTER BY <1>2, <1>4, PointerRead
  <2>3. PointedAt(p, NewFooter) /\ IndexIn(w, NewFooter) BY <1>2, <1>7, OutputTrue
  <2> QED BY <1>4, <2>1, <2>2, <2>3
<1>10. run' = 1 BY <1>1, <1>2
<1>11. FileTrue'
  <2>1. file' = [full |-> file'.full, prefix |-> file'.prefix, footer |-> file'.footer]
    BY <1>5, <1>6
  <2>2. file'.full \in BOOLEAN /\ IsBlob(file'.prefix) /\ IsBlob(Footer') BY <1>3, <1>6, <1>7, <1>9
  <2>3. run' # 0 /\ phase' # "write" /\ Len(Fields(Footer', 0)) # 0 /\ Fields(Footer', 0)[1].id = FMD_POINTER
    BY <1>1, <1>6, <1>9, <1>10
  <2> QED BY <2>1, <2>2, <2>3 DEF FileTrue
<1>12. WalkTrue' BY <1>1 DEF WalkTrue
<1>13. IndexTrue'
  <2>1. PointedAt(file.prefix, Footer)' BY <1>6, <1>9 DEF PointedAt
  <2>2. IndexIn(w, Footer)' BY <1>1, <1>4, <1>6, <1>9 DEF IndexIn
  <2>3. w'.row_groups # 0 BY <1>1, <1>2
  <2> QED BY <1>1, <2>1, <2>2, <2>3 DEF IndexTrue
<1> QED BY <1>1, <1>10, <1>11, <1>12, <1>13 DEF JumpInv

\* The next conversion starts its walk at a footer with a pointer.
LEMMA JumpConvertAgain ==
  ASSUME JumpInv, ConvertAgain
  PROVE  JumpInv'
<1>1. phase = "read" /\ phase' = "walk" /\ k' = 0 /\ w' = NoWalk /\ file' = file /\ run' = run
  BY DEF ConvertAgain
<1>2. Footer' = Footer BY <1>1 DEF Footer
<1>3. run # 0 BY <1>1 DEF JumpInv, FileTrue
<1>4. FileTrue' BY <1>1, <1>2, <1>3 DEF JumpInv, FileTrue
<1>5. WalkTrue'
  <2>1. Len(Fields(Footer, 0)) \in Nat BY TopFields DEF JumpInv, FileTrue
  <2>2. 0 \in 0 .. Len(Fields(Footer, 0)) BY <2>1
  <2>3. WalkIs(w)' /\ w'.schema = <<>> BY <1>1 DEF WalkIs, NoWalk
  <2>4. w'.top_fields = Tops(k)' BY <1>1 DEF NoWalk, Tops
  <2>5. w'.already_indexed = (\E j \in 1 .. k' : Fields(Footer', 0)[j].id = FMD_POINTER)
    <3>1. ~\E j \in 1 .. 0 : Fields(Footer', 0)[j].id = FMD_POINTER OBVIOUS
    <3>2. w'.already_indexed = FALSE BY <1>1 DEF NoWalk
    <3> QED BY <1>1, <3>1, <3>2
  <2> QED BY <1>1, <1>2, <1>3, <2>2, <2>3, <2>4, <2>5 DEF WalkTrue
<1>6. IndexTrue' BY <1>1 DEF IndexTrue
<1> QED BY <1>1, <1>4, <1>5, <1>6 DEF JumpInv

\* The reader opens the output, unless there were no columns.
LEMMA JumpReadFooterIndex ==
  ASSUME JumpInv, ReadFooterIndex
  PROVE  JumpInv'
<1>1. phase = "open" /\ file' = file /\ run' = run /\ w' = w /\ k' = k BY DEF ReadFooterIndex
<1>2. Footer' = Footer BY <1>1 DEF Footer
<1>3. w.row_groups # 0 /\ IndexIn(w, Footer) /\ PointedAt(file.prefix, Footer) BY <1>1 DEF JumpInv, IndexTrue
<1>4. phase' \in {"read", "failed"} /\ (phase' = "failed" => w.columns = 0) BY <1>3, ReaderFails
<1>5. FileTrue' BY <1>1, <1>2, <1>4 DEF JumpInv, FileTrue
<1>6. WalkTrue' BY <1>4 DEF WalkTrue
<1>7. IndexTrue'
  <2>1. PointedAt(file.prefix, Footer)' BY <1>1, <1>2, <1>3 DEF PointedAt
  <2> QED BY <1>1, <1>3, <1>4, <2>1 DEF IndexTrue
<1> QED BY <1>1, <1>4, <1>5, <1>6, <1>7 DEF JumpInv

\* Every step keeps the invariant.
LEMMA JumpStep == JumpInv /\ [Next]_vars => JumpInv'
<1> SUFFICES ASSUME JumpInv, [Next]_vars PROVE JumpInv' OBVIOUS
<1>1. CASE WalkField BY <1>1, JumpWalkField
<1>2. CASE EndWalk BY <1>2, JumpEndWalk
<1>3. CASE Write BY <1>3, JumpWrite
<1>4. CASE ConvertAgain BY <1>4, JumpConvertAgain
<1>5. CASE ReadFooterIndex BY <1>5, JumpReadFooterIndex
<1>6. CASE Ask \/ SkipColumn \/ EmitChunk \/ UNCHANGED vars
  <2>1. UNCHANGED <<file, run, phase, k, w>> BY <1>6 DEF Ask, SkipColumn, EmitChunk, vars
  <2> QED BY <2>1, JumpKept
<1> QED BY <1>1, <1>2, <1>3, <1>4, <1>5, <1>6 DEF Next

\* The invariant of the converter and the reader of its output.
LEMMA JumpInvariant == Spec => []JumpInv
<1>1. Init => JumpInv BY JumpInit
<1>2. JumpInv /\ [Next]_vars => JumpInv' BY JumpStep
<1> QED BY <1>1, <1>2, PTL DEF Spec

\* The walk of a reader that knows nothing of the index is unchanged for every
\* footer that is converted: parquet_to_jumptable.cc puts the pointer in front and
\* rewrites the first header, and every field keeps its id, type and value.
THEOREM SameFieldsKept == Spec => []SameFields
<1>1. JumpInv => SameFields
  <2> SUFFICES ASSUME JumpInv, phase = "write" PROVE Tail(Content(NewFooter)) = Content(Footer)
    BY DEF SameFields
  <2>1. IsBlob(Footer) /\ Parsed(Footer) /\ Len(Fields(Footer, 0)) # 0 /\ WalkHeld(w) BY WritesOnce
  <2>2. w.columns \in Int /\ w.row_groups \in Int /\ Len(w.schema) \in Int BY <2>1, LenProperties DEF WalkHeld
  <2> QED BY <2>1, <2>2, SameContent
<1> QED BY <1>1, JumpInvariant, PTL

\* For every footer that is converted, every offset of the index leads to the
\* token it led to before the shift: field headers, schema elements, chunks and the
\* end of each row group (parquet_to_jumptable.cc:349-412).
THEOREM OffsetsLandTrue == Spec => []OffsetsLand
<1>1. JumpInv => OffsetsLand
  <2>0. phase # "write" => OffsetsLand BY DEF OffsetsLand
  <2> SUFFICES ASSUME JumpInv, phase = "write" PROVE OffsetsLand BY <2>0
  <2>1. /\ IsBlob(Footer) /\ Parsed(Footer) /\ Len(Fields(Footer, 0)) # 0 /\ WalkHeld(w)
        /\ w.top_fields = Tops(Len(Fields(Footer, 0)))
    BY WritesOnce
  <2> QED BY <2>1, OffsetsTrue DEF OffsetsLand
<1> QED BY <1>1, JumpInvariant, PTL

\* The output has one pointer, and it tells the place of the index in the whole
\* file: no file is indexed twice, and the prefix is counted in a full file.
THEOREM PointerTold == Spec => []PointerTrue
<1>1. JumpInv => PointerTrue BY DEF JumpInv, IndexTrue, PointedAt, PointerTrue
<1> QED BY <1>1, JumpInvariant, PTL

\* ReadFooterIndex (footer_formats.h) refuses an output for one reason: its first
\* row group has no columns.
THEOREM OutputsOpen == Spec => []Opens
<1>1. JumpInv => Opens BY DEF JumpInv, IndexTrue, Opens
<1> QED BY <1>1, JumpInvariant, PTL

-----------------------------------------------------------------------------
(* Packed offsets.                                                          *)

\* Sequences of one length put behind one another: where element b of part j is.
InParts(whole, seqs, m) ==
  /\ Len(whole) = m * Len(seqs)
  /\ \A j \in 0 .. Len(seqs) - 1 : \A b \in 1 .. m :
       m * j + b \in 1 .. m * Len(seqs) /\ whole[m * j + b] = seqs[j + 1][b]

\* Each part has its place in the whole, a multiple of the common length.
LEMMA EqualParts ==
  ASSUME NEW S, NEW m \in Nat, NEW seqs \in Seq(Seq(S)), \A j \in 1 .. Len(seqs) : Len(seqs[j]) = m
  PROVE  Concatenated(seqs) \in Seq(S) /\ InParts(Concatenated(seqs), seqs, m)
<1>1. PICK n \in Nat : n = Len(seqs) /\ \A j \in 1 .. n : seqs[j] \in Seq(S) /\ Len(seqs[j]) = m
  BY LenProperties, ElementOfSeq
<1>2. CASE n = 0
  <2>1. seqs = <<>> BY <1>1, <1>2, EmptySeq
  <2>2. Concatenated(seqs) = <<>> BY <1>1, <1>2, <2>1 DEF Concatenated
  <2> QED BY <1>1, <1>2, <2>2, EmptySeq DEF InParts
<1>3. CASE n # 0
  <2>1. PICK g \in [Nat -> Seq(S)] :
          /\ g[0] = <<>> /\ \A l \in 0 .. n - 1 : g[l + 1] = g[l] \o seqs[l + 1]
          /\ Concatenated(seqs) = g[n]
    BY <1>1, <1>3, FlattenedBy
  <2> DEFINE Good(l) == /\ Len(g[l]) = m * l
                        /\ \A j \in 0 .. l - 1 : \A b \in 1 .. m :
                             m * j + b \in 1 .. m * l /\ g[l][m * j + b] = seqs[j + 1][b]
             P == {l \in Nat : l <= n => Good(l)}
  <2>2. 0 \in P
    <3>1. Len(g[0]) = m * 0 BY <2>1
    <3>2. 0 .. 0 - 1 = {} OBVIOUS
    <3>3. Good(0) BY <3>1, <3>2
    <3> HIDE DEF Good
    <3> QED BY <3>3
  <2>3. ASSUME NEW l \in Nat, l \in P PROVE l + 1 \in P
    <3>0. l + 1 \in Nat OBVIOUS
    <3> SUFFICES ASSUME l + 1 <= n PROVE Good(l + 1)
      <4> HIDE DEF Good
      <4> QED BY <3>0, Zenon
    <3>1. Good(l)
      <4> HIDE DEF Good
      <4> QED BY <1>1, <2>3
    <3>2. l \in 0 .. n - 1 /\ l + 1 \in 1 .. n OBVIOUS
    <3>3. g[l] \in Seq(S) /\ seqs[l + 1] \in Seq(S) /\ Len(seqs[l + 1]) = m /\ g[l + 1] = g[l] \o seqs[l + 1]
      BY <1>1, <2>1, <3>2
    <3>4. PICK x \in Nat : x = m * l OBVIOUS
    <3>5. m * (l + 1) = x + m BY <3>4
    <3>6. Len(g[l]) = x BY <3>1, <3>4
    <3>7. /\ Len(g[l + 1]) = x + m
          /\ \A i \in 1 .. x + m : g[l + 1][i] = IF i <= x THEN g[l][i] ELSE seqs[l + 1][i - x]
      <4>1. PICK u \in Seq(S), v \in Seq(S) : u = g[l] /\ v = seqs[l + 1] BY <3>3
      <4>2. Len(u) = x /\ Len(v) = m BY <3>3, <3>6, <4>1
      <4>3. Len(u \o v) = x + m /\ \A i \in 1 .. x + m : (u \o v)[i] = IF i <= x THEN u[i] ELSE v[i - x]
        <5>1. /\ Len(u \o v) = Len(u) + Len(v)
              /\ \A i \in 1 .. Len(u) + Len(v) : (u \o v)[i] = IF i <= Len(u) THEN u[i] ELSE v[i - Len(u)]
          BY ConcatProperties
        <5> QED BY <4>2, <5>1
      <4> QED BY <3>3, <4>1, <4>3
    <3>8. ASSUME NEW j \in 0 .. l, NEW b \in 1 .. m
          PROVE  m * j + b \in 1 .. x + m /\ g[l + 1][m * j + b] = seqs[j + 1][b]
      <4>1. CASE j = l
        <5>1. m * j + b = x + b BY <3>4, <4>1
        <5>2. x + b \in 1 .. x + m /\ ~(x + b <= x) /\ (x + b) - x = b OBVIOUS
        <5> QED BY <3>7, <4>1, <5>1, <5>2
      <4>2. CASE j # l
        <5>1. j \in 0 .. l - 1 BY <4>2
        <5>2. m * j + b \in 1 .. m * l /\ g[l][m * j + b] = seqs[j + 1][b] BY <3>1, <5>1
        <5>3. PICK i \in 1 .. x : i = m * j + b BY <3>4, <5>2
        <5>4. i \in 1 .. x + m /\ i <= x BY <5>3
        <5> QED BY <3>7, <5>2, <5>3, <5>4
      <4> QED BY <4>1, <4>2
    <3>9. 0 .. (l + 1) - 1 = 0 .. l OBVIOUS
    <3> QED BY <3>5, <3>7, <3>8, <3>9
  <2> HIDE DEF P
  <2>4. Nat \subseteq P BY <2>2, <2>3, Induct
  <2>5. Good(n)
    <3>1. n \in P BY <2>4
    <3> HIDE DEF Good
    <3> QED BY <1>1, <3>1 DEF P
  <2> QED BY <1>1, <2>1, <2>5 DEF InParts
<1> QED BY <1>2, <1>3

\* A width is of one to eight bytes, and holds what eight bytes can hold.
LEMMA WidthHolds ==
  ASSUME NEW g
  PROVE  /\ ByteWidth(g) \in 1 .. 8
         /\ g < 2 ^ (ByteBits * 8) => g < 2 ^ (ByteBits * ByteWidth(g))
<1> DEFINE S == {m \in 1 .. 8 : m = 8 \/ g < 2 ^ (ByteBits * m)}
           Is(n) == /\ n = 8 \/ g < 2 ^ (ByteBits * n)
                    /\ \A m \in 1 .. n - 1 : ~(g < 2 ^ (ByteBits * m))
<1>1. 8 \in S OBVIOUS
<1>2. PICK m \in S : \A l \in S : m <= l
  <2>1. S \subseteq Nat OBVIOUS
  <2> HIDE DEF S
  <2> QED BY <1>1, <2>1, LeastNatural
<1>3. m \in 1 .. 8 /\ (m = 8 \/ g < 2 ^ (ByteBits * m)) OBVIOUS
<1>4. ASSUME NEW l \in 1 .. m - 1, g < 2 ^ (ByteBits * l) PROVE FALSE
  <2>1. l \in S /\ ~(m <= l) BY <1>3, <1>4
  <2> QED BY <1>2, <2>1
<1>5. Is(m) BY <1>3, <1>4
<1>6. ByteWidth(g) = CHOOSE n \in 1 .. 8 : Is(n) BY DEF ByteWidth
<1> HIDE DEF Is
<1>7. ByteWidth(g) \in 1 .. 8 /\ Is(ByteWidth(g)) BY <1>3, <1>5, <1>6
<1>8. PICK n \in 1 .. 8 : n = ByteWidth(g) BY <1>7
<1>9. n = 8 \/ g < 2 ^ (ByteBits * n) BY <1>7, <1>8 DEF Is
<1> QED BY <1>7, <1>8, <1>9

\* The greatest of a list of numbers.
LEMMA GreatestIs ==
  ASSUME NEW M \in Nat, NEW vals, NEW n \in Nat, vals \in [1 .. n -> 0 .. M]
  PROVE  Greatest(vals) \in 0 .. M /\ \A j \in 1 .. n : vals[j] <= Greatest(vals)
<1> DEFINE T == {0} \cup ToSet(vals)
<1>1. T \subseteq 0 .. M /\ T # {} /\ \A j \in 1 .. n : vals[j] \in ToSet(vals) BY DEF ToSet
<1> HIDE DEF T
<1>2. PICK x \in T : \A y \in T : y <= x BY <1>1, GreatestNatural
<1>3. \A y \in ToSet(vals) : y <= x BY <1>2 DEF T
<1>4. Greatest(vals) = CHOOSE v \in T : \A y \in ToSet(vals) : y <= v BY DEF Greatest, T
<1>5. Greatest(vals) \in T /\ \A y \in ToSet(vals) : y <= Greatest(vals) BY <1>3, <1>4
<1> QED BY <1>1, <1>5

\* The bytes give the numbers back, in a width of one to eight.
Gives(bytes, vals, n) ==
  \E bw \in 1 .. 8 : /\ Len(bytes) = bw * n
                    /\ \A j \in 0 .. n - 1 : Unpacked(bytes, bw, j) = vals[j + 1]

\* What is packed in whole bytes is read back: the reader divides for the width,
\* and the digits of a number below eight bytes add up to it.
LEMMA PackReads ==
  ASSUME NEW M \in Nat, M < 2 ^ (ByteBits * 8), NEW n \in Nat, NEW vals, vals \in [1 .. n -> 0 .. M]
  PROVE  Gives(PackBytes(vals), vals, n)
<1>1. PICK bw \in 1 .. 8 : bw = ByteWidth(Greatest(vals)) BY WidthHolds
<1>2. PICK B \in Nat \ {0} : B = ByteBits BY JumpAssumption
<1>3. B * 8 \in Nat /\ B * bw \in Nat OBVIOUS
<1>4. PICK Q \in Nat \ {0} : Q = 2 ^ (B * bw) BY <1>3, Powers
<1>5. PICK E \in Nat \ {0} : E = 2 ^ (B * 8) BY <1>3, Powers
<1>6. \A j \in 1 .. n : vals[j] \in Nat /\ vals[j] < Q
  <2>1. PICK g \in 0 .. M : g = Greatest(vals) /\ \A j \in 1 .. n : vals[j] <= g BY GreatestIs
  <2>2. g < E BY <1>2, <1>5
  <2>3. g < Q BY <1>1, <1>2, <1>4, <1>5, <2>1, <2>2, WidthHolds
  <2> QED BY <2>1, <2>3
<1> DEFINE P == [j \in 1 .. n |-> [b \in 1 .. bw |-> ByteOf(vals[j], b - 1)]]
           T == {ByteOf(x, b - 1) : x \in Nat, b \in 1 .. bw}
<1>7. Len(vals) = n /\ PackBytes(vals) = Concatenated(P)
  <2>1. Len(vals) = n OBVIOUS
  <2> QED BY <1>1, <2>1 DEF PackBytes, FlattenSeq, Concatenated
<1>8. \A j \in 1 .. n : P[j] \in Seq(T) /\ Len(P[j]) = bw
  <2> SUFFICES ASSUME NEW j \in 1 .. n PROVE P[j] \in Seq(T) /\ Len(P[j]) = bw OBVIOUS
  <2>1. P[j] = [b \in 1 .. bw |-> ByteOf(vals[j], b - 1)] OBVIOUS
  <2>2. \A b \in 1 .. bw : ByteOf(vals[j], b - 1) \in T BY <1>6
  <2> HIDE DEF T, P
  <2>3. P[j] \in [1 .. bw -> T] BY <2>1, <2>2
  <2> QED BY <2>3, SeqDef, LenProperties
<1>9. P \in Seq(Seq(T)) /\ Len(P) = n
  <2>1. DOMAIN P = 1 .. n OBVIOUS
  <2>2. P \in [1 .. n -> Seq(T)]
    <3> HIDE DEF T
    <3> QED BY <1>8
  <2> HIDE DEF P, T
  <2> QED BY <2>2, SeqDef, LenProperties
<1>10. \A j \in 1 .. n, b \in 1 .. bw : P[j][b] = ByteOf(vals[j], b - 1) OBVIOUS
<1> HIDE DEF P, T
<1>11. PICK bytes : bytes = PackBytes(vals) OBVIOUS
<1>12. /\ Len(bytes) = bw * n
       /\ \A j \in 0 .. n - 1 : \A b \in 1 .. bw :
            bw * j + b \in 1 .. bw * n /\ bytes[bw * j + b] = P[j + 1][b]
  <2>1. bw \in Nat /\ \A j \in 1 .. Len(P) : Len(P[j]) = bw BY <1>8, <1>9
  <2>2. /\ Len(Concatenated(P)) = bw * Len(P)
        /\ \A j \in 0 .. Len(P) - 1 : \A b \in 1 .. bw :
             bw * j + b \in 1 .. bw * Len(P) /\ Concatenated(P)[bw * j + b] = P[j + 1][b]
    <3>1. PICK seqs \in Seq(Seq(T)) : seqs = P BY <1>9
    <3>2. \A j \in 1 .. Len(seqs) : Len(seqs[j]) = bw BY <2>1, <3>1
    <3>3. InParts(Concatenated(seqs), seqs, bw) BY <2>1, <3>2, EqualParts
    <3> QED BY <3>1, <3>3 DEF InParts
  <2> QED BY <1>7, <1>9, <1>11, <2>2
<1>13. ASSUME NEW j \in 0 .. n - 1 PROVE Unpacked(bytes, bw, j) = vals[j + 1]
  <2>1. j + 1 \in 1 .. n OBVIOUS
  <2>2. PICK v \in Nat : v = vals[j + 1] /\ v < Q BY <1>6, <2>1
  <2>3. PICK x \in Nat : x = bw * j OBVIOUS
  <2>4. PICK L \in Nat : L = bw * n OBVIOUS
  <2>5. \A b \in 0 .. bw - 1 : x + b < L /\ bytes[x + b + 1] = ByteOf(v, b)
    <3> SUFFICES ASSUME NEW b \in 0 .. bw - 1 PROVE x + b < L /\ bytes[x + b + 1] = ByteOf(v, b)
      OBVIOUS
    <3>1. b + 1 \in 1 .. bw /\ x + (b + 1) = x + b + 1 /\ (b + 1) - 1 = b OBVIOUS
    <3>2. bw * j + (b + 1) \in 1 .. bw * n /\ bytes[bw * j + (b + 1)] = P[j + 1][b + 1] BY <1>12, <3>1
    <3>3. P[j + 1][b + 1] = ByteOf(v, b) BY <1>10, <2>1, <2>2, <3>1
    <3> QED BY <2>3, <2>4, <3>1, <3>2, <3>3
  <2> DEFINE f == [b \in 0 .. bw - 1 |-> bytes[x + b + 1] * 2 ^ (B * b)]
  <2>6. Unpacked(bytes, bw, j) = SumFunctionOnSet(f, 0 .. bw - 1)
    <3>1. {b \in 0 .. bw - 1 : bw * j + b < Len(bytes)} = 0 .. bw - 1 BY <1>12, <2>3, <2>4, <2>5
    <3>2. Unpacked(bytes, bw, j) = SumFunction(f)
      BY <1>2, <2>3, <3>1 DEF Unpacked
    <3>3. DOMAIN f = 0 .. bw - 1 OBVIOUS
    <3> HIDE DEF f
    <3> QED BY <3>2, <3>3 DEF SumFunction
  <2>7. \A b \in 0 .. bw - 1 : f[b] = ((v \div 2 ^ (B * b)) % 2 ^ B) * 2 ^ (B * b)
    <3> SUFFICES ASSUME NEW b \in 0 .. bw - 1
                 PROVE  f[b] = ((v \div 2 ^ (B * b)) % 2 ^ B) * 2 ^ (B * b)
      OBVIOUS
    <3>1. bytes[x + b + 1] = (v \div 2 ^ (B * b)) % 2 ^ B BY <1>2, <2>5 DEF ByteOf
    <3>2. f[b] = bytes[x + b + 1] * 2 ^ (B * b) OBVIOUS
    <3> HIDE DEF f
    <3> QED BY <3>1, <3>2, Zenon
  <2> HIDE DEF f
  <2>8. bw \in Nat OBVIOUS
  <2>9. SumFunctionOnSet(f, 0 .. bw - 1) = v % 2 ^ (B * bw) BY <2>7, <2>8, DigitsSum
  <2>10. v % Q = v
    <3>1. v \in 0 .. Q - 1 BY <2>2
    <3>2. (Q * 0 + v) % Q = v BY <3>1, QuotientRemainder
    <3>3. Q * 0 + v = v OBVIOUS
    <3> QED BY <3>2, <3>3
  <2> QED BY <1>4, <2>2, <2>6, <2>9, <2>10
<1> QED BY <1>11, <1>12, <1>13 DEF Gives

\* One sequence behind nothing is that sequence.
LEMMA OnePart ==
  ASSUME NEW S, NEW x \in Seq(S)
  PROVE  Concatenated(<<x>>) = x
<1>1. PICK seqs \in Seq(Seq(S)) : seqs = <<x>>
  <2>1. <<x>> \in Seq(Seq(S)) OBVIOUS
  <2> QED BY <2>1
<1>2. Len(seqs) = 1 /\ Len(seqs) # 0 /\ seqs[1] = x BY <1>1
<1>3. PICK g \in [Nat -> Seq(S)] :
        /\ g[0] = <<>> /\ \A l \in 0 .. Len(seqs) - 1 : g[l + 1] = g[l] \o seqs[l + 1]
        /\ Concatenated(seqs) = g[Len(seqs)]
  BY <1>2, FlattenedBy, Zenon
<1>4. 0 \in 0 .. Len(seqs) - 1 /\ 0 + 1 = 1 BY <1>2
<1>5. Concatenated(seqs) = <<>> \o x BY <1>2, <1>3, <1>4
<1> QED BY <1>1, <1>5, ConcatEmptySeq

-----------------------------------------------------------------------------
(* Structs and lists that are moved.                                        *)

\* The fields of a struct inside the blob: their values lie inside.
LEMMA StructInside ==
  ASSUME NEW s, IsBlob(s), NEW p \in Nat, Skip(s, p, "struct") <= Len(s)
  PROVE  LET F == Fields(s, p) IN
         /\ Len(F) \in Nat /\ DOMAIN F = 1 .. Len(F) /\ IsFields(s, p, F, Len(F))
         /\ \A j \in 1 .. Len(F) :
              /\ F[j].type \in Types \ {"stop"} /\ F[j].value \in Nat /\ F[j].value >= p
              /\ F[j].value < Len(s) /\ Skip(s, F[j].value, F[j].type) <= Len(s)
<1> DEFINE F == Fields(s, p)
           n == Len(F)
           E == Skip(s, p, "struct")
<1>1. n \in Nat /\ IsFields(s, p, F, n) BY FieldsExist
<1>2. DOMAIN F = 1 .. n BY <1>1 DEF IsFields
<1> HIDE DEF F, n
<1>3. Len(s) \in Nat BY BlobIs
<1>4. ASSUME NEW j \in 1 .. n
      PROVE  /\ F[j].type \in Types \ {"stop"} /\ F[j].value \in Nat /\ F[j].value >= p
             /\ F[j].value < Len(s) /\ Skip(s, F[j].value, F[j].type) <= Len(s)
  <2>1. j \in 1 .. n + 1 /\ j + 1 \in 1 .. n + 1 BY <1>1
  <2>2. Place(s, p, F, j + 1) < E BY <1>1, <2>1, StructEnds
  <2>3. Place(s, p, F, j) \in Nat /\ Place(s, p, F, j) >= p /\ Place(s, p, F, j + 1) \in Nat
    BY <1>1, <2>1, PlacesGrow
  <2>4. /\ F[j].type \in Types \ {"stop"} /\ F[j].at = Place(s, p, F, j)
        /\ F[j].value \in {F[j].at + 1, F[j].at + 2} /\ F[j].value \in Nat
        /\ F[j].value <= Place(s, p, F, j + 1) /\ Place(s, p, F, j + 1) = Skip(s, F[j].value, F[j].type)
    BY <1>1, PlacesGrow
  <2>5. E \in Nat
    <3>1. "struct" \in Types BY DEF Types
    <3> QED BY <3>1, SkipForward
  <2> QED BY <1>3, <2>2, <2>3, <2>4, <2>5
<1> QED BY <1>1, <1>2, <1>4 DEF F, n

\* A struct behind the first header has the same fields where it is moved to.
LEMMA FieldsMoved ==
  ASSUME NEW s, IsBlob(s), NEW t, IsBlob(t), NEW o \in Nat, NEW d \in Nat, Agree(s, t, o, Len(s), d),
         NEW p \in Nat, p >= o, Skip(s, p, "struct") <= Len(s)
  PROVE  Fields(t, p + d) = [j \in 1 .. Len(Fields(s, p)) |-> Moved(Fields(s, p)[j], d)]
<1> DEFINE F == Fields(s, p)
           n == Len(F)
           E == Skip(s, p, "struct")
           G == [j \in 1 .. n |-> Moved(F[j], d)]
           q == p + d
<1>1. n \in Nat /\ IsFields(s, p, F, n) BY FieldsExist
<1> HIDE DEF F, n
<1>2. PICK L \in Nat : L = Len(s) BY BlobIs
<1>3. E \in Nat /\ E <= L
  <2>1. "struct" \in Types BY DEF Types
  <2> QED BY <1>2, <2>1, SkipForward
<1>4. /\ \A j \in 1 .. n + 1 : Place(s, p, F, j) < E
      /\ E = Place(s, p, F, n + 1) + 1
  BY <1>1, StructEnds
<1> HIDE DEF E
<1>5. \A j \in 1 .. n + 1 : Place(s, p, F, j) \in Nat /\ Place(s, p, F, j) >= p /\ IdBefore(F, j) \in Int
  BY <1>1, PlacesGrow
<1>6. \A j \in 1 .. n : /\ F[j] \in FieldRecords /\ F[j].type \in Types \ {"stop"}
                        /\ F[j].at = Place(s, p, F, j) /\ F[j].value \in {F[j].at + 1, F[j].at + 2}
                        /\ F[j].value \in Nat /\ F[j].value <= Place(s, p, F, j + 1)
                        /\ Place(s, p, F, j + 1) = Skip(s, F[j].value, F[j].type)
  BY <1>1, PlacesGrow
<1>7. \A j \in 1 .. n : G[j] = Moved(F[j], d) OBVIOUS
<1>8. G \in [1 .. n -> FieldRecords]
  <2> SUFFICES ASSUME NEW j \in 1 .. n PROVE Moved(F[j], d) \in FieldRecords OBVIOUS
  <2>1. F[j].id \in Int /\ F[j].type \in Types /\ F[j].at \in Nat /\ F[j].value \in Nat
    BY <1>6 DEF FieldRecords
  <2>2. F[j].at + d \in Nat /\ F[j].value + d \in Nat BY <2>1
  <2> QED BY <2>1, <2>2 DEF Moved, FieldRecords
<1> HIDE DEF G
<1>9. q \in Nat OBVIOUS
<1>10. ASSUME NEW j \in 1 .. n + 1
       PROVE  Place(t, q, G, j) = Place(s, p, F, j) + d /\ IdBefore(G, j) = IdBefore(F, j)
  <2>1. CASE j = 1 BY <2>1 DEF Place, IdBefore
  <2>2. CASE j # 1
    <3> DEFINE l == j - 1
    <3>1. l \in 1 .. n /\ l + 1 = j BY <1>1, <2>2
    <3>2. G[l].value = F[l].value + d /\ G[l].type = F[l].type /\ G[l].id = F[l].id
      <4> HIDE DEF l
      <4>1. G[l] = Moved(F[l], d) BY <1>7, <3>1
      <4> QED BY <4>1 DEF Moved
    <3>3. Skip(s, F[l].value, F[l].type) = Place(s, p, F, j) /\ F[l].value \in Nat /\ F[l].value >= o
          /\ F[l].type \in Types /\ Place(s, p, F, j) <= L
      <4> HIDE DEF l
      <4>1. l \in 1 .. n + 1 BY <1>1, <3>1
      <4>2. Place(s, p, F, l) >= p /\ Place(s, p, F, l) \in Nat BY <1>5, <4>1
      <4>3. Place(s, p, F, j) < E /\ Place(s, p, F, j) \in Nat BY <1>4, <1>5
      <4> QED BY <1>3, <1>6, <3>1, <4>2, <4>3
    <3>4. Skip(t, F[l].value + d, F[l].type) = Place(s, p, F, j) + d
      <4> HIDE DEF l
      <4> QED BY <1>2, <3>3, SkipMoved
    <3>5. Place(t, q, G, j) = Skip(t, G[l].value, G[l].type) /\ IdBefore(G, j) = G[l].id
      BY <2>2 DEF Place, IdBefore
    <3>6. IdBefore(F, j) = F[l].id BY <2>2 DEF IdBefore
    <3> HIDE DEF l
    <3> QED BY <3>2, <3>4, <3>5, <3>6
  <2> QED BY <2>1, <2>2
<1>11. ASSUME NEW j \in 1 .. n + 1
       PROVE  NextField(t, Place(t, q, G, j), IdBefore(G, j)) = Moved(NextField(s, Place(s, p, F, j), IdBefore(F, j)), d)
  <2> DEFINE x == Place(s, p, F, j)
             last == IdBefore(F, j)
  <2>1. x \in Nat /\ x >= o /\ last \in Int BY <1>5
  <2>2. NextField(s, x, last).value <= L
    <3>1. CASE j = n + 1
      <4>1. NextField(s, x, last).type = "stop" BY <1>1, <3>1 DEF IsFields
      <4> HIDE DEF last, x
      <4>2. NextField(s, x, last).value = x + 1 BY <2>1, <4>1, NextFieldRead
      <4>3. x + 1 = E BY <1>4, <3>1 DEF x
      <4> QED BY <1>3, <4>2, <4>3
    <3>2. CASE j # n + 1
      <4>1. j \in 1 .. n /\ j + 1 \in 1 .. n + 1 BY <1>1, <3>2
      <4>2. NextField(s, x, last) = F[j] BY <1>1, <4>1 DEF IsFields
      <4>3. F[j].value <= Place(s, p, F, j + 1) /\ Place(s, p, F, j + 1) < E
            /\ F[j].value \in Nat /\ Place(s, p, F, j + 1) \in Nat
        BY <1>4, <1>5, <1>6, <4>1
      <4> QED BY <1>3, <4>2, <4>3
    <3> QED BY <3>1, <3>2
  <2> HIDE DEF x, last
  <2>3. NextField(t, x + d, last) = Moved(NextField(s, x, last), d) BY <1>2, <2>1, <2>2, FieldMoved
  <2> QED BY <1>10, <2>3 DEF x, last
<1>12. ASSUME NEW j \in 1 .. n PROVE G[j].type # "stop" /\ G[j] = NextField(t, Place(t, q, G, j), IdBefore(G, j))
  <2>1. j \in 1 .. n + 1 BY <1>1
  <2>2. F[j].type # "stop" /\ F[j] = NextField(s, Place(s, p, F, j), IdBefore(F, j)) BY <1>1 DEF IsFields
  <2>3. G[j] = Moved(F[j], d) /\ G[j].type = F[j].type BY <1>7 DEF Moved
  <2> QED BY <1>11, <2>1, <2>2, <2>3
<1>13. NextField(t, Place(t, q, G, n + 1), IdBefore(G, n + 1)).type = "stop"
  <2>1. n + 1 \in 1 .. n + 1 BY <1>1
  <2>2. NextField(s, Place(s, p, F, n + 1), IdBefore(F, n + 1)).type = "stop" BY <1>1 DEF IsFields
  <2>3. PICK x : x = NextField(s, Place(s, p, F, n + 1), IdBefore(F, n + 1)) OBVIOUS
  <2>4. NextField(t, Place(t, q, G, n + 1), IdBefore(G, n + 1)) = Moved(x, d) BY <1>11, <2>1, <2>3
  <2> QED BY <2>2, <2>3, <2>4 DEF Moved
<1>14. IsFields(t, q, G, n) BY <1>1, <1>8, <1>12, <1>13 DEF IsFields
<1>15. PICK m \in Nat : IsFields(t, q, Fields(t, q), m) BY <1>9, FieldsExist
<1>16. Fields(t, q) = G BY <1>14, <1>15, FieldsUnique
<1> QED BY <1>16 DEF G, F, n

\* And a list the same items.
LEMMA StartsMoved ==
  ASSUME NEW s, IsBlob(s), NEW t, IsBlob(t), NEW o \in Nat, NEW d \in Nat, Agree(s, t, o, Len(s), d),
         NEW v \in Nat, v >= o, Skip(s, v, "list") <= Len(s)
  PROVE  /\ SizeAt(t, v + d) = SizeAt(s, v) /\ SizeAt(s, v) \in Nat
         /\ Starts(s, v) \in [1 .. SizeAt(s, v) + 1 -> Nat]
         /\ Starts(t, v + d) = [j \in 1 .. SizeAt(s, v) + 1 |-> Starts(s, v)[j] + d]
<1> DEFINE n == SizeAt(s, v)
           S == Starts(s, v)
           T == Starts(t, v + d)
           e == Skip(s, v, "list")
           elem == ElemAt(s, v)
<1>1. PICK L \in Nat : L = Len(s) BY BlobIs
<1>2. e \in Nat /\ e > v /\ e <= L
  <2>1. "list" \in Types BY DEF Types
  <2>2. e \in Nat /\ e >= v /\ (e > v \/ v > Len(s)) BY <2>1, SkipForward
  <2> QED BY <1>1, <2>2
<1>3. At(t, v + d) = At(s, v)
  <2>1. v \in o .. L - 1 BY <1>2
  <2> QED BY <1>1, <2>1 DEF Agree
<1>4. SizeAt(t, v + d) = n /\ ElemAt(t, v + d) = elem BY <1>3 DEF SizeAt, ElemAt
<1>5. /\ n \in Nat /\ elem \in Types /\ S \in [1 .. n + 1 -> Nat] /\ S[1] = v + 1
      /\ \A j \in 1 .. n : S[j + 1] = Skip(s, S[j], elem)
  BY StartsAre
<1>6. \A j \in 1 .. n + 1 : S[j] <= e /\ S[j] > v
  <2>1. v <= Len(s) BY <1>1, <1>2
  <2> QED BY <2>1, ListEnds
<1>7. /\ T \in [1 .. n + 1 -> Nat] /\ T[1] = v + d + 1
      /\ \A j \in 1 .. n : T[j + 1] = Skip(t, T[j], elem)
  <2>1. v + d \in Nat OBVIOUS
  <2>2. /\ Starts(t, v + d) \in [1 .. SizeAt(t, v + d) + 1 -> Nat]
        /\ Starts(t, v + d)[1] = v + d + 1
        /\ \A j \in 1 .. SizeAt(t, v + d) :
             Starts(t, v + d)[j + 1] = Skip(t, Starts(t, v + d)[j], ElemAt(t, v + d))
    BY <2>1, StartsAre
  <2> QED BY <1>4, <2>2
<1> HIDE DEF n, S, T, e, elem
<1> DEFINE P == {m \in Nat : m + 1 \in 1 .. n + 1 => T[m + 1] = S[m + 1] + d}
<1>8. 0 \in P
  <2>1. T[1] = S[1] + d BY <1>5, <1>7
  <2> QED BY <2>1
<1>9. ASSUME NEW m \in Nat, m \in P PROVE m + 1 \in P
  <2> DEFINE j == m + 1
  <2>1. j \in Nat OBVIOUS
  <2>2. ASSUME j + 1 \in 1 .. n + 1 PROVE T[j + 1] = S[j + 1] + d
    <3>1. j \in 1 .. n /\ j \in 1 .. n + 1 BY <1>5, <2>2
    <3>2. T[j] = S[j] + d BY <1>9, <3>1
    <3> HIDE DEF j
    <3>3. S[j] \in Nat /\ S[j] >= o /\ S[j + 1] \in Nat /\ S[j + 1] <= L /\ S[j + 1] = Skip(s, S[j], elem)
      BY <1>2, <1>5, <1>6, <2>2, <3>1
    <3>4. PICK x \in Nat : x = S[j] BY <3>3
    <3>5. Skip(t, x + d, elem) = Skip(s, x, elem) + d BY <1>1, <1>5, <3>3, <3>4, SkipMoved
    <3> QED BY <1>7, <3>1, <3>2, <3>3, <3>4, <3>5
  <2> QED BY <2>1, <2>2
<1>10. Nat \subseteq P
  <2> HIDE DEF P
  <2> QED BY <1>8, <1>9, Induct
<1>11. ASSUME NEW j \in 1 .. n + 1 PROVE T[j] = S[j] + d
  <2>1. j - 1 \in Nat /\ (j - 1) + 1 = j OBVIOUS
  <2>2. j - 1 \in P BY <1>10, <2>1
  <2> QED BY <2>1, <2>2
<1>12. T = [j \in 1 .. n + 1 |-> S[j] + d]
  <2>1. T = [j \in 1 .. n + 1 |-> T[j]] BY <1>7
  <2> QED BY <1>11, <2>1
<1> QED BY <1>4, <1>5, <1>12 DEF n, S, T

-----------------------------------------------------------------------------
(* Regular footers: what every reader finds of them.                        *)

\* The only field with an id: all three ways to look it up find it.
TheField(F, id, type, l) ==
  /\ l \in DOMAIN F /\ F[l].id = id /\ F[l].type = type
  /\ \A j \in DOMAIN F : F[j].id = id <=> j = l

\* A field that is once in its struct is the only one of its id.
LEMMA OnceFound ==
  ASSUME NEW n \in Nat, NEW F, DOMAIN F = 1 .. n, NEW id, NEW type, Once(F, id, type)
  PROVE  \E l \in 1 .. n :
           /\ TheField(F, id, type, l)
           /\ Those(F, id, type) = <<F[l]>> /\ WithId(F, id) = <<F[l]>> /\ FirstOf(F, id) = F[l]
<1>1. PICK l \in 1 .. n : F[l].type = type /\ \A j \in 1 .. n : F[j].id = id <=> j = l BY DEF Once
<1>2. F[l].id = id BY <1>1
<1>3. Only(F, n, id, type, l) BY <1>1 DEF Only
<1>4. Those(F, id, type) = <<F[l]>> BY <1>3, ThoseOnly
<1>5. {j \in DOMAIN F : F[j].id = id} = {j \in DOMAIN F : F[j].id = id /\ F[j].type = type} BY <1>1
<1>6. WithId(F, id) = Those(F, id, type) BY <1>5 DEF WithId, Those
<1>7. FirstOf(F, id) = F[l] BY <1>4, <1>6 DEF FirstOf
<1> QED BY <1>1, <1>2, <1>4, <1>6, <1>7 DEF TheField

\* The fields of a struct that is moved.
MovedFields(F, n, d) == [j \in 1 .. n |-> Moved(F[j], d)]

\* It still is when all fields are moved.
LEMMA OnceMoved ==
  ASSUME NEW n \in Nat, NEW F, DOMAIN F = 1 .. n, NEW d, NEW id, NEW type, Once(F, id, type)
  PROVE  /\ Once(MovedFields(F, n, d), id, type)
         /\ FirstOf(MovedFields(F, n, d), id).value = FirstOf(F, id).value + d
<1> DEFINE G == MovedFields(F, n, d)
<1>1. PICK l \in 1 .. n : TheField(F, id, type, l) /\ FirstOf(F, id) = F[l] BY OnceFound
<1>2. \A j \in 1 .. n : G[j].id = F[j].id /\ G[j].type = F[j].type /\ G[j].value = F[j].value + d
  <2> SUFFICES ASSUME NEW j \in 1 .. n
               PROVE  G[j].id = F[j].id /\ G[j].type = F[j].type /\ G[j].value = F[j].value + d
    OBVIOUS
  <2>1. G[j] = Moved(F[j], d) BY DEF MovedFields
  <2> QED BY <2>1 DEF Moved
<1>3. DOMAIN G = 1 .. n BY DEF MovedFields
<1> HIDE DEF G
<1>4. TheField(G, id, type, l) BY <1>1, <1>2, <1>3 DEF TheField
<1>5. Once(G, id, type) BY <1>4 DEF Once, TheField
<1>6. PICK x \in 1 .. n : TheField(G, id, type, x) /\ FirstOf(G, id) = G[x] BY <1>3, <1>5, OnceFound
<1>7. x = l BY <1>3, <1>4, <1>6 DEF TheField
<1> QED BY <1>1, <1>2, <1>5, <1>6, <1>7 DEF G

\* A chunk has its metadata and its two numbers where it is moved to.
LEMMA ChunkMoved ==
  ASSUME NEW s, IsBlob(s), NEW t, IsBlob(t), NEW o \in Nat, NEW d \in Nat, Agree(s, t, o, Len(s), d),
         NEW c \in Nat, c >= o, Skip(s, c, "struct") <= Len(s), RegularChunk(s, c)
  PROVE  RegularChunk(t, c + d)
<1> DEFINE F == Fields(s, c)
           G == Fields(t, c + d)
           n == Len(F)
           v == FirstOf(F, CC_META_DATA).value
           M == Fields(s, v)
           N == Fields(t, v + d)
<1>1. n \in Nat /\ DOMAIN F = 1 .. n
      /\ \A j \in 1 .. n : F[j].value \in Nat /\ F[j].value >= c /\ Skip(s, F[j].value, F[j].type) <= Len(s)
  BY StructInside
<1>2. G = MovedFields(F, n, d) BY FieldsMoved DEF MovedFields
<1>3. Once(F, CC_META_DATA, "struct") BY DEF RegularChunk
<1> HIDE DEF F, G, n
<1>4. Once(G, CC_META_DATA, "struct") /\ FirstOf(G, CC_META_DATA).value = v + d
  BY <1>1, <1>2, <1>3, OnceMoved
<1>5. v \in Nat /\ v >= o /\ Skip(s, v, "struct") <= Len(s)
  <2>1. PICK l \in 1 .. n : TheField(F, CC_META_DATA, "struct", l) /\ FirstOf(F, CC_META_DATA) = F[l]
    BY <1>1, <1>3, OnceFound
  <2>2. v = F[l].value /\ F[l].type = "struct" BY <2>1 DEF TheField
  <2> HIDE DEF v
  <2>3. F[l].value \in Nat /\ F[l].value >= c /\ Skip(s, F[l].value, "struct") <= Len(s) BY <1>1, <2>2
  <2> QED BY <2>2, <2>3
<1> HIDE DEF v
<1>6. Len(M) \in Nat /\ DOMAIN M = 1 .. Len(M) BY <1>5, StructInside
<1>7. N = MovedFields(M, Len(M), d) BY <1>5, FieldsMoved DEF MovedFields
<1>8. Once(M, CM_TOTAL_COMPRESSED, "int") /\ Once(M, CM_DATA_PAGE_OFFSET, "int") BY DEF RegularChunk, v, F
<1> HIDE DEF M, N
<1>9. Once(N, CM_TOTAL_COMPRESSED, "int") /\ Once(N, CM_DATA_PAGE_OFFSET, "int")
  BY <1>6, <1>7, <1>8, OnceMoved
<1> QED BY <1>4, <1>9 DEF RegularChunk, G, N

\* What ReadColumnInfo finds of a regular chunk is what a materialized one holds.
LEMMA ChunkRead ==
  ASSUME NEW t, IsBlob(t), NEW c \in Nat, RegularChunk(t, c)
  PROVE  LET meta == Fields(t, FirstOf(Fields(t, c), CC_META_DATA).value)
             number(id) == At(t, FirstOf(meta, id).value).a IN
         ReadColumnInfo(t, c) = [off |-> number(CM_DATA_PAGE_OFFSET), size |-> number(CM_TOTAL_COMPRESSED)]
<1> DEFINE F == Fields(t, c)
           v == FirstOf(F, CC_META_DATA).value
           M == Fields(t, v)
<1>1. PICK n \in Nat : IsFields(t, c, F, n) /\ Len(F) = n BY FieldsExist
<1>2. DOMAIN F = 1 .. n /\ \A j \in 1 .. n : F[j] \in FieldRecords BY <1>1 DEF IsFields
<1>3. Once(F, CC_META_DATA, "struct") BY DEF RegularChunk
<1> HIDE DEF F
<1>4. PICK l \in 1 .. n : /\ TheField(F, CC_META_DATA, "struct", l) /\ FirstOf(F, CC_META_DATA) = F[l]
                           /\ Those(F, CC_META_DATA, "struct") = <<F[l]>>
  BY <1>2, <1>3, OnceFound
<1>5. v = F[l].value /\ v \in Nat BY <1>2, <1>4 DEF FieldRecords
<1>6. Once(M, CM_TOTAL_COMPRESSED, "int") /\ Once(M, CM_DATA_PAGE_OFFSET, "int") BY DEF RegularChunk, F
<1> HIDE DEF v
<1>7. PICK m \in Nat : IsFields(t, v, M, m) /\ Len(M) = m BY <1>5, FieldsExist
<1> HIDE DEF M
<1>8. M \in [1 .. m -> FieldRecords] /\ DOMAIN M = 1 .. m BY <1>7 DEF IsFields
<1>9. FlattenSeq([j \in DOMAIN Those(F, CC_META_DATA, "struct") |->
                    Fields(t, Those(F, CC_META_DATA, "struct")[j].value)]) = M
  <2>1. [j \in DOMAIN <<F[l]>> |-> Fields(t, <<F[l]>>[j].value)] = <<M>> BY <1>5 DEF M
  <2>2. M \in Seq(FieldRecords) BY <1>8, SeqDef
  <2>3. Concatenated(<<M>>) = M BY <2>2, OnePart
  <2>4. FlattenSeq(<<M>>) = M BY <2>3 DEF FlattenSeq, Concatenated
  <2>5. [j \in DOMAIN Those(F, CC_META_DATA, "struct") |->
           Fields(t, Those(F, CC_META_DATA, "struct")[j].value)] = <<M>>
    BY <1>4, <2>1
  <2> QED BY <2>4, <2>5
<1>10. ASSUME NEW id, Once(M, id, "int") PROVE LastNum(t, M, id) = At(t, FirstOf(M, id).value).a
  <2>1. PICK x \in 1 .. m : WithId(M, id) = <<M[x]>> /\ FirstOf(M, id) = M[x] BY <1>8, <1>10, OnceFound
  <2>2. <<M[x]>> # <<>> /\ Last(<<M[x]>>) = M[x] BY DEF Last
  <2> QED BY <2>1, <2>2 DEF LastNum
<1>11. LastNum(t, M, CM_DATA_PAGE_OFFSET) = At(t, FirstOf(M, CM_DATA_PAGE_OFFSET).value).a
       /\ LastNum(t, M, CM_TOTAL_COMPRESSED) = At(t, FirstOf(M, CM_TOTAL_COMPRESSED).value).a
  BY <1>6, <1>10
<1>12. ReadColumnInfo(t, c) = [off |-> LastNum(t, M, CM_DATA_PAGE_OFFSET), size |-> LastNum(t, M, CM_TOTAL_COMPRESSED)]
  BY <1>9 DEF ReadColumnInfo, F
<1> QED BY <1>11, <1>12 DEF M, v, F

\* A row group has its chunks where it is moved to.
LEMMA GroupMoved ==
  ASSUME NEW s, IsBlob(s), NEW t, IsBlob(t), NEW o \in Nat, NEW d \in Nat, Agree(s, t, o, Len(s), d),
         NEW g \in Nat, g >= o, Skip(s, g, "struct") <= Len(s), NEW n, RegularGroup(s, g, n),
         ElemAt(s, FirstOf(Fields(s, g), RG_COLUMNS).value) = "struct"
  PROVE  LET v == FirstOf(Fields(s, g), RG_COLUMNS).value IN
         /\ n \in Nat /\ n = SizeAt(s, v) /\ Starts(s, v) \in [1 .. n + 1 -> Nat]
         /\ \A c \in 1 .. n + 1 : Starts(s, v)[c] <= Len(s)
         /\ RegularGroup(t, g + d, n)
         /\ Chunks(t, g + d) = [c \in 1 .. n |-> Starts(s, v)[c] + d]
<1> DEFINE F == Fields(s, g)
           G == Fields(t, g + d)
           m == Len(F)
           v == FirstOf(F, RG_COLUMNS).value
           size == SizeAt(s, v)
           S == Starts(s, v)
<1>1. /\ m \in Nat /\ DOMAIN F = 1 .. m /\ IsFields(s, g, F, m)
      /\ \A j \in 1 .. m : F[j].value \in Nat /\ F[j].value >= g /\ Skip(s, F[j].value, F[j].type) <= Len(s)
  BY StructInside
<1>2. G = MovedFields(F, m, d) BY FieldsMoved DEF MovedFields
<1>3. Once(F, RG_COLUMNS, "list") BY DEF RegularGroup
<1>4. ElemAt(s, v) = "struct" OBVIOUS
<1>5. PICK L \in Nat : L = Len(s) BY BlobIs
<1>6. Skip(s, g, "struct") \in Nat /\ Skip(s, g, "struct") <= L
  <2>1. "struct" \in Types BY DEF Types
  <2> QED BY <1>5, <2>1, SkipForward
<1> HIDE DEF F, G, m
<1>7. Once(G, RG_COLUMNS, "list") /\ FirstOf(G, RG_COLUMNS).value = v + d BY <1>1, <1>2, <1>3, OnceMoved
<1>8. PICK l \in 1 .. m : F[l].type = "list" /\ v = F[l].value
  <2>1. PICK l \in 1 .. m : TheField(F, RG_COLUMNS, "list", l) /\ FirstOf(F, RG_COLUMNS) = F[l]
    BY <1>1, <1>3, OnceFound
  <2> QED BY <2>1 DEF TheField
<1> HIDE DEF v
<1>9. v \in Nat /\ v >= o /\ Skip(s, v, "list") <= Len(s)
  <2>1. F[l].value \in Nat /\ F[l].value >= g /\ Skip(s, F[l].value, F[l].type) <= Len(s) BY <1>1
  <2> QED BY <1>8, <2>1
<1>10. /\ size \in Nat /\ S \in [1 .. size + 1 -> Nat]
       /\ \A c \in 1 .. size + 1 : S[c] > v /\ Skip(s, S[c], "struct") <= Skip(s, g, "struct")
  <2>1. ElemAt(s, F[l].value) = "struct" BY <1>4, <1>8
  <2> QED BY <1>1, <1>8, <2>1, ItemsInside
<1>11. SizeAt(t, v + d) = size /\ Starts(t, v + d) = [c \in 1 .. size + 1 |-> S[c] + d]
  BY <1>9, StartsMoved
<1> HIDE DEF size, S
<1>12. \A c \in 1 .. size + 1 : /\ S[c] \in Nat /\ S[c] >= o /\ Skip(s, S[c], "struct") <= Len(s)
                                /\ S[c] <= Len(s)
  <2> SUFFICES ASSUME NEW c \in 1 .. size + 1
               PROVE  S[c] \in Nat /\ S[c] >= o /\ Skip(s, S[c], "struct") <= Len(s) /\ S[c] <= Len(s)
    OBVIOUS
  <2>1. S[c] \in Nat BY <1>10
  <2>2. Skip(s, S[c], "struct") \in Nat /\ Skip(s, S[c], "struct") >= S[c]
    <3>1. "struct" \in Types BY DEF Types
    <3> QED BY <2>1, <3>1, SkipForward
  <2>3. S[c] > v /\ Skip(s, S[c], "struct") <= Skip(s, g, "struct") BY <1>10
  <2> QED BY <1>5, <1>6, <1>9, <2>1, <2>2, <2>3
<1>13. Chunks(s, g) = [c \in 1 .. size |-> S[c]] BY DEF Chunks, Items, S, size, v, F
<1>14. Chunks(t, g + d) = [c \in 1 .. size |-> S[c] + d]
  <2>1. Chunks(t, g + d) = Items(t, v + d) BY <1>7 DEF Chunks, G
  <2>2. Items(t, v + d) = [c \in 1 .. size |-> Starts(t, v + d)[c]] BY <1>11 DEF Items
  <2>3. \A c \in 1 .. size : c \in 1 .. size + 1 BY <1>10
  <2> QED BY <1>11, <2>1, <2>2, <2>3
<1>15. n = size
  <2>1. Len(Chunks(s, g)) = n BY DEF RegularGroup
  <2> QED BY <1>10, <1>13, <2>1
<1>16. ASSUME NEW c \in 1 .. size PROVE RegularChunk(t, S[c] + d)
  <2>1. c \in 1 .. size + 1 BY <1>10
  <2>2. RegularChunk(s, S[c])
    <3>1. S[c] \in Range(Chunks(s, g)) BY <1>13 DEF Range
    <3> QED BY <3>1 DEF RegularGroup
  <2> QED BY <1>12, <2>1, <2>2, ChunkMoved
<1>17. Len(Chunks(t, g + d)) = n BY <1>10, <1>14, <1>15
<1>18. \A chunk \in Range(Chunks(t, g + d)) : RegularChunk(t, chunk) BY <1>14, <1>16 DEF Range
<1>19. RegularGroup(t, g + d, n) BY <1>7, <1>17, <1>18 DEF RegularGroup, G
<1>20. /\ n \in Nat /\ S \in [1 .. n + 1 -> Nat] /\ \A c \in 1 .. n + 1 : S[c] <= Len(s)
       /\ Chunks(t, g + d) = [c \in 1 .. n |-> S[c] + d]
  BY <1>10, <1>12, <1>14, <1>15
<1> QED BY <1>15, <1>19, <1>20 DEF S, size, v, F

\* The numbers of every chunk, row group by row group.
GridOf(t, groups, R, n) == [g \in 1 .. R |-> [c \in 1 .. n |-> ReadColumnInfo(t, Chunks(t, groups[g])[c])]]

\* Over a regular footer the walk's grid and the materialized one are the chunks' numbers.
LEMMA GridsFound ==
  ASSUME NEW t, IsBlob(t), Once(Fields(t, 0), FMD_ROW_GROUPS, "list"),
         NEW R \in Nat, NEW n \in Nat, NEW groups \in [1 .. R -> Nat],
         groups = Items(t, FirstOf(Fields(t, 0), FMD_ROW_GROUPS).value),
         \A g \in 1 .. R : RegularGroup(t, groups[g], n) /\ Chunks(t, groups[g]) \in [1 .. n -> Nat]
  PROVE  WalkGrid(t) = GridOf(t, groups, R, n) /\ StandardGrid(t) = GridOf(t, groups, R, n)
<1> DEFINE F == Fields(t, 0)
           C(g) == Chunks(t, groups[g])
           list(g) == Those(Fields(t, groups[g]), RG_COLUMNS, "list")
           first(g) == FirstOf(Fields(t, groups[g]), RG_COLUMNS)
<1>1. Last(Those(F, FMD_ROW_GROUPS, "list")) = FirstOf(F, FMD_ROW_GROUPS)
  <2>1. Len(F) \in Nat /\ DOMAIN F = 1 .. Len(F) BY TopFields
  <2>2. Once(F, FMD_ROW_GROUPS, "list") OBVIOUS
  <2> HIDE DEF F
  <2>3. PICK l \in 1 .. Len(F) :
          Those(F, FMD_ROW_GROUPS, "list") = <<F[l]>> /\ FirstOf(F, FMD_ROW_GROUPS) = F[l]
    BY <2>1, <2>2, OnceFound
  <2> QED BY <2>3 DEF Last
<1>2. ASSUME NEW g \in 1 .. R
      PROVE  FlattenSeq([j \in DOMAIN list(g) |-> Items(t, list(g)[j].value)]) = C(g)
  <2> DEFINE G == Fields(t, groups[g])
  <2>1. PICK m \in Nat : IsFields(t, groups[g], G, m) BY FieldsExist
  <2>2. DOMAIN G = 1 .. m BY <2>1 DEF IsFields
  <2>3. Once(G, RG_COLUMNS, "list") BY DEF RegularGroup
  <2> HIDE DEF G
  <2>4. PICK l \in 1 .. m : Those(G, RG_COLUMNS, "list") = <<G[l]>> /\ FirstOf(G, RG_COLUMNS) = G[l]
    BY <2>2, <2>3, OnceFound
  <2>5. C(g) = Items(t, G[l].value) BY <2>4 DEF Chunks, G
  <2>6. [j \in DOMAIN list(g) |-> Items(t, list(g)[j].value)] = <<C(g)>>
    <3>1. PICK x : x = G[l] OBVIOUS
    <3>2. list(g) = <<x>> /\ C(g) = Items(t, x.value) BY <2>4, <2>5, <3>1 DEF G
    <3> HIDE DEF list, C
    <3>3. [j \in DOMAIN <<x>> |-> Items(t, <<x>>[j].value)] = <<Items(t, x.value)>> OBVIOUS
    <3> QED BY <3>2, <3>3
  <2>7. C(g) \in Seq(Nat)
    <3>1. C(g) \in [1 .. n -> Nat] OBVIOUS
    <3> HIDE DEF C
    <3> QED BY <3>1, SeqDef
  <2> HIDE DEF C, list
  <2>8. FlattenSeq(<<C(g)>>) = C(g) BY <2>7, OnePart DEF FlattenSeq, Concatenated
  <2> QED BY <2>6, <2>8
<1>3. ASSUME NEW g \in 1 .. R
      PROVE  DOMAIN C(g) = 1 .. n /\ \A c \in 1 .. n : C(g)[c] \in Nat /\ RegularChunk(t, C(g)[c])
  <2>1. PICK x \in [1 .. n -> Nat] : x = C(g) OBVIOUS
  <2>2. \A chunk \in Range(x) : RegularChunk(t, chunk) BY <2>1 DEF RegularGroup
  <2>3. \A c \in 1 .. n : x[c] \in Nat /\ RegularChunk(t, x[c]) BY <2>2 DEF Range
  <2> HIDE DEF C
  <2> QED BY <2>1, <2>3
<1>4. DOMAIN groups = 1 .. R OBVIOUS
<1>5. WalkGrid(t) = GridOf(t, groups, R, n)
  <2>1. groups = Items(t, Last(Those(Fields(t, 0), FMD_ROW_GROUPS, "list")).value) BY <1>1
  <2>2. WalkGrid(t) = [g \in 1 .. R |->
          LET chunks == FlattenSeq([j \in DOMAIN list(g) |-> Items(t, list(g)[j].value)]) IN
          [c \in DOMAIN chunks |-> ReadColumnInfo(t, chunks[c])]]
    BY <1>4, <2>1 DEF WalkGrid
  <2>3. WalkGrid(t) = [g \in 1 .. R |-> [c \in DOMAIN C(g) |-> ReadColumnInfo(t, C(g)[c])]]
    <3> HIDE DEF C, list
    <3> QED BY <1>2, <2>2
  <2> QED BY <1>3, <2>3 DEF GridOf
<1>6. StandardGrid(t) = GridOf(t, groups, R, n)
  <2> DEFINE meta(g, c) == Fields(t, FirstOf(Fields(t, C(g)[c]), CC_META_DATA).value)
             cell(g, c) == [off |-> At(t, FirstOf(meta(g, c), CM_DATA_PAGE_OFFSET).value).a,
                            size |-> At(t, FirstOf(meta(g, c), CM_TOTAL_COMPRESSED).value).a]
  <2>1. StandardGrid(t) = [g \in 1 .. R |-> [c \in DOMAIN C(g) |-> cell(g, c)]]
    BY <1>4 DEF StandardGrid, Chunks
  <2>2. \A g \in 1 .. R : \A c \in 1 .. n : cell(g, c) = ReadColumnInfo(t, C(g)[c])
    <3> HIDE DEF C
    <3> QED BY <1>3, ChunkRead
  <2> HIDE DEF cell
  <2>3. StandardGrid(t) = [g \in 1 .. R |-> [c \in 1 .. n |-> cell(g, c)]]
    <3> HIDE DEF C
    <3> QED BY <1>3, <2>1
  <2>4. GridOf(t, groups, R, n) = [g \in 1 .. R |-> [c \in 1 .. n |-> ReadColumnInfo(t, C(g)[c])]] BY DEF GridOf
  <2> HIDE DEF C
  <2> QED BY <2>2, <2>3, <2>4
<1> QED BY <1>5, <1>6

-----------------------------------------------------------------------------
(* The walk of a regular footer.                                            *)

\* Of a regular row group the walk keeps the starts of the one list of chunks.
LEMMA GroupWalked ==
  ASSUME IsBlob(Footer), NEW g \in Nat, NEW n, RegularGroup(Footer, g, n)
  PROVE  LET f == FirstOf(Fields(Footer, g), RG_COLUMNS) IN
         /\ ColumnLists(g) = <<f>> /\ f \in Range(Those(Fields(Footer, g), RG_COLUMNS, "list"))
         /\ ChunkOffsets(g) = Starts(Footer, f.value) /\ n = SizeAt(Footer, f.value) /\ n \in Nat
         /\ Starts(Footer, f.value) \in [1 .. n + 1 -> Nat]
<1> DEFINE F == Fields(Footer, g)
<1>1. PICK m \in Nat : IsFields(Footer, g, F, m) BY FieldsExist
<1>2. DOMAIN F = 1 .. m /\ \A j \in 1 .. m : F[j] \in FieldRecords BY <1>1 DEF IsFields
<1>3. Once(F, RG_COLUMNS, "list") BY DEF RegularGroup
<1> HIDE DEF F
<1>4. PICK l \in 1 .. m : Those(F, RG_COLUMNS, "list") = <<F[l]>> /\ FirstOf(F, RG_COLUMNS) = F[l]
  BY <1>2, <1>3, OnceFound
<1>5. PICK f : f = F[l] OBVIOUS
<1>6. f.value \in Nat BY <1>2, <1>5 DEF FieldRecords
<1>7. PICK size \in Nat : size = SizeAt(Footer, f.value) /\ Starts(Footer, f.value) \in [1 .. size + 1 -> Nat]
  BY <1>6, StartsAre
<1>8. n = size
  <2>1. Len(Chunks(Footer, g)) = n BY DEF RegularGroup
  <2>2. Chunks(Footer, g) = [j \in 1 .. size |-> Starts(Footer, f.value)[j]]
    BY <1>4, <1>5, <1>7 DEF Chunks, Items, F
  <2> QED BY <2>1, <2>2
<1>9. ColumnLists(g) = <<f>> BY <1>4, <1>5 DEF ColumnLists, F
<1>10. ChunkOffsets(g) = Starts(Footer, f.value)
  <2>1. [j \in DOMAIN <<f>> |-> Starts(Footer, <<f>>[j].value)] = <<Starts(Footer, f.value)>> OBVIOUS
  <2>2. Starts(Footer, f.value) \in Seq(Nat)
    <3>1. size + 1 \in Nat OBVIOUS
    <3> QED BY <1>7, <3>1, SeqDef
  <2>3. FlattenSeq(<<Starts(Footer, f.value)>>) = Starts(Footer, f.value) BY <2>2, OnePart DEF FlattenSeq, Concatenated
  <2>4. [j \in DOMAIN ColumnLists(g) |-> Starts(Footer, ColumnLists(g)[j].value)] = <<Starts(Footer, f.value)>>
    BY <1>9, <2>1
  <2> QED BY <2>3, <2>4 DEF ChunkOffsets
<1>11. f \in Range(Those(F, RG_COLUMNS, "list"))
  <2>1. f = <<f>>[1] /\ 1 \in DOMAIN <<f>> OBVIOUS
  <2> QED BY <1>4, <1>5, <2>1 DEF Range
<1> QED BY <1>4, <1>5, <1>7, <1>8, <1>9, <1>10, <1>11 DEF F

\* The row groups of a regular footer.
LEMMA RegularGroups ==
  ASSUME IsBlob(Footer), Parsed(Footer), ListsOfStructs(Footer), Regular(Footer),
         NEW l \in 1 .. Len(Fields(Footer, 0)), Fields(Footer, 0)[l].id = FMD_ROW_GROUPS
  PROVE  LET F == Fields(Footer, 0)
             groups == Items(Footer, F[l].value) IN
         /\ TheField(F, FMD_ROW_GROUPS, "list", l) /\ Once(F, FMD_ROW_GROUPS, "list")
         /\ FirstOf(F, FMD_ROW_GROUPS) = F[l]
         /\ \E R \in Nat, n \in Nat :
              /\ groups \in [1 .. R -> Held(Footer)] /\ Len(groups) = R
              /\ R # 0 => n = Len(Chunks(Footer, groups[1]))
              /\ \A g \in 1 .. R :
                   /\ groups[g] \in Nat /\ RegularGroup(Footer, groups[g], n)
                   /\ ElemAt(Footer, FirstOf(Fields(Footer, groups[g]), RG_COLUMNS).value) = "struct"
<1> DEFINE F == Fields(Footer, 0)
           groups == Items(Footer, F[l].value)
           n == Len(Chunks(Footer, groups[1]))
<1>1. Len(F) \in Nat /\ DOMAIN F = 1 .. Len(F) /\ F[l] \in Range(F) BY TopFields
<1>2. /\ Once(F, FMD_ROW_GROUPS, "list")
      /\ \A g \in Range(groups) : RegularGroup(Footer, g, n)
  BY <1>1 DEF Regular
<1>3. F[l].id = FMD_ROW_GROUPS /\ l \in 1 .. Len(F) OBVIOUS
<1> HIDE DEF F
<1>4. TheField(F, FMD_ROW_GROUPS, "list", l) /\ FirstOf(F, FMD_ROW_GROUPS) = F[l]
  <2>1. PICK x \in 1 .. Len(F) : TheField(F, FMD_ROW_GROUPS, "list", x) /\ FirstOf(F, FMD_ROW_GROUPS) = F[x]
    BY <1>1, <1>2, OnceFound
  <2>2. \A j \in DOMAIN F : F[j].id = FMD_ROW_GROUPS <=> j = x BY <2>1 DEF TheField
  <2>3. l \in DOMAIN F BY <1>1, <1>3
  <2>4. x = l BY <1>3, <2>2, <2>3
  <2> QED BY <2>1, <2>4
<1>5. F[l].type = "list" BY <1>4 DEF TheField
<1>6. groups \in Seq(Held(Footer)) BY <1>3, <1>5, SchemaHeld DEF F
<1> HIDE DEF groups
<1>7. PICK R \in Nat : R = Len(groups) /\ groups \in [1 .. R -> Held(Footer)] BY <1>6, LenProperties, SeqDef
<1>8. ASSUME NEW g \in 1 .. R
      PROVE  /\ groups[g] \in Nat /\ RegularGroup(Footer, groups[g], n) /\ n \in Nat
             /\ ElemAt(Footer, FirstOf(Fields(Footer, groups[g]), RG_COLUMNS).value) = "struct"
  <2>1. groups[g] \in Nat BY <1>7 DEF Held
  <2>2. groups[g] \in Range(groups) BY <1>7 DEF Range
  <2>3. RegularGroup(Footer, groups[g], n) BY <1>2, <2>2
  <2>4. PICK f : /\ f = FirstOf(Fields(Footer, groups[g]), RG_COLUMNS) /\ n \in Nat
                 /\ f \in Range(Those(Fields(Footer, groups[g]), RG_COLUMNS, "list"))
    BY <2>1, <2>3, GroupWalked
  <2>5. ElemAt(Footer, f.value) = "struct"
    BY <1>1, <1>3, <1>5, <2>2, <2>4 DEF ListsOfStructs, F, groups
  <2> QED BY <2>1, <2>3, <2>4, <2>5
<1>9. CASE R = 0
  <2>1. \A g \in 1 .. R : FALSE BY <1>9
  <2> QED BY <1>2, <1>4, <1>7, <1>9, <2>1 DEF F, groups
<1>10. CASE R # 0
  <2>1. n \in Nat
    <3>1. 1 \in 1 .. R BY <1>10
    <3> QED BY <1>8, <3>1
  <2> HIDE DEF n
  <2>2. n = Len(Chunks(Footer, groups[1])) BY DEF n
  <2> QED BY <1>2, <1>4, <1>7, <1>8, <2>1, <2>2 DEF F, groups
<1> QED BY <1>9, <1>10

\* What the walk has of the row groups: nothing before their field, and then every
\* row group's chunk offsets.
Found(x, groups) ==
  /\ x.row_groups = Len(groups)
  /\ x.chunk_offsets = FlattenSeq([g \in DOMAIN groups |-> ChunkOffsets(groups[g])])
  /\ Len(groups) # 0 => x.columns = Len(Chunks(Footer, groups[1]))
GroupsTrue(x, n) ==
  LET F == Fields(Footer, 0) IN
  /\ (\A j \in 1 .. n : F[j].id # FMD_ROW_GROUPS) => x.row_groups = 0 /\ x.chunk_offsets = <<>>
  /\ \A l \in 1 .. n : F[l].id = FMD_ROW_GROUPS => Found(x, Items(Footer, F[l].value))

\* Another field keeps that.
LEMMA GroupsWalked ==
  ASSUME IsBlob(Footer), Parsed(Footer), ListsOfStructs(Footer), Regular(Footer),
         NEW n \in 0 .. Len(Fields(Footer, 0)) - 1, WalkIs(w), WalkHeld(w), GroupsTrue(w, n)
  PROVE  GroupsTrue(Walked(Fields(Footer, 0)[n + 1]), n + 1)
<1> DEFINE F == Fields(Footer, 0)
           f == F[n + 1]
           groups == Items(Footer, f.value)
           first == ColumnLists(groups[1])
           walk == Topped(w, f)
           x == Walked(f)
<1>1. Len(F) \in Nat /\ n \in Nat /\ n + 1 \in 1 .. Len(F) /\ \A j \in 1 .. n : j \in 1 .. Len(F) /\ j # n + 1
  BY TopFields
<1>2. /\ walk.row_groups = w.row_groups /\ walk.columns = w.columns
      /\ walk.chunk_offsets = w.chunk_offsets /\ WalkIs(walk)
  BY DEF WalkIs, Topped
<1>3. CASE f.id = FMD_ROW_GROUPS
  <2>1. /\ TheField(F, FMD_ROW_GROUPS, "list", n + 1)
        /\ \E R \in Nat, m \in Nat :
              /\ groups \in [1 .. R -> Held(Footer)] /\ Len(groups) = R
              /\ R # 0 => m = Len(Chunks(Footer, groups[1]))
              /\ \A g \in 1 .. R : groups[g] \in Nat /\ RegularGroup(Footer, groups[g], m)
    BY <1>1, <1>3, RegularGroups
  <2>2. PICK R \in Nat, m \in Nat :
              /\ groups \in [1 .. R -> Held(Footer)] /\ Len(groups) = R
              /\ R # 0 => m = Len(Chunks(Footer, groups[1]))
              /\ \A g \in 1 .. R : groups[g] \in Nat /\ RegularGroup(Footer, groups[g], m)
    BY <2>1
  <2>3. f.type = "list" /\ DOMAIN F = 1 .. Len(F) /\ \A j \in DOMAIN F : F[j].id = FMD_ROW_GROUPS <=> j = n + 1
    <3>1. DOMAIN F = 1 .. Len(F) BY TopFields
    <3> HIDE DEF F
    <3> QED BY <2>1, <3>1 DEF TheField
  <2>4. \A j \in 1 .. n : F[j].id # FMD_ROW_GROUPS
    <3> HIDE DEF F
    <3> QED BY <1>1, <2>3
  <2>5. w.row_groups = 0 /\ w.chunk_offsets = <<>> BY <2>4 DEF GroupsTrue
  <2> DEFINE columns == IF groups = <<>> \/ first = <<>> THEN walk.columns ELSE SizeAt(Footer, Last(first).value)
             P == [g \in DOMAIN groups |-> ChunkOffsets(groups[g])]
  <2>6. x = [walk EXCEPT !.row_groups = Len(groups), !.columns = columns,
                         !.chunk_offsets = walk.chunk_offsets \o FlattenSeq(P)]
    BY <1>3, <2>3, WalkedCases
  <2> HIDE DEF columns, P, groups, walk, x, F
  <2>7. /\ x.row_groups = Len(groups) /\ x.columns = columns /\ x.chunk_offsets = <<>> \o FlattenSeq(P)
    BY <1>2, <2>5, <2>6 DEF WalkIs
  <2>8. FlattenSeq(P) \in Seq(Held(Footer)) /\ <<>> \o FlattenSeq(P) = FlattenSeq(P)
    <3>1. WalkHeld(x) BY <1>1, WalkedHeld DEF x, F
    <3>2. ASSUME NEW g \in 1 .. R PROVE ChunkOffsets(groups[g]) \in Seq(Held(Footer))
      <4>1. groups[g] \in Range(groups) BY <2>2 DEF Range
      <4> QED BY <1>1, <1>3, <2>3, <4>1, GroupHeld DEF groups, F
    <3>3. P \in [1 .. R -> Seq(Held(Footer))] BY <2>2, <3>2 DEF P
    <3>4. P \in Seq(Seq(Held(Footer))) BY <3>3, SeqDef
    <3>5. FlattenSeq(P) \in Seq(Held(Footer)) BY <3>4, FlattenedElements DEF FlattenSeq, Concatenated
    <3> QED BY <3>5, ConcatEmptySeq
  <2>9. ASSUME R # 0 PROVE x.columns = Len(Chunks(Footer, groups[1]))
    <3>1. 1 \in 1 .. R BY <2>9
    <3>2. PICK y : y = FirstOf(Fields(Footer, groups[1]), RG_COLUMNS) /\ ColumnLists(groups[1]) = <<y>>
                   /\ m = SizeAt(Footer, y.value)
      BY <2>2, <3>1, GroupWalked
    <3>3. groups # <<>> BY <2>2, <2>9
    <3>4. <<y>> # <<>> /\ Last(<<y>>) = y BY DEF Last
    <3> QED BY <2>2, <2>7, <2>9, <3>2, <3>3, <3>4 DEF columns
  <2>10. Found(x, groups) BY <2>2, <2>7, <2>8, <2>9 DEF Found, P
  <2>11. \A l \in 1 .. n + 1 : F[l].id = FMD_ROW_GROUPS => l = n + 1
    <3>1. \A l \in 1 .. n + 1 : l \in 1 .. Len(F) BY <1>1
    <3> QED BY <2>3, <3>1
  <2>12. F[n + 1].id = FMD_ROW_GROUPS /\ n + 1 \in 1 .. n + 1 BY <1>1, <1>3
  <2>13. \A l \in 1 .. n + 1 : F[l].id = FMD_ROW_GROUPS => Found(x, Items(Footer, F[l].value))
    BY <2>10, <2>11 DEF groups
  <2> QED BY <2>12, <2>13 DEF GroupsTrue, F, x
<1>4. CASE f.id # FMD_ROW_GROUPS
  <2>1. x.row_groups = w.row_groups /\ x.columns = w.columns /\ x.chunk_offsets = w.chunk_offsets
    <3>1. CASE f.id = FMD_POINTER
      <4>1. x = [walk EXCEPT !.already_indexed = TRUE] BY <3>1, WalkedCases
      <4> HIDE DEF x, walk
      <4> QED BY <1>2, <4>1 DEF WalkIs
    <3>2. CASE f.id = FMD_SCHEMA /\ f.type = "list"
      <4>1. x = [walk EXCEPT !.schema = walk.schema \o groups] BY <3>2, WalkedCases
      <4> HIDE DEF x, walk, groups
      <4> QED BY <1>2, <4>1 DEF WalkIs
    <3>3. CASE f.id # FMD_POINTER /\ ~(f.id = FMD_SCHEMA /\ f.type = "list")
      <4>1. x = walk
        <5>1. \/ f.id = FMD_POINTER
              \/ f.id \in {FMD_SCHEMA, FMD_ROW_GROUPS} /\ f.type = "list"
              \/ x = walk
          BY WalkedCases
        <5> HIDE DEF x, walk, f
        <5> QED BY <1>4, <3>3, <5>1
      <4> QED BY <1>2, <4>1
    <3> QED BY <3>1, <3>2, <3>3
  <2> HIDE DEF x, F
  <2>2. \A l \in 1 .. n : F[l].id = FMD_ROW_GROUPS => Found(w, Items(Footer, F[l].value)) BY DEF GroupsTrue, F
  <2>3. \A y : Found(w, y) => Found(x, y) BY <2>1 DEF Found
  <2>4. \A l \in 1 .. n + 1 : F[l].id = FMD_ROW_GROUPS => l \in 1 .. n BY <1>1, <1>4
  <2>5. \A l \in 1 .. n + 1 : F[l].id = FMD_ROW_GROUPS => Found(x, Items(Footer, F[l].value)) BY <2>2, <2>3, <2>4
  <2>6. \A j \in 1 .. n : j \in 1 .. n + 1 BY <1>1
  <2>7. (\A j \in 1 .. n : F[j].id # FMD_ROW_GROUPS) => w.row_groups = 0 /\ w.chunk_offsets = <<>>
    BY DEF GroupsTrue, F
  <2> QED BY <2>1, <2>5, <2>6, <2>7 DEF GroupsTrue, F, x
<1> QED BY <1>3, <1>4

-----------------------------------------------------------------------------
(* The output of a regular footer.                                          *)

\* The readers of s agree: the walk's grid is the materialized one's, of R row
\* groups of C chunks, and the packed offsets lead to the chunks.
Served(s, R, C, bytes) ==
  /\ R \in Nat \ {0} /\ C \in Nat
  /\ StandardGrid(s) = WalkGrid(s)
  /\ DOMAIN WalkGrid(s) = 1 .. R /\ \A g \in 1 .. R : DOMAIN WalkGrid(s)[g] = 1 .. C
  /\ \E bw \in 1 .. 8 :
       /\ Len(bytes) = bw * (R * (C + 1))
       /\ \A g \in 0 .. R - 1, c \in 0 .. C - 1 :
            ReadColumnInfo(s, Unpacked(bytes, bw, g * (C + 1) + c)) = WalkGrid(s)[g + 1][c + 1]

\* An offset into the new footer takes no more than eight bytes.
LEMMA OffsetsFit ==
  ASSUME NEW n \in Nat, n < 2 ^ (ByteBits * 4)
  PROVE  n + 3 < 2 ^ (ByteBits * 8)
<1>1. PICK p \in Nat : p = ByteBits * 4 /\ p + 2 <= ByteBits * 8 BY JumpAssumption
<1>2. 2 ^ p \in Nat \ {0} /\ 2 ^ (p + 1) = 2 * 2 ^ p /\ 2 ^ ((p + 1) + 1) = 2 * 2 ^ (p + 1) BY <1>1, Powers
<1>3. (p + 1) + 1 = p + 2 /\ p + 2 \in Nat /\ ByteBits * 8 \in Nat BY JumpAssumption, <1>1
<1>4. 2 ^ (p + 2) <= 2 ^ (ByteBits * 8) BY <1>1, <1>3, PowersGrow
<1>5. PICK a, b, c : a = 2 ^ p /\ b = 2 ^ (p + 2) /\ c = 2 ^ (ByteBits * 8) OBVIOUS
<1>6. c \in Nat BY <1>3, <1>5, Powers
<1>7. a \in Nat \ {0} /\ b = 2 * (2 * a) /\ b <= c BY <1>2, <1>3, <1>4, <1>5
<1>8. n < a BY <1>1, <1>5
<1>9. n + 3 < c BY <1>6, <1>7, <1>8
<1> QED BY <1>5, <1>9

\* The row groups' field of the new footer.
LEMMA NewGroups ==
  ASSUME IsBlob(Footer), Parsed(Footer), ListsOfStructs(Footer), Regular(Footer), WalkHeld(w),
         NEW l \in 1 .. Len(Fields(Footer, 0)), Fields(Footer, 0)[l].id = FMD_ROW_GROUPS
  PROVE  LET v == Fields(Footer, 0)[l].value
             groups == Items(NewFooter, FirstOf(Fields(NewFooter, 0), FMD_ROW_GROUPS).value) IN
         /\ Once(Fields(NewFooter, 0), FMD_ROW_GROUPS, "list")
         /\ SizeAt(Footer, v) \in Nat
         /\ groups = [g \in 1 .. SizeAt(Footer, v) |-> Items(Footer, v)[g] + Shift]
<1> DEFINE F == Fields(Footer, 0)
           N == Fields(NewFooter, 0)
           v == F[l].value
<1>1. TheField(F, FMD_ROW_GROUPS, "list", l) BY RegularGroups
<1>2. PICK m \in Nat : m = Len(F) /\ m # 0 /\ DOMAIN F = 1 .. m /\ l \in 1 .. m BY TopFields
<1>3. w.columns \in Int /\ w.row_groups \in Int /\ Len(w.schema) \in Int BY LenProperties DEF WalkHeld
<1>4. /\ IsBlob(NewFooter) /\ Shift \in Nat /\ OldHdrLen \in Nat
      /\ Agree(Footer, NewFooter, OldHdrLen, Len(Footer), Shift)
  <2>1. OldHdrLen \in {1, 2} BY <1>2, FirstHeader
  <2> QED BY <1>2, <1>3, <2>1, NewFooterIs
<1>5. /\ N = NewFields
      /\ v >= OldHdrLen /\ Skip(Footer, v, F[l].type) <= Len(Footer)
  BY <1>2, <1>3, NewFieldsAre
<1>6. v \in Nat BY <1>2, TopFields DEF FieldRecords
<1>7. F[l].type = "list" BY <1>1 DEF TheField
<1>8. /\ DOMAIN N = 1 .. m + 1
      /\ N[1].id = FMD_POINTER
      /\ \A j \in 1 .. m : /\ N[j + 1].id = F[j].id /\ N[j + 1].type = F[j].type
                           /\ N[j + 1].value = F[j].value + Shift
  <2>1. N = [j \in 1 .. m + 1 |->
               IF j = 1 THEN [id |-> FMD_POINTER, type |-> "bin", at |-> 0, value |-> 1]
               ELSE [Moved(F[j - 1], Shift) EXCEPT !.at = IF j = 2 THEN 2 ELSE @]]
    BY <1>2, <1>5 DEF NewFields
  <2> HIDE DEF N, F
  <2>2. ASSUME NEW j \in 1 .. m
        PROVE  /\ N[j + 1].id = F[j].id /\ N[j + 1].type = F[j].type
               /\ N[j + 1].value = F[j].value + Shift
    <3>1. j + 1 \in 1 .. m + 1 /\ j + 1 # 1 /\ (j + 1) - 1 = j BY <1>2
    <3>2. N[j + 1] = [Moved(F[j], Shift) EXCEPT !.at = IF j + 1 = 2 THEN 2 ELSE @] BY <2>1, <3>1
    <3> QED BY <3>2 DEF Moved
  <2>3. 1 \in 1 .. m + 1 BY <1>2
  <2> QED BY <2>1, <2>2, <2>3
<1> HIDE DEF F, N, v
<1>9. l + 1 \in 1 .. m + 1 BY <1>2
<1>10. \A j \in 1 .. m + 1 : N[j].id = FMD_ROW_GROUPS <=> j = l + 1
  <2>1. ASSUME NEW j \in 1 .. m + 1 PROVE N[j].id = FMD_ROW_GROUPS <=> j = l + 1
    <3>1. CASE j = 1 BY <1>2, <1>8, <3>1 DEF FMD_POINTER, FMD_ROW_GROUPS
    <3>2. CASE j # 1
      <4>1. j - 1 \in 1 .. m /\ (j - 1) + 1 = j BY <1>2, <3>2
      <4>2. N[j].id = F[j - 1].id BY <1>8, <4>1
      <4>3. F[j - 1].id = FMD_ROW_GROUPS <=> j - 1 = l BY <1>1, <1>2, <4>1 DEF TheField
      <4> QED BY <1>2, <4>1, <4>2, <4>3
    <3> QED BY <3>1, <3>2
  <2> QED BY <2>1
<1>11. N[l + 1].type = "list" /\ N[l + 1].value = v + Shift BY <1>2, <1>7, <1>8 DEF v
<1>12. Once(N, FMD_ROW_GROUPS, "list") BY <1>8, <1>9, <1>10, <1>11 DEF Once
<1>13. FirstOf(N, FMD_ROW_GROUPS).value = v + Shift
  <2>1. m + 1 \in Nat BY <1>2
  <2>2. PICK x \in 1 .. m + 1 : TheField(N, FMD_ROW_GROUPS, "list", x) /\ FirstOf(N, FMD_ROW_GROUPS) = N[x]
    BY <1>8, <1>12, <2>1, OnceFound
  <2>3. N[x].id = FMD_ROW_GROUPS BY <2>2 DEF TheField
  <2> QED BY <1>10, <1>11, <2>2, <2>3
<1>14. /\ SizeAt(NewFooter, v + Shift) = SizeAt(Footer, v) /\ SizeAt(Footer, v) \in Nat
       /\ Starts(NewFooter, v + Shift) = [j \in 1 .. SizeAt(Footer, v) + 1 |-> Starts(Footer, v)[j] + Shift]
  BY <1>4, <1>5, <1>6, <1>7, StartsMoved DEF v
<1>15. PICK R \in Nat : R = SizeAt(Footer, v) BY <1>14
<1>16. ASSUME NEW g \in 1 .. R PROVE Starts(NewFooter, v + Shift)[g] = Items(Footer, v)[g] + Shift
  <2>1. g \in 1 .. R + 1 BY <1>15
  <2> QED BY <1>14, <1>15, <2>1 DEF Items
<1>17. Items(NewFooter, v + Shift) = [g \in 1 .. R |-> Items(Footer, v)[g] + Shift]
  <2>1. Items(NewFooter, v + Shift) = [g \in 1 .. R |-> Starts(NewFooter, v + Shift)[g]]
    BY <1>14, <1>15 DEF Items
  <2> QED BY <1>16, <2>1
<1> QED BY <1>12, <1>13, <1>15, <1>17 DEF F, N, v

\* A row group of the new footer, and what the walk kept of it.
GroupServed(g, n) ==
  LET kept == ChunkOffsets(g) IN
  /\ kept \in [1 .. n + 1 -> 0 .. Len(Footer)]
  /\ RegularGroup(NewFooter, g + Shift, n)
  /\ Chunks(NewFooter, g + Shift) = [c \in 1 .. n |-> kept[c] + Shift]

\* Every regular row group is served that way.
LEMMA NewGroup ==
  ASSUME IsBlob(Footer), Parsed(Footer), WalkHeld(w), Len(Fields(Footer, 0)) # 0,
         NEW g \in Held(Footer), NEW n, RegularGroup(Footer, g, n),
         ElemAt(Footer, FirstOf(Fields(Footer, g), RG_COLUMNS).value) = "struct"
  PROVE  n \in Nat /\ GroupServed(g, n)
<1> DEFINE v == FirstOf(Fields(Footer, g), RG_COLUMNS).value
<1>1. w.columns \in Int /\ w.row_groups \in Int /\ Len(w.schema) \in Int BY LenProperties DEF WalkHeld
<1>2. /\ IsBlob(NewFooter) /\ Shift \in Nat /\ OldHdrLen \in Nat
      /\ Agree(Footer, NewFooter, OldHdrLen, Len(Footer), Shift)
  <2>1. OldHdrLen \in {1, 2} BY FirstHeader
  <2> QED BY <1>1, <2>1, NewFooterIs
<1>3. g \in Nat /\ g >= OldHdrLen /\ Skip(Footer, g, "struct") <= Len(Footer) BY DEF Held, OldHdrLen
<1>4. /\ n \in Nat /\ Starts(Footer, v) \in [1 .. n + 1 -> Nat]
      /\ \A c \in 1 .. n + 1 : Starts(Footer, v)[c] <= Len(Footer)
      /\ RegularGroup(NewFooter, g + Shift, n)
      /\ Chunks(NewFooter, g + Shift) = [c \in 1 .. n |-> Starts(Footer, v)[c] + Shift]
  BY <1>2, <1>3, GroupMoved
<1>5. ChunkOffsets(g) = Starts(Footer, v) BY <1>3, GroupWalked
<1> HIDE DEF v
<1>6. Len(Footer) \in Nat BY BlobIs
<1>7. Starts(Footer, v) \in [1 .. n + 1 -> 0 .. Len(Footer)] BY <1>4, <1>6
<1> QED BY <1>4, <1>5, <1>7 DEF GroupServed

\* Entry g * (n + 1) + c of R parts of n + 1 lies among them.
LEMMA EntryInside ==
  ASSUME NEW R \in Nat, NEW n \in Nat, NEW g \in 0 .. R - 1, NEW c \in 0 .. n
  PROVE  /\ g * (n + 1) + c \in 0 .. R * (n + 1) - 1
         /\ (n + 1) * g + (c + 1) = g * (n + 1) + c + 1
<1>1. PICK m \in Nat : m = n + 1 /\ c < m OBVIOUS
<1>2. g + 1 <= R /\ g \in Nat OBVIOUS
<1>3. (g + 1) * m <= R * m
  <2>1. R - (g + 1) \in Nat /\ R = (g + 1) + (R - (g + 1)) BY <1>2
  <2>2. PICK d \in Nat : d = R - (g + 1) BY <2>1
  <2>3. d * m \in Nat /\ ((g + 1) + d) * m = (g + 1) * m + d * m BY <1>1
  <2> QED BY <1>1, <2>1, <2>2, <2>3
<1>4. (g + 1) * m = g * m + m /\ g * m \in Nat /\ m * g = g * m /\ R * m \in Nat BY <1>1, <1>2
<1> QED BY <1>1, <1>3, <1>4

\* The output of a regular footer: its readers agree.
LEMMA OutputServed ==
  ASSUME IsBlob(Footer), Parsed(Footer), ListsOfStructs(Footer), Regular(Footer),
         Len(Footer) < 2 ^ (ByteBits * 4), WalkHeld(w), GroupsTrue(w, Len(Fields(Footer, 0))), w.row_groups # 0
  PROVE  Served(NewFooter, w.row_groups, w.columns, PackBytes(Shifted(w.chunk_offsets)))
<1> DEFINE F == Fields(Footer, 0)
<1>1. \E l \in 1 .. Len(F) : F[l].id = FMD_ROW_GROUPS BY DEF GroupsTrue
<1>2. PICK l \in 1 .. Len(F) : F[l].id = FMD_ROW_GROUPS BY <1>1
<1> DEFINE groups == Items(Footer, F[l].value)
           news == Items(NewFooter, FirstOf(Fields(NewFooter, 0), FMD_ROW_GROUPS).value)
           offsets == w.chunk_offsets
<1>3. Found(w, groups) BY <1>2 DEF GroupsTrue
<1>4. PICK R \in Nat, n \in Nat :
        /\ groups \in [1 .. R -> Held(Footer)] /\ Len(groups) = R
        /\ R # 0 => n = Len(Chunks(Footer, groups[1]))
        /\ \A g \in 1 .. R :
             /\ groups[g] \in Nat /\ RegularGroup(Footer, groups[g], n)
             /\ ElemAt(Footer, FirstOf(Fields(Footer, groups[g]), RG_COLUMNS).value) = "struct"
  BY <1>2, RegularGroups
<1>5. R = w.row_groups /\ n = w.columns /\ R # 0 BY <1>3, <1>4 DEF Found
<1>6. Len(F) # 0 BY <1>2, TopFields
<1>7. /\ IsBlob(NewFooter) /\ Shift \in {2, 3}
  <2>1. w.columns \in Int /\ w.row_groups \in Int /\ Len(w.schema) \in Int BY LenProperties DEF WalkHeld
  <2> QED BY <1>6, <2>1, NewFooterIs
<1>8. /\ Once(Fields(NewFooter, 0), FMD_ROW_GROUPS, "list")
      /\ news = [g \in 1 .. R |-> groups[g] + Shift]
  <2>1. /\ Once(Fields(NewFooter, 0), FMD_ROW_GROUPS, "list") /\ SizeAt(Footer, F[l].value) \in Nat
        /\ news = [g \in 1 .. SizeAt(Footer, F[l].value) |-> groups[g] + Shift]
    BY <1>2, NewGroups
  <2>2. R = SizeAt(Footer, F[l].value)
    <3> HIDE DEF F
    <3>1. groups = [j \in 1 .. SizeAt(Footer, F[l].value) |-> Starts(Footer, F[l].value)[j]] BY DEF Items
    <3>2. Len(groups) = SizeAt(Footer, F[l].value) BY <2>1, <3>1
    <3> QED BY <1>4, <3>2
  <2> QED BY <2>1, <2>2
<1> HIDE DEF F, groups, news
<1>9. \A g \in 1 .. R : GroupServed(groups[g], n)
  <2>1. ASSUME NEW g \in 1 .. R PROVE GroupServed(groups[g], n)
    <3>1. PICK x : x = groups[g] OBVIOUS
    <3>2. x \in Held(Footer) BY <1>4, <3>1
    <3>3. RegularGroup(Footer, x, n) /\ ElemAt(Footer, FirstOf(Fields(Footer, x), RG_COLUMNS).value) = "struct"
      BY <1>4, <3>1
    <3>4. GroupServed(x, n) BY <1>6, <3>2, <3>3, NewGroup DEF F
    <3> QED BY <3>1, <3>4
  <2> QED BY <2>1
<1>10. PICK d \in Nat : d = Shift /\ d <= 3 BY <1>7
<1>11. ASSUME NEW g \in 1 .. R
       PROVE  /\ news[g] = groups[g] + d /\ news[g] \in Nat /\ RegularGroup(NewFooter, news[g], n)
              /\ Chunks(NewFooter, news[g]) = [c \in 1 .. n |-> ChunkOffsets(groups[g])[c] + d]
              /\ Chunks(NewFooter, news[g]) \in [1 .. n -> Nat]
              /\ ChunkOffsets(groups[g]) \in [1 .. n + 1 -> 0 .. Len(Footer)]
  <2>1. news[g] = groups[g] + d /\ groups[g] \in Nat BY <1>4, <1>8, <1>10
  <2>2. /\ ChunkOffsets(groups[g]) \in [1 .. n + 1 -> 0 .. Len(Footer)]
        /\ RegularGroup(NewFooter, news[g], n)
        /\ Chunks(NewFooter, news[g]) = [c \in 1 .. n |-> ChunkOffsets(groups[g])[c] + d]
    BY <1>9, <1>10, <2>1 DEF GroupServed
  <2>3. \A c \in 1 .. n : c \in 1 .. n + 1 BY <1>4
  <2>4. \A c \in 1 .. n : ChunkOffsets(groups[g])[c] + d \in Nat BY <1>10, <2>2, <2>3
  <2>5. PICK x : x = [c \in 1 .. n |-> ChunkOffsets(groups[g])[c] + d] OBVIOUS
  <2>6. x \in [1 .. n -> Nat] BY <2>4, <2>5
  <2>7. Chunks(NewFooter, news[g]) \in [1 .. n -> Nat] BY <2>2, <2>5, <2>6
  <2>8. groups[g] + d \in Nat BY <1>10, <2>1
  <2> QED BY <2>1, <2>2, <2>7, <2>8
<1>12. WalkGrid(NewFooter) = GridOf(NewFooter, news, R, n) /\ StandardGrid(NewFooter) = GridOf(NewFooter, news, R, n)
  <2>1. news \in [1 .. R -> Nat] BY <1>8, <1>10, <1>11
  <2>2. \A g \in 1 .. R : RegularGroup(NewFooter, news[g], n) /\ Chunks(NewFooter, news[g]) \in [1 .. n -> Nat]
    BY <1>11
  <2>3. news = Items(NewFooter, FirstOf(Fields(NewFooter, 0), FMD_ROW_GROUPS).value) BY DEF news
  <2> QED BY <1>7, <1>8, <2>1, <2>2, <2>3, GridsFound
<1> DEFINE P == [g \in 1 .. R |-> ChunkOffsets(groups[g])]
           M == Len(Footer) + 3
<1>13. Len(Footer) \in Nat BY BlobIs
<1>14. offsets \in Seq(0 .. Len(Footer)) /\ InParts(offsets, P, n + 1) /\ Len(P) = R
  <2>1. P \in Seq(Seq(0 .. Len(Footer)))
    <3>1. ASSUME NEW g \in 1 .. R PROVE ChunkOffsets(groups[g]) \in Seq(0 .. Len(Footer))
      <4>1. PICK x : x = ChunkOffsets(groups[g]) /\ x \in [1 .. n + 1 -> 0 .. Len(Footer)] BY <1>11
      <4>2. n + 1 \in Nat OBVIOUS
      <4>3. x \in Seq(0 .. Len(Footer)) BY <4>1, <4>2, SeqDef
      <4> QED BY <4>1, <4>3
    <3> QED BY <3>1, SeqDef
  <2>2. Len(P) = R OBVIOUS
  <2>3. \A g \in 1 .. R : Len(P[g]) = n + 1
    <3>1. ASSUME NEW g \in 1 .. R PROVE Len(ChunkOffsets(groups[g])) = n + 1
      <4>1. PICK x : x = ChunkOffsets(groups[g]) /\ x \in [1 .. n + 1 -> 0 .. Len(Footer)] BY <1>11
      <4>2. n + 1 \in Nat OBVIOUS
      <4>3. Len(x) = n + 1 BY <4>1, <4>2
      <4> QED BY <4>1, <4>3
    <3> QED BY <3>1
  <2>4. n + 1 \in Nat OBVIOUS
  <2>5. offsets = FlattenSeq([g \in DOMAIN groups |-> ChunkOffsets(groups[g])]) BY <1>3 DEF Found
  <2>6. offsets = Concatenated(P) BY <1>4, <2>5 DEF FlattenSeq, Concatenated
  <2> HIDE DEF P
  <2> QED BY <2>1, <2>2, <2>3, <2>4, <2>6, EqualParts
<1> HIDE DEF offsets
<1>15. PICK total \in Nat : total = R * (n + 1) /\ Len(offsets) = total
  <2>1. Len(offsets) = (n + 1) * R BY <1>14 DEF InParts
  <2>2. (n + 1) * R = R * (n + 1) /\ R * (n + 1) \in Nat OBVIOUS
  <2> QED BY <2>1, <2>2
<1>16. /\ Shifted(offsets) = [j \in 1 .. total |-> offsets[j] + d]
       /\ Shifted(offsets) \in [1 .. total -> 0 .. M]
  <2>1. offsets \in [1 .. total -> 0 .. Len(Footer)] BY <1>14, <1>15
  <2>2. Shifted(offsets) = [j \in 1 .. total |-> offsets[j] + d] BY <1>10, <2>1 DEF Shifted
  <2>3. \A j \in 1 .. total : offsets[j] + d \in 0 .. M BY <1>10, <1>13, <2>1
  <2> HIDE DEF M
  <2> QED BY <2>2, <2>3
<1>17. M \in Nat /\ M < 2 ^ (ByteBits * 8) BY <1>13, OffsetsFit
<1> HIDE DEF M
<1> DEFINE bytes == PackBytes(Shifted(offsets))
<1>18. PICK bw \in 1 .. 8 : /\ Len(bytes) = bw * total
                            /\ \A j \in 0 .. total - 1 : Unpacked(bytes, bw, j) = Shifted(offsets)[j + 1]
  <2>1. PICK vals : vals = Shifted(offsets) /\ vals \in [1 .. total -> 0 .. M] BY <1>16
  <2>2. Gives(PackBytes(vals), vals, total) BY <1>17, <2>1, PackReads
  <2> QED BY <2>1, <2>2 DEF Gives
<1> HIDE DEF bytes
<1>19. ASSUME NEW g \in 0 .. R - 1, NEW c \in 0 .. n - 1
       PROVE  ReadColumnInfo(NewFooter, Unpacked(bytes, bw, g * (n + 1) + c)) = WalkGrid(NewFooter)[g + 1][c + 1]
  <2>1. PICK i : i = g * (n + 1) + c OBVIOUS
  <2>2. i \in 0 .. total - 1 /\ (n + 1) * g + (c + 1) = i + 1
    <3>1. c \in 0 .. n OBVIOUS
    <3> QED BY <1>15, <2>1, <3>1, EntryInside
  <2>3. Unpacked(bytes, bw, i) = offsets[i + 1] + d
    <3>1. i + 1 \in 1 .. total BY <1>15, <2>2
    <3> QED BY <1>16, <1>18, <2>2, <3>1
  <2>4. offsets[i + 1] = P[g + 1][c + 1]
    <3>1. g \in 0 .. Len(P) - 1 /\ c + 1 \in 1 .. n + 1 BY <1>14
    <3> QED BY <1>14, <2>2, <3>1 DEF InParts
  <2>5. g + 1 \in 1 .. R /\ c + 1 \in 1 .. n OBVIOUS
  <2>6. P[g + 1] = ChunkOffsets(groups[g + 1]) BY <2>5
  <2>7. Chunks(NewFooter, news[g + 1])[c + 1] = ChunkOffsets(groups[g + 1])[c + 1] + d BY <1>11, <2>5
  <2>8. WalkGrid(NewFooter)[g + 1][c + 1] = ReadColumnInfo(NewFooter, Chunks(NewFooter, news[g + 1])[c + 1])
    BY <1>12, <2>5 DEF GridOf
  <2> HIDE DEF P
  <2> QED BY <2>1, <2>3, <2>4, <2>6, <2>7, <2>8
<1>20. DOMAIN WalkGrid(NewFooter) = 1 .. R /\ \A g \in 1 .. R : DOMAIN WalkGrid(NewFooter)[g] = 1 .. n
  BY <1>12 DEF GridOf
<1>21. StandardGrid(NewFooter) = WalkGrid(NewFooter) BY <1>12
<1>22. R \in Nat \ {0} /\ n \in Nat BY <1>5
<1>23. Len(bytes) = bw * (R * (n + 1)) BY <1>15, <1>18
<1>24. Served(NewFooter, R, n, bytes) BY <1>19, <1>20, <1>21, <1>22, <1>23 DEF Served
<1> QED BY <1>5, <1>24 DEF bytes, offsets

-----------------------------------------------------------------------------
(* Resolving.                                                               *)

\* The packed offsets of the index that a footer points to.
IndexBytes(s) ==
  At(s, At(s, Head(Those(Fields(s, 0), FMD_POINTER, "bin")).value).a.fmd_length + 5).a

\* The index of the output has the shifted chunk offsets, packed.
LEMMA OutputBytes ==
  ASSUME IsBlob(Footer), Parsed(Footer), Len(Fields(Footer, 0)) # 0, WalkHeld(w),
         \A j \in 1 .. Len(Fields(Footer, 0)) : Fields(Footer, 0)[j].id # FMD_POINTER
  PROVE  IndexBytes(NewFooter) = PackBytes(Shifted(w.chunk_offsets))
<1>1. w.columns \in Int /\ w.row_groups \in Int /\ Len(w.schema) \in Int BY LenProperties DEF WalkHeld
<1>2. At(NewFooter, Head(Those(Fields(NewFooter, 0), FMD_POINTER, "bin")).value).a = NewPointer BY PointerRead
<1>3. NewPointer.fmd_length = FmdLength BY DEF NewPointer
<1>4. At(NewFooter, FmdLength + 5) = Bin(PackBytes(Shifted(w.chunk_offsets))) BY <1>1, IndexRead
<1>5. IndexBytes(NewFooter) = Bin(PackBytes(Shifted(w.chunk_offsets))).a BY <1>2, <1>3, <1>4 DEF IndexBytes
<1> QED BY <1>5, TokensAre

\* The index as the reader has it: seeking leads to every chunk.
Reads ==
  /\ fi.row_groups \in Nat \ {0} /\ fi.columns \in Nat \ {0}
  /\ StandardGrid(Footer) = WalkGrid(Footer)
  /\ DOMAIN WalkGrid(Footer) = 1 .. fi.row_groups
  /\ \A g \in 1 .. fi.row_groups : DOMAIN WalkGrid(Footer)[g] = 1 .. fi.columns
  /\ \A g \in 0 .. fi.row_groups - 1, c \in 0 .. fi.columns - 1 :
       ReadColumnInfo(Footer, Seek(c, g)) = WalkGrid(Footer)[g + 1][c + 1]

\* The reader takes its numbers and offsets from the index.
LEMMA ReaderTakes ==
  ASSUME ReadFooterIndex, IndexIn(w, Footer), phase' = "read"
  PROVE  LET cco == IndexBytes(Footer) IN
         /\ w.columns # 0
         /\ fi'.columns = w.columns /\ fi'.row_groups = w.row_groups /\ fi'.cco = cco
         /\ fi'.bpe = Len(cco) \div (w.row_groups * (w.columns + 1))
<1> DEFINE pointers == Those(Fields(Footer, 0), FMD_POINTER, "bin")
           there == At(Footer, Head(pointers).value).a.fmd_length
           length == IF pointers = <<>> THEN 0 ELSE there
<1>1. /\ pointers # <<>> /\ there \in Nat \ {0}
      /\ BlobAt(there) = IndexFields
      /\ At(Footer, there + 1).a = w.columns /\ At(Footer, there + 3).a = w.row_groups
  BY DEF IndexIn, BlobAt
<1>2. PICK L \in Nat : L = there /\ L # 0 BY <1>1
<1>3. length = L BY <1>1, <1>2
<1> DEFINE index == [j \in DOMAIN BlobAt(length) |-> InBlob(length, BlobAt(length)[j])]
           cco == Bytes1(index, 3)
<1>4. Num1(index, 1) = w.columns /\ Num1(index, 2) = w.row_groups /\ cco = IndexBytes(Footer)
  <2>1. BlobAt(L) = IndexFields BY <1>1, <1>2
  <2>2. index = [j \in DOMAIN BlobAt(L) |-> InBlob(L, BlobAt(L)[j])] BY <1>3
  <2>3. IndexBytes(Footer) = At(Footer, L + 5).a BY <1>2 DEF IndexBytes
  <2> HIDE DEF length, index
  <2>4. /\ Num1(index, 1) = At(Footer, L + 1).a /\ Num1(index, 2) = At(Footer, L + 3).a
        /\ Bytes1(index, 3) = At(Footer, L + 5).a
    BY <2>1, <2>2, IndexNumbers
  <2> QED BY <1>1, <1>2, <2>3, <2>4
<1>5. \/ phase' = "failed"
      \/ /\ ~(Num1(index, 1) = 0)
         /\ fi' = [columns |-> Num1(index, 1), row_groups |-> Num1(index, 2), cco |-> cco, fmd_length |-> length,
                   bpe |-> Len(cco) \div (Num1(index, 2) * (Num1(index, 1) + 1))]
  BY Zenon DEF ReadFooterIndex
<1> HIDE DEF length, index, cco
<1>6. /\ ~(Num1(index, 1) = 0)
      /\ fi' = [columns |-> Num1(index, 1), row_groups |-> Num1(index, 2), cco |-> cco, fmd_length |-> length,
                bpe |-> Len(cco) \div (Num1(index, 2) * (Num1(index, 1) + 1))]
  BY <1>5
<1> QED BY <1>4, <1>6

\* Dividing the offsets' bytes by their number gives the width back.
LEMMA ReaderServed ==
  ASSUME ReadFooterIndex, IndexIn(w, Footer), phase' = "read",
         Served(Footer, w.row_groups, w.columns, IndexBytes(Footer))
  PROVE  Reads'
<1>1. PICK R \in Nat \ {0}, C \in Nat : R = w.row_groups /\ C = w.columns BY DEF Served
<1>2. PICK cco : cco = IndexBytes(Footer) OBVIOUS
<1>3. /\ C # 0 /\ fi'.columns = C /\ fi'.row_groups = R /\ fi'.cco = cco
      /\ fi'.bpe = Len(cco) \div (R * (C + 1))
  BY <1>1, <1>2, ReaderTakes
<1>4. Footer' = Footer BY DEF ReadFooterIndex, Footer
<1>5. Served(Footer, R, C, cco) BY <1>1, <1>2
<1>6. PICK bw \in 1 .. 8 :
        /\ Len(cco) = bw * (R * (C + 1))
        /\ \A g \in 0 .. R - 1, c \in 0 .. C - 1 :
             ReadColumnInfo(Footer, Unpacked(cco, bw, g * (C + 1) + c)) = WalkGrid(Footer)[g + 1][c + 1]
  BY <1>5 DEF Served
<1>7. fi'.bpe = bw
  <2>1. PICK M \in Nat \ {0} : M = R * (C + 1)
    <3>1. C + 1 \in Nat \ {0} OBVIOUS
    <3>2. \A a, b \in Nat \ {0} : a * b \in Nat \ {0} OBVIOUS
    <3> QED BY <3>1, <3>2
  <2>2. 0 \in 0 .. M - 1 /\ bw \in Nat /\ M * bw + 0 = bw * M BY <2>1
  <2>3. (M * bw + 0) \div M = bw BY <2>2, QuotientRemainder
  <2> QED BY <1>3, <1>6, <2>1, <2>2, <2>3
<1>8. \A g, c : Seek(c, g)' = Unpacked(cco, bw, g * (C + 1) + c) BY <1>3, <1>7 DEF Seek
<1>9. \A g \in 0 .. R - 1, c \in 0 .. C - 1 :
        ReadColumnInfo(Footer, Seek(c, g)') = WalkGrid(Footer)[g + 1][c + 1]
  BY <1>6, <1>8, Zenon
<1>10. R \in Nat \ {0} /\ C \in Nat \ {0} BY <1>3
<1>11. /\ StandardGrid(Footer) = WalkGrid(Footer)
       /\ DOMAIN WalkGrid(Footer) = 1 .. R /\ \A g \in 1 .. R : DOMAIN WalkGrid(Footer)[g] = 1 .. C
  BY <1>5 DEF Served
<1> QED BY <1>3, <1>4, <1>9, <1>10, <1>11, Zenon DEF Reads

\* s is the beginning of t.
Begins(s, t) == Len(s) <= Len(t) /\ \A i \in 1 .. Len(s) : s[i] = t[i]

\* A sequence begins what it is continued to.
LEMMA BeginsConcat ==
  ASSUME NEW S, NEW s \in Seq(S), NEW t \in Seq(S)
  PROVE  Begins(s, s \o t) /\ s \o t \in Seq(S)
BY ConcatProperties DEF Begins

\* Beginning is transitive.
LEMMA BeginsOn ==
  ASSUME NEW S, NEW s \in Seq(S), NEW t \in Seq(S), NEW u \in Seq(S), Begins(s, t), Begins(t, u)
  PROVE  Begins(s, u)
BY LenProperties DEF Begins

\* What begins a sequence is its prefix.
LEMMA BeginsPrefix ==
  ASSUME NEW S, NEW s \in Seq(S), NEW t \in Seq(S), Begins(s, t)
  PROVE  IsPrefix(s, t)
<1>1. PICK n \in Nat, m \in Nat : n = Len(s) /\ m = Len(t) /\ n <= m BY LenProperties DEF Begins
<1>2. DOMAIN s = 1 .. n /\ DOMAIN t = 1 .. m BY <1>1, LenProperties
<1>3. SubSeq(s, 1, n) = [i \in 1 .. n |-> s[i]] BY <1>1 DEF SubSeq
<1>4. SubSeq(t, 1, n) = [i \in 1 .. n |-> t[i]] BY <1>1 DEF SubSeq
<1>5. \A i \in 1 .. n : s[i] = t[i] BY <1>1 DEF Begins
<1>6. SubSeq(s, 1, n) = SubSeq(t, 1, n) BY <1>3, <1>4, <1>5
<1> QED BY <1>1, <1>6 DEF IsPrefix

\* The first n chunks of a column, and a way to gather the projected columns.
Infos(grid, R, C) == {grid[g][c] : g \in 1 .. R, c \in 1 .. C}
Column(grid, c, n) == [g \in 1 .. n |-> grid[g][c]]
Columns(grid, cols, R, c) == IF c - 1 \in cols THEN Column(grid, c, R) ELSE <<>>
Gathers(f, grid, cols, R, C) ==
  /\ f \in [Nat -> Seq(Infos(grid, R, C))] /\ f[0] = <<>>
  /\ \A c \in 0 .. C - 1 : f[c + 1] = f[c] \o Columns(grid, cols, R, c + 1)

ColumnsRead(grid, R, C, c) ==
  \A n \in 0 .. R : Column(grid, c, n) \in Seq(Infos(grid, R, C)) /\ Len(Column(grid, c, n)) = n

\* A column is a sequence of chunks, as long as it is taken.
LEMMA ColumnIs ==
  ASSUME NEW grid, NEW R \in Nat \ {0}, NEW C \in Nat \ {0}, NEW c \in 1 .. C, NEW cols
  PROVE  /\ ColumnsRead(grid, R, C, c)
         /\ Columns(grid, cols, R, c) \in Seq(Infos(grid, R, C))
<1>1. ASSUME NEW n \in 0 .. R
      PROVE  Column(grid, c, n) \in Seq(Infos(grid, R, C)) /\ Len(Column(grid, c, n)) = n
  <2>1. \A g \in 1 .. n : grid[g][c] \in Infos(grid, R, C) BY DEF Infos
  <2>2. PICK x, S : x = Column(grid, c, n) /\ S = Infos(grid, R, C) OBVIOUS
  <2>3. x = [g \in 1 .. n |-> grid[g][c]] BY <2>2 DEF Column
  <2>4. x \in [1 .. n -> S] /\ n \in Nat BY <2>1, <2>2, <2>3
  <2>5. x \in Seq(S) /\ Len(x) = n BY <2>4, SeqDef
  <2> QED BY <2>2, <2>5
<1>2. R \in 0 .. R OBVIOUS
<1>3. <<>> \in Seq(Infos(grid, R, C)) BY EmptySeq
<1> QED BY <1>1, <1>2, <1>3 DEF Columns, ColumnsRead

\* Gather of a full grid can be gathered column by column.
LEMMA GatherBy ==
  ASSUME NEW grid, NEW R \in Nat \ {0}, NEW C \in Nat \ {0}, NEW cols,
         DOMAIN grid = 1 .. R, \A g \in 1 .. R : DOMAIN grid[g] = 1 .. C
  PROVE  \E f : Gathers(f, grid, cols, R, C) /\ Gather(grid, cols) = f[C]
<1> DEFINE S == Infos(grid, R, C)
           P == [c \in 1 .. C |-> Columns(grid, cols, R, c)]
<1>1. Gather(grid, cols) = Concatenated(P)
  <2>1. DOMAIN grid[1] = 1 .. C
    <3>1. 1 \in 1 .. R OBVIOUS
    <3> QED BY <3>1
  <2>2. [c \in DOMAIN grid[1] |-> IF c - 1 \in cols THEN [g \in DOMAIN grid |-> grid[g][c]] ELSE <<>>] = P
    BY <2>1 DEF Columns, Column
  <2>3. PICK seqs : seqs = P OBVIOUS
  <2>4. Gather(grid, cols) = FlattenSeq(seqs) BY <2>2, <2>3 DEF Gather
  <2>5. FlattenSeq(seqs) = Concatenated(seqs) BY DEF FlattenSeq, Concatenated
  <2> QED BY <2>3, <2>4, <2>5
<1>2. P \in Seq(Seq(S)) /\ Len(P) = C
  <2>1. \A c \in 1 .. C : Columns(grid, cols, R, c) \in Seq(S) BY ColumnIs
  <2> HIDE DEF S
  <2>2. P \in [1 .. C -> Seq(S)] BY <2>1
  <2>3. DOMAIN P = 1 .. C OBVIOUS
  <2> HIDE DEF P
  <2> QED BY <2>2, <2>3, SeqDef, LenProperties
<1>3. \A c \in 0 .. C - 1 : P[c + 1] = Columns(grid, cols, R, c + 1)
  <2>1. \A c \in 0 .. C - 1 : c + 1 \in 1 .. C OBVIOUS
  <2> QED BY <2>1
<1> HIDE DEF P, S
<1>4. PICK f \in [Nat -> Seq(S)] :
        /\ f[0] = <<>> /\ \A c \in 0 .. Len(P) - 1 : f[c + 1] = f[c] \o P[c + 1]
        /\ Concatenated(P) = f[Len(P)]
  BY <1>2, FlattenedBy
<1>5. \A c \in 0 .. C - 1 : f[c + 1] = f[c] \o Columns(grid, cols, R, c + 1) BY <1>2, <1>3, <1>4
<1>6. Gathers(f, grid, cols, R, C) BY <1>4, <1>5 DEF Gathers, S
<1> QED BY <1>1, <1>2, <1>4, <1>6

\* What is gathered of the first columns begins what is gathered of all.
LEMMA GathersGrow ==
  ASSUME NEW grid, NEW R \in Nat \ {0}, NEW C \in Nat \ {0}, NEW cols, NEW f, Gathers(f, grid, cols, R, C),
         NEW c \in 0 .. C
  PROVE  f[c] \in Seq(Infos(grid, R, C)) /\ Begins(f[c], f[C])
<1> DEFINE S == Infos(grid, R, C)
           P == {n \in Nat : c + n <= C => Begins(f[c], f[c + n])}
<1>1. \A n \in Nat : f[n] \in Seq(S) BY DEF Gathers
<1>2. 0 \in P
  <2>1. c + 0 = c /\ c \in Nat OBVIOUS
  <2>2. Begins(f[c], f[c]) BY <1>1, <2>1, LenProperties DEF Begins
  <2> QED BY <2>1, <2>2
<1>3. ASSUME NEW n \in Nat, n \in P PROVE n + 1 \in P
  <2> SUFFICES ASSUME c + (n + 1) <= C PROVE Begins(f[c], f[c + (n + 1)]) OBVIOUS
  <2>1. PICK m \in Nat : m = c + n /\ m \in 0 .. C - 1 /\ m + 1 = c + (n + 1) /\ m + 1 \in 1 .. C /\ m + 1 \in Nat
    OBVIOUS
  <2>2. Begins(f[c], f[m]) BY <1>3, <2>1
  <2> HIDE DEF S
  <2>3. f[m + 1] = f[m] \o Columns(grid, cols, R, m + 1) BY <2>1 DEF Gathers
  <2>4. Columns(grid, cols, R, m + 1) \in Seq(S) BY <2>1, ColumnIs DEF S
  <2>5. PICK x, y, z : x = f[c] /\ y = f[m] /\ z = Columns(grid, cols, R, m + 1) OBVIOUS
  <2>6. x \in Seq(S) /\ y \in Seq(S) /\ z \in Seq(S) BY <1>1, <2>1, <2>4, <2>5
  <2>7. Begins(y, y \o z) /\ y \o z \in Seq(S) BY <2>6, BeginsConcat
  <2>8. Begins(x, y \o z) BY <2>2, <2>5, <2>6, <2>7, BeginsOn
  <2> QED BY <2>1, <2>3, <2>5, <2>8
<1>4. \A n \in Nat : n \in P
  <2> HIDE DEF P
  <2>1. Nat \subseteq P BY <1>2, <1>3, Induct
  <2> QED BY <2>1
<1>5. C - c \in Nat /\ c + (C - c) = C /\ c \in Nat OBVIOUS
<1>6. C - c \in P BY <1>4, <1>5
<1> QED BY <1>1, <1>5, <1>6

\* A resolver between two chunks: it has the columns before, and the next one as
\* far as the row groups go.
Halfway(grid, R, C) ==
  /\ want \subseteq 0 .. C - 1
  /\ at = <<at[1], at[2]>> /\ at[1] \in 0 .. C /\ at[2] \in 0 .. R - 1
  /\ at[2] # 0 => at[1] \in want
  /\ \A f : Gathers(f, grid, want, R, C) => out = f[at[1]] \o Column(grid, at[1] + 1, at[2])
NotAsked == want = {} /\ out = <<>> /\ at = <<0, 0>>
Resolving ==
  /\ run = 0 \/ phase = "open" => NotAsked
  /\ phase = "read" => NotAsked \/ (want # {} /\ Halfway(WalkGrid(Footer), fi.row_groups, fi.columns))

\* Nothing is taken of no row groups.
LEMMA NoColumn ==
  ASSUME NEW S, NEW s \in Seq(S), NEW grid, NEW c
  PROVE  Column(grid, c, 0) = <<>> /\ s \o Column(grid, c, 0) = s
<1>1. Column(grid, c, 0) = <<>>
  <2>1. 1 .. 0 = {} OBVIOUS
  <2> QED BY <2>1 DEF Column
<1> QED BY <1>1, ConcatEmptySeq

Growing(f, grid, cols, R, C) ==
  /\ f[0] = <<>> /\ \A n \in Nat : f[n] \in Seq(Infos(grid, R, C))
  /\ \A c \in 0 .. C - 1 : f[c + 1] = IF c \in cols THEN f[c] \o Column(grid, c + 1, R) ELSE f[c]

\* Gathering goes on by the projected columns only.
LEMMA GathersAt ==
  ASSUME NEW grid, NEW R \in Nat \ {0}, NEW C \in Nat \ {0}, NEW cols, NEW f, Gathers(f, grid, cols, R, C)
  PROVE  Growing(f, grid, cols, R, C)
<1>1. f[0] = <<>> /\ \A n \in Nat : f[n] \in Seq(Infos(grid, R, C)) BY DEF Gathers
<1>2. ASSUME NEW c \in 0 .. C - 1
      PROVE  f[c + 1] = IF c \in cols THEN f[c] \o Column(grid, c + 1, R) ELSE f[c]
  <2>1. f[c + 1] = f[c] \o Columns(grid, cols, R, c + 1) BY DEF Gathers
  <2>2. (c + 1) - 1 = c /\ c \in Nat OBVIOUS
  <2>3. CASE c \in cols BY <2>1, <2>2, <2>3 DEF Columns
  <2>4. CASE c \notin cols
    <3>1. Columns(grid, cols, R, c + 1) = <<>> BY <2>2, <2>4 DEF Columns
    <3>2. PICK x : x = f[c] /\ x \in Seq(Infos(grid, R, C)) BY <1>1, <2>2
    <3>3. x \o <<>> = x BY <3>2, ConcatEmptySeq
    <3> QED BY <2>1, <2>4, <3>1, <3>2, <3>3
  <2> QED BY <2>3, <2>4
<1> QED BY <1>1, <1>2 DEF Growing

\* The resolver is asked.
LEMMA Asked ==
  ASSUME Ask, NEW grid, NEW R \in Nat \ {0}, NEW C \in Nat \ {0}, R = fi.row_groups, C = fi.columns
  PROVE  want' # {} /\ Halfway(grid, R, C)'
<1>1. /\ want' \subseteq 0 .. C - 1 /\ want' # {} /\ at' = <<0, 0>> /\ out' = <<>>
  BY DEF Ask
<1>2. at'[1] = 0 /\ at'[2] = 0 /\ 0 \in 0 .. C /\ 0 \in 0 .. R - 1 BY <1>1
<1>3. ASSUME NEW f, Gathers(f, grid, want', R, C) PROVE <<>> = f[0] \o Column(grid, 0 + 1, 0)
  <2>0. Growing(f, grid, want', R, C) BY <1>3, GathersAt
  <2>1. f[0] = <<>> /\ <<>> \in Seq({}) BY <2>0, EmptySeq DEF Growing
  <2>2. PICK x : x = <<>> /\ x \in Seq({}) BY <2>1
  <2>3. x \o Column(grid, 0 + 1, 0) = x BY <2>2, NoColumn
  <2> QED BY <2>1, <2>2, <2>3
<1>4. \A f : Gathers(f, grid, want', R, C) => out' = f[at'[1]] \o Column(grid, at'[1] + 1, at'[2])
  BY <1>1, <1>2, <1>3
<1> QED BY <1>1, <1>2, <1>4, Zenon DEF Halfway

\* A column that is not projected is left out.
LEMMA Skipped ==
  ASSUME SkipColumn, NEW grid, NEW R \in Nat \ {0}, NEW C \in Nat \ {0}, R = fi.row_groups, C = fi.columns,
         Halfway(grid, R, C)
  PROVE  Halfway(grid, R, C)'
<1>1. /\ want' = want /\ out' = out /\ at' = <<at[1] + 1, 0>> /\ at[1] < C /\ at[1] \notin want
  BY DEF SkipColumn
<1>2. PICK c \in 0 .. C - 1 : c = at[1] BY <1>1 DEF Halfway
<1>3. at[2] = 0 BY <1>1 DEF Halfway
<1>4. at'[1] = c + 1 /\ at'[2] = 0 /\ c + 1 \in 0 .. C /\ 0 \in 0 .. R - 1 BY <1>1, <1>2
<1>5. ASSUME NEW f, Gathers(f, grid, want, R, C) PROVE out = f[c + 1] \o Column(grid, (c + 1) + 1, 0)
  <2>1. out = f[c] \o Column(grid, c + 1, 0) BY <1>2, <1>3, <1>5 DEF Halfway
  <2>0. Growing(f, grid, want, R, C) BY <1>5, GathersAt
  <2>2. f[c + 1] = f[c] BY <1>1, <1>2, <2>0 DEF Growing
  <2>3. PICK x : x = f[c] /\ x \in Seq(Infos(grid, R, C)) BY <2>0 DEF Growing
  <2>4. x \o Column(grid, c + 1, 0) = x /\ x \o Column(grid, (c + 1) + 1, 0) = x BY <2>3, NoColumn
  <2> QED BY <2>1, <2>2, <2>3, <2>4
<1>6. \A f : Gathers(f, grid, want', R, C) => out' = f[at'[1]] \o Column(grid, at'[1] + 1, at'[2])
  BY <1>1, <1>4, <1>5
<1>7. want' \subseteq 0 .. C - 1 BY <1>1 DEF Halfway
<1>8. at' = <<at'[1], at'[2]>> BY <1>1
<1> QED BY <1>4, <1>6, <1>7, <1>8, Zenon DEF Halfway

\* One more chunk of a column behind the others.
Appends(s, grid, c, n) == Append(s \o Column(grid, c, n), grid[n + 1][c]) = s \o Column(grid, c, n + 1)

\* Appending the next chunk takes the column one row group further.
LEMMA ChunkAppended ==
  ASSUME NEW grid, NEW R \in Nat \ {0}, NEW C \in Nat \ {0}, NEW c \in 1 .. C, NEW n \in 0 .. R - 1,
         NEW s \in Seq(Infos(grid, R, C))
  PROVE  Appends(s, grid, c, n)
<1>1. PICK S : S = Infos(grid, R, C) OBVIOUS
<1>2. n \in 0 .. R /\ n + 1 \in 0 .. R /\ n + 1 \in 1 .. R /\ n \in Nat OBVIOUS
<1>3. PICK x : x = grid[n + 1][c] /\ x \in S BY <1>1, <1>2 DEF Infos
<1>0. \A l \in 0 .. R : Column(grid, c, l) \in Seq(S) /\ Len(Column(grid, c, l)) = l
  <2>1. \A l \in 0 .. R : Column(grid, c, l) \in Seq(Infos(grid, R, C)) /\ Len(Column(grid, c, l)) = l
    BY ColumnIs DEF ColumnsRead
  <2> QED BY <1>1, <2>1
<1>4. PICK y : y = Column(grid, c, n) /\ y \in Seq(S) /\ Len(y) = n BY <1>0, <1>2
<1>5. PICK z : z = Column(grid, c, n + 1) /\ z \in Seq(S) /\ Len(z) = n + 1 BY <1>0, <1>2
<1>6. z = Append(y, x)
  <2>1. z = [g \in 1 .. n + 1 |-> grid[g][c]] /\ y = [g \in 1 .. n |-> grid[g][c]] BY <1>4, <1>5 DEF Column
  <2>2. \A g \in 1 .. n : z[g] = y[g]
    <3>1. \A g \in 1 .. n : g \in 1 .. n + 1 BY <1>2
    <3> QED BY <2>1, <3>1
  <2>3. z[n + 1] = x
    <3>1. n + 1 \in 1 .. n + 1 BY <1>2
    <3> QED BY <1>3, <2>1, <3>1
  <2>4. Append(y, x) = [g \in 1 .. n + 1 |-> IF g = n + 1 THEN x ELSE y[g]] BY <1>2, <1>3, <1>4, SMT
  <2>5. \A g \in 1 .. n + 1 : z[g] = IF g = n + 1 THEN x ELSE y[g]
    <3>1. \A g \in 1 .. n + 1 : g = n + 1 \/ g \in 1 .. n BY <1>2
    <3> QED BY <2>2, <2>3, <3>1
  <2>6. z = [g \in 1 .. n + 1 |-> z[g]] BY <2>1
  <2> QED BY <2>4, <2>5, <2>6
<1>7. s \in Seq(S) BY <1>1
<1>8. Append(s \o y, x) = s \o Append(y, x)
  <2>1. s \o y \in Seq(S) BY <1>4, <1>7, ConcatProperties
  <2>2. Append(s \o y, x) = (s \o y) \o <<x>> BY <1>3, <2>1, AppendIsConcat
  <2>3. Append(y, x) = y \o <<x>> /\ <<x>> \in Seq(S) BY <1>3, <1>4, AppendIsConcat
  <2>4. (s \o y) \o <<x>> = s \o (y \o <<x>>) BY <1>4, <1>7, <2>3, ConcatAssociative
  <2> QED BY <2>2, <2>3, <2>4
<1> QED BY <1>3, <1>4, <1>5, <1>6, <1>8 DEF Appends

\* A chunk is found by seeking, and it is the next one.
LEMMA Emitted ==
  ASSUME EmitChunk, Reads, NEW grid, NEW R \in Nat \ {0}, NEW C \in Nat \ {0},
         R = fi.row_groups, C = fi.columns, grid = WalkGrid(Footer), Halfway(grid, R, C)
  PROVE  Halfway(grid, R, C)'
<1>1. /\ want' = want /\ at[1] < C /\ at[1] \in want
      /\ out' = Append(out, ReadColumnInfo(Footer, Seek(at[1], at[2])))
      /\ at' = IF at[2] + 1 < R THEN <<at[1], at[2] + 1>> ELSE <<at[1] + 1, 0>>
  BY DEF EmitChunk
<1>2. PICK c \in 0 .. C - 1, n \in 0 .. R - 1 : c = at[1] /\ n = at[2] BY <1>1 DEF Halfway
<1>3. out' = Append(out, grid[n + 1][c + 1]) BY <1>1, <1>2 DEF Reads
<1>4. ASSUME NEW f, Gathers(f, grid, want, R, C)
      PROVE  /\ f[c] \in Seq(Infos(grid, R, C)) /\ f[c + 1] = f[c] \o Column(grid, c + 1, R)
             /\ f[c + 1] \in Seq(Infos(grid, R, C)) /\ out' = f[c] \o Column(grid, c + 1, n + 1)
  <2>1. Growing(f, grid, want, R, C) BY <1>4, GathersAt
  <2>2. c \in Nat /\ c + 1 \in Nat /\ c + 1 \in 1 .. C OBVIOUS
  <2>3. PICK s : s = f[c] /\ s \in Seq(Infos(grid, R, C)) BY <2>1, <2>2 DEF Growing
  <2>4. f[c + 1] = f[c] \o Column(grid, c + 1, R) BY <1>1, <1>2, <2>1 DEF Growing
  <2>5. out = s \o Column(grid, c + 1, n) BY <1>2, <1>4, <2>3 DEF Halfway
  <2>6. Append(s \o Column(grid, c + 1, n), grid[n + 1][c + 1]) = s \o Column(grid, c + 1, n + 1)
    <3>1. PICK e \in 1 .. C : e = c + 1 BY <2>2
    <3>2. Appends(s, grid, e, n) BY <2>3, ChunkAppended
    <3> QED BY <3>1, <3>2 DEF Appends
  <2>7. f[c + 1] \in Seq(Infos(grid, R, C)) BY <2>1, <2>2 DEF Growing
  <2> QED BY <1>3, <2>3, <2>4, <2>5, <2>6, <2>7
<1>5. want' \subseteq 0 .. C - 1 BY <1>1 DEF Halfway
<1>6. CASE n + 1 < R
  <2>1. at' = <<c, n + 1>> BY <1>1, <1>2, <1>6
  <2>2. /\ at' = <<at'[1], at'[2]>> /\ at'[1] = c /\ at'[2] = n + 1
        /\ c \in 0 .. C /\ n + 1 \in 0 .. R - 1 /\ c \in want
    BY <1>1, <1>2, <1>6, <2>1
  <2>3. \A f : Gathers(f, grid, want', R, C) => out' = f[at'[1]] \o Column(grid, at'[1] + 1, at'[2])
    BY <1>1, <1>4, <2>2
  <2> QED BY <1>1, <1>5, <2>2, <2>3, Zenon DEF Halfway
<1>7. CASE ~(n + 1 < R)
  <2>1. at' = <<c + 1, 0>> /\ n + 1 = R BY <1>1, <1>2, <1>7
  <2>2. /\ at' = <<at'[1], at'[2]>> /\ at'[1] = c + 1 /\ at'[2] = 0
        /\ c + 1 \in 0 .. C /\ 0 \in 0 .. R - 1
    BY <2>1
  <2>3. ASSUME NEW f, Gathers(f, grid, want, R, C) PROVE out' = f[c + 1] \o Column(grid, (c + 1) + 1, 0)
    <3>1. PICK x : x = f[c + 1] /\ x \in Seq(Infos(grid, R, C)) BY <1>4, <2>3
    <3>2. out' = f[c] \o Column(grid, c + 1, n + 1) /\ f[c + 1] = f[c] \o Column(grid, c + 1, R)
      BY <1>4, <2>3, Zenon
    <3>4. out' = f[c + 1] BY <2>1, <3>2
    <3>3. x \o Column(grid, (c + 1) + 1, 0) = x BY <3>1, NoColumn
    <3> QED BY <3>1, <3>3, <3>4
  <2>4. \A f : Gathers(f, grid, want', R, C) => out' = f[at'[1]] \o Column(grid, at'[1] + 1, at'[2])
    BY <1>1, <2>2, <2>3
  <2> QED BY <1>5, <2>2, <2>4, Zenon DEF Halfway
<1> QED BY <1>6, <1>7

\* What the resolver has begins what it is asked for, and is all of it at the end.
LEMMA HalfwayAgrees ==
  ASSUME NEW grid, NEW R \in Nat \ {0}, NEW C \in Nat \ {0},
         DOMAIN grid = 1 .. R, \A g \in 1 .. R : DOMAIN grid[g] = 1 .. C, Halfway(grid, R, C)
  PROVE  /\ IsPrefix(out, Gather(grid, want))
         /\ at[1] = C => out = Gather(grid, want)
<1>1. PICK f : Gathers(f, grid, want, R, C) /\ Gather(grid, want) = f[C] BY GatherBy
<1>2. PICK S : S = Infos(grid, R, C) OBVIOUS
<1>3. PICK c \in 0 .. C, n \in 0 .. R - 1 : c = at[1] /\ n = at[2] /\ (n # 0 => c \in want) /\ want \subseteq 0 .. C - 1
  BY DEF Halfway
<1>4. out = f[c] \o Column(grid, c + 1, n) BY <1>1, <1>3 DEF Halfway
<1>5. Growing(f, grid, want, R, C) BY <1>1, GathersAt
<1>6. PICK whole : whole = f[C] /\ whole \in Seq(S) BY <1>2, <1>5 DEF Growing
<1>7. PICK s : s = f[c] /\ s \in Seq(S) BY <1>2, <1>3, <1>5 DEF Growing
<1>8. Begins(s, whole)
  <2>1. f[c] \in Seq(Infos(grid, R, C)) /\ Begins(f[c], f[C]) BY <1>1, GathersGrow
  <2> QED BY <1>6, <1>7, <2>1
<1>9. CASE n = 0
  <2>1. out = s BY <1>2, <1>4, <1>7, <1>9, NoColumn
  <2>2. IsPrefix(s, whole) BY <1>6, <1>7, <1>8, BeginsPrefix
  <2>3. c = C => s = whole BY <1>6, <1>7
  <2> QED BY <1>1, <1>3, <1>6, <2>1, <2>2, <2>3
<1>10. CASE n # 0
  <2>1. c \in 0 .. C - 1 /\ c + 1 \in 1 .. C /\ c + 1 \in 0 .. C /\ c # C BY <1>3, <1>10
  <2>2. f[c + 1] = s \o Column(grid, c + 1, R) BY <1>3, <1>5, <1>7, <1>10, <2>1 DEF Growing
  <2>3. \A l \in 0 .. R : Column(grid, c + 1, l) \in Seq(Infos(grid, R, C)) /\ Len(Column(grid, c + 1, l)) = l
    <3>1. PICK e \in 1 .. C : e = c + 1 BY <2>1
    <3>2. ColumnsRead(grid, R, C, e) BY ColumnIs
    <3> QED BY <3>1, <3>2 DEF ColumnsRead
  <2>4. PICK y, z : /\ y = Column(grid, c + 1, n) /\ y \in Seq(S) /\ Len(y) = n
                    /\ z = Column(grid, c + 1, R) /\ z \in Seq(S) /\ Len(z) = R
    <3>1. n \in 0 .. R /\ R \in 0 .. R OBVIOUS
    <3> QED BY <1>2, <2>3, <3>1
  <2>5. \A i \in 1 .. n : y[i] = z[i]
    <3>1. y = [g \in 1 .. n |-> grid[g][c + 1]] /\ z = [g \in 1 .. R |-> grid[g][c + 1]] BY <2>4 DEF Column
    <3>2. \A i \in 1 .. n : i \in 1 .. R OBVIOUS
    <3> QED BY <3>1, <3>2
  <2>6. Begins(s \o y, s \o z) /\ s \o y \in Seq(S) /\ s \o z \in Seq(S)
    <3>1. PICK m \in Nat : m = Len(s) BY <1>7, LenProperties
    <3>2. /\ s \o y \in Seq(S) /\ Len(s \o y) = m + n
          /\ \A i \in 1 .. m + n : (s \o y)[i] = IF i <= m THEN s[i] ELSE y[i - m]
      <4>1. /\ s \o y \in Seq(S) /\ Len(s \o y) = Len(s) + Len(y)
            /\ \A i \in 1 .. Len(s) + Len(y) : (s \o y)[i] = IF i <= Len(s) THEN s[i] ELSE y[i - Len(s)]
        BY <1>7, <2>4, ConcatProperties, Zenon
      <4> QED BY <2>4, <3>1, <4>1
    <3>3. /\ s \o z \in Seq(S) /\ Len(s \o z) = m + R
          /\ \A i \in 1 .. m + R : (s \o z)[i] = IF i <= m THEN s[i] ELSE z[i - m]
      <4>1. /\ s \o z \in Seq(S) /\ Len(s \o z) = Len(s) + Len(z)
            /\ \A i \in 1 .. Len(s) + Len(z) : (s \o z)[i] = IF i <= Len(s) THEN s[i] ELSE z[i - Len(s)]
        BY <1>7, <2>4, ConcatProperties, Zenon
      <4> QED BY <2>4, <3>1, <4>1
    <3>4. ASSUME NEW i \in 1 .. m + n PROVE (s \o y)[i] = (s \o z)[i]
      <4>1. i \in 1 .. m + R OBVIOUS
      <4>2. (s \o y)[i] = IF i <= m THEN s[i] ELSE y[i - m] BY <3>2
      <4>3. (s \o z)[i] = IF i <= m THEN s[i] ELSE z[i - m] BY <3>3, <4>1
      <4>4. ~(i <= m) => i - m \in 1 .. n OBVIOUS
      <4> QED BY <2>5, <4>2, <4>3, <4>4
    <3>5. m + n <= m + R OBVIOUS
    <3> QED BY <3>2, <3>3, <3>4, <3>5 DEF Begins
  <2>7. Begins(s \o z, whole)
    <3>1. f[c + 1] \in Seq(Infos(grid, R, C)) /\ Begins(f[c + 1], f[C]) BY <1>1, <2>1, GathersGrow
    <3> QED BY <1>6, <2>2, <2>4, <3>1
  <2>8. PICK a, b : a = s \o y /\ b = s \o z OBVIOUS
  <2>9. Begins(a, whole) BY <1>6, <2>6, <2>7, <2>8, BeginsOn
  <2>10. IsPrefix(a, whole) BY <1>6, <2>6, <2>8, <2>9, BeginsPrefix
  <2>11. out = a BY <1>4, <1>7, <2>4, <2>8
  <2> QED BY <1>1, <1>3, <1>6, <2>1, <2>10, <2>11
<1> QED BY <1>9, <1>10

\* The invariant of the resolvers: the walk found every row group, the output's
\* readers agree, and a resolver has what it passed.
WalkFound == phase \in {"walk", "write"} /\ run = 0 /\ Parsed(Footer) => GroupsTrue(w, k)
ResolverInv ==
  /\ WalkFound
  /\ phase = "open" => Served(Footer, w.row_groups, w.columns, IndexBytes(Footer))
  /\ phase = "read" => Reads
  /\ Resolving

\* An input that is parsed is regular, and its length has four bytes.
LEMMA InputsFit ==
  ASSUME InputsRegular, file \in Inputs, Parsed(Footer)
  PROVE  Regular(Footer) /\ ListsOfStructs(Footer) /\ Len(Footer) < 2 ^ (ByteBits * 4)
BY JumpAssumption DEF InputsRegular, Footer

\* What is found of the row groups does not depend on more than file, walk and k.
LEMMA GroupsKept ==
  ASSUME Footer' = Footer, w' = w, k' = k, GroupsTrue(w, k)
  PROVE  GroupsTrue(w, k)'
BY DEF GroupsTrue, Found, ChunkOffsets, ColumnLists

\* The invariant holds at first.
LEMMA ResolverInit == Init => ResolverInv
<1> SUFFICES ASSUME Init PROVE ResolverInv OBVIOUS
<1>1. phase = "walk" /\ k = 0 /\ w = NoWalk /\ want = {} /\ at = <<0, 0>> /\ out = <<>> BY DEF Init
<1>2. GroupsTrue(NoWalk, 0)
  <2>1. ~\E l \in 1 .. 0 : TRUE OBVIOUS
  <2> QED BY <2>1 DEF GroupsTrue, NoWalk
<1> QED BY <1>1, <1>2 DEF ResolverInv, WalkFound, Resolving, NotAsked

\* The walk finds the row groups.
LEMMA ResolverWalkField ==
  ASSUME InputsRegular, JumpInv, ResolverInv, WalkField
  PROVE  ResolverInv'
<1> DEFINE x == Walked(Fields(Footer, 0)[k + 1])
<1>1. /\ phase = "walk" /\ phase' = "walk" /\ k < Len(Fields(Footer, 0)) /\ w' = x /\ k' = k + 1
      /\ file' = file /\ run' = run /\ want' = want /\ at' = at /\ out' = out
  BY DEF WalkField
<1>2. Footer' = Footer BY <1>1 DEF Footer
<1>3. ASSUME run = 0, Parsed(Footer) PROVE GroupsTrue(w, k)'
  <2>1. IsBlob(Footer) /\ file \in Inputs BY <1>3 DEF JumpInv, FileTrue
  <2>2. Regular(Footer) /\ ListsOfStructs(Footer) BY <1>3, <2>1, InputsFit
  <2>3. k \in 0 .. Len(Fields(Footer, 0)) - 1
    <3>1. Len(Fields(Footer, 0)) \in Nat BY <2>1, TopFields
    <3>2. k \in 0 .. Len(Fields(Footer, 0)) BY <1>1 DEF JumpInv, WalkTrue
    <3> QED BY <1>1, <3>1, <3>2
  <2>4. WalkIs(w) /\ WalkHeld(w) BY <1>1, <1>3 DEF JumpInv, WalkTrue
  <2>5. GroupsTrue(w, k) BY <1>1, <1>3 DEF ResolverInv, WalkFound
  <2>6. GroupsTrue(x, k + 1) BY <1>3, <2>1, <2>2, <2>3, <2>4, <2>5, GroupsWalked
  <2> HIDE DEF x
  <2> QED BY <1>1, <1>2, <2>6 DEF GroupsTrue, Found, ChunkOffsets, ColumnLists
<1>4. WalkFound' BY <1>1, <1>2, <1>3 DEF WalkFound
<1>5. Resolving' BY <1>1 DEF ResolverInv, Resolving, NotAsked
<1> QED BY <1>1, <1>4, <1>5 DEF ResolverInv

\* The end of the walk keeps what was found.
LEMMA ResolverEndWalk ==
  ASSUME JumpInv, ResolverInv, EndWalk
  PROVE  ResolverInv'
<1>1. /\ phase = "walk" /\ phase' \in {"refused", "write"}
      /\ UNCHANGED <<file, run, k, w, want, at, out>>
  BY DEF EndWalk
<1>2. Footer' = Footer BY <1>1 DEF Footer
<1>3. WalkFound' BY <1>1, <1>2, GroupsKept DEF ResolverInv, WalkFound
<1>4. Resolving' BY <1>1 DEF ResolverInv, Resolving, NotAsked
<1> QED BY <1>1, <1>3, <1>4 DEF ResolverInv

\* The output's readers agree.
LEMMA ResolverWrite ==
  ASSUME InputsRegular, JumpInv, ResolverInv, Write
  PROVE  ResolverInv'
<1>1. /\ phase = "write" /\ phase' = "open" /\ w' = w /\ UNCHANGED <<want, at, out>>
      /\ file' = [file EXCEPT !.footer = NewFooter, !.prefix = IF file.full THEN @ ELSE <<>>]
  BY DEF Write
<1>2. /\ run = 0 /\ IsBlob(Footer) /\ Parsed(Footer) /\ Len(Fields(Footer, 0)) # 0 /\ WalkHeld(w)
      /\ w.row_groups # 0
      /\ \A j \in 1 .. Len(Fields(Footer, 0)) : Fields(Footer, 0)[j].id # FMD_POINTER
  BY <1>1, WritesOnce
<1>3. file \in Inputs /\ file = [full |-> file.full, prefix |-> file.prefix, footer |-> file.footer]
  BY <1>2 DEF JumpInv, FileTrue
<1>4. Regular(Footer) /\ ListsOfStructs(Footer) /\ Len(Footer) < 2 ^ (ByteBits * 4) BY <1>2, <1>3, InputsFit
<1>5. k = Len(Fields(Footer, 0)) BY <1>1 DEF JumpInv, WalkTrue
<1>6. GroupsTrue(w, Len(Fields(Footer, 0))) BY <1>1, <1>2, <1>5 DEF ResolverInv, WalkFound
<1>7. Served(NewFooter, w.row_groups, w.columns, PackBytes(Shifted(w.chunk_offsets)))
  BY <1>2, <1>4, <1>6, OutputServed
<1>8. IndexBytes(NewFooter) = PackBytes(Shifted(w.chunk_offsets)) BY <1>2, OutputBytes
<1>9. PICK s : s = NewFooter OBVIOUS
<1>10. Footer' = s
  <2>1. PICK p : p = IF file.full THEN file.prefix ELSE <<>> OBVIOUS
  <2>2. file' = [file EXCEPT !.footer = s, !.prefix = p] BY <1>1, <1>9, <2>1
  <2>3. file' = [full |-> file.full, prefix |-> p, footer |-> s] BY <1>3, <2>2
  <2> QED BY <2>3 DEF Footer
<1>11. Served(s, w.row_groups, w.columns, IndexBytes(s)) BY <1>7, <1>8, <1>9
<1>12. Served(Footer', w'.row_groups, w'.columns, IndexBytes(Footer')) BY <1>1, <1>10, <1>11
<1>13. NotAsked' BY <1>1, <1>2 DEF ResolverInv, Resolving, NotAsked
<1> QED BY <1>1, <1>12, <1>13 DEF ResolverInv, WalkFound, Resolving

\* The next conversion is not the first.
LEMMA ResolverConvertAgain ==
  ASSUME JumpInv, ResolverInv, ConvertAgain
  PROVE  ResolverInv'
<1>1. phase = "read" /\ phase' = "walk" /\ run' = run BY DEF ConvertAgain
<1>2. run # 0 BY <1>1 DEF JumpInv, FileTrue
<1> QED BY <1>1, <1>2 DEF ResolverInv, WalkFound, Resolving

\* The reader opens an index it can seek by.
LEMMA ResolverReadFooterIndex ==
  ASSUME JumpInv, ResolverInv, ReadFooterIndex
  PROVE  ResolverInv'
<1>1. phase = "open" /\ UNCHANGED <<file, run, k, w, want, at, out>> BY DEF ReadFooterIndex
<1>2. w.row_groups # 0 /\ IndexIn(w, Footer) BY <1>1 DEF JumpInv, IndexTrue
<1>3. phase' \in {"read", "failed"} BY <1>2, ReaderFails
<1>4. Served(Footer, w.row_groups, w.columns, IndexBytes(Footer)) BY <1>1 DEF ResolverInv
<1>5. phase' = "read" => Reads' BY <1>2, <1>4, ReaderServed
<1>6. NotAsked' BY <1>1 DEF ResolverInv, Resolving, NotAsked
<1> QED BY <1>3, <1>5, <1>6 DEF ResolverInv, WalkFound, Resolving

\* What a step of a resolver leaves alone.
LEMMA ReadsKept ==
  ASSUME Reads, UNCHANGED <<file, fi>>
  PROVE  Reads' /\ WalkGrid(Footer)' = WalkGrid(Footer)
<1>1. Footer' = Footer BY DEF Footer
<1>2. WalkGrid(Footer)' = WalkGrid(Footer) /\ StandardGrid(Footer)' = StandardGrid(Footer) BY <1>1
<1>3. \A c, g : Seek(c, g)' = Seek(c, g) BY DEF Seek
<1> QED BY <1>1, <1>2, <1>3, Zenon DEF Reads

\* Asking, leaving a column out and emitting a chunk.
LEMMA ResolverReads ==
  ASSUME JumpInv, ResolverInv, Ask \/ SkipColumn \/ EmitChunk
  PROVE  ResolverInv'
<1>1. phase = "read" /\ UNCHANGED <<file, run, phase, k, w, fi>> BY DEF Ask, SkipColumn, EmitChunk
<1>2. Reads /\ run # 0 BY <1>1 DEF ResolverInv, JumpInv, FileTrue
<1>3. Reads' /\ WalkGrid(Footer)' = WalkGrid(Footer) BY <1>1, <1>2, ReadsKept
<1>4. PICK grid, R, C :
        /\ grid = WalkGrid(Footer) /\ R = fi.row_groups /\ C = fi.columns
        /\ R \in Nat \ {0} /\ C \in Nat \ {0}
  BY <1>2, Zenon DEF Reads
<1>5. NotAsked \/ (want # {} /\ Halfway(grid, R, C)) BY <1>1, <1>4 DEF ResolverInv, Resolving
<1>6. want' # {} /\ Halfway(grid, R, C)'
  <2>1. CASE Ask BY <1>4, <2>1, Asked
  <2>2. CASE SkipColumn
    <3>1. want # {} /\ want' = want BY <2>2 DEF SkipColumn
    <3>2. Halfway(grid, R, C) BY <1>5, <3>1 DEF NotAsked
    <3> QED BY <1>4, <2>2, <3>1, <3>2, Skipped
  <2>3. CASE EmitChunk
    <3>1. want # {} /\ want' = want BY <2>3 DEF EmitChunk
    <3>2. Halfway(grid, R, C) BY <1>5, <3>1 DEF NotAsked
    <3> QED BY <1>2, <1>4, <2>3, <3>1, <3>2, Emitted
  <2> QED BY <2>1, <2>2, <2>3
<1>7. WalkGrid(Footer)' = grid /\ fi'.row_groups = R /\ fi'.columns = C BY <1>1, <1>3, <1>4
<1>8. Halfway(WalkGrid(Footer), fi.row_groups, fi.columns)' BY <1>6, <1>7 DEF Halfway
<1>9. Resolving' BY <1>1, <1>2, <1>6, <1>8 DEF Resolving
<1> QED BY <1>1, <1>3, <1>9 DEF ResolverInv, WalkFound

\* A stuttering step keeps the invariant.
LEMMA ResolverKept ==
  ASSUME ResolverInv, UNCHANGED vars
  PROVE  ResolverInv'
<1>1. UNCHANGED <<file, run, phase, k, w, fi, want, at, out>> BY DEF vars
<1>2. Footer' = Footer BY <1>1 DEF Footer
<1>3. WalkFound' BY <1>1, <1>2, GroupsKept DEF ResolverInv, WalkFound
<1>4. phase' = "open" => Served(Footer, w.row_groups, w.columns, IndexBytes(Footer))' BY <1>1, <1>2 DEF ResolverInv
<1>5. phase' = "read" => Reads' BY <1>1, ReadsKept DEF ResolverInv
<1>6. Resolving' BY <1>1, <1>2 DEF ResolverInv, Resolving, NotAsked, Halfway
<1> QED BY <1>3, <1>4, <1>5, <1>6 DEF ResolverInv

\* Every step keeps the invariant.
LEMMA ResolverStep == InputsRegular /\ JumpInv /\ ResolverInv /\ [Next]_vars => ResolverInv'
<1> SUFFICES ASSUME InputsRegular, JumpInv, ResolverInv, [Next]_vars PROVE ResolverInv' OBVIOUS
<1>1. CASE WalkField BY <1>1, ResolverWalkField
<1>2. CASE EndWalk BY <1>2, ResolverEndWalk
<1>3. CASE Write BY <1>3, ResolverWrite
<1>4. CASE ConvertAgain BY <1>4, ResolverConvertAgain
<1>5. CASE ReadFooterIndex BY <1>5, ResolverReadFooterIndex
<1>6. CASE Ask \/ SkipColumn \/ EmitChunk BY <1>6, ResolverReads
<1>7. CASE UNCHANGED vars BY <1>7, ResolverKept
<1> QED BY <1>1, <1>2, <1>3, <1>4, <1>5, <1>6, <1>7 DEF Next

\* For every file whose parsed footer is regular (a field once in its struct, the
\* row groups of one width, the two numbers in every chunk: InputsRegular), every
\* projection and every moment of it: the chunks that IndexResolver seeks by the
\* packed offsets are those WalkResolver walks to, in the order it gathers them, and
\* WalkResolver's are StandardResolver's (footer_decode_bench.cc:134).
THEOREM ResolversAlwaysAgree ==
  ASSUME InputsRegular
  PROVE  Spec => []ResolversAgree
<1>1. ResolverInv => ResolversAgree
  <2> SUFFICES ASSUME ResolverInv, phase = "read" PROVE ResolversAgree BY DEF ResolversAgree
  <2>1. Reads /\ Resolving BY DEF ResolverInv
  <2>2. PICK grid, R, C :
          /\ grid = WalkGrid(Footer) /\ R = fi.row_groups /\ C = fi.columns
          /\ R \in Nat \ {0} /\ C \in Nat \ {0}
          /\ DOMAIN grid = 1 .. R /\ \A g \in 1 .. R : DOMAIN grid[g] = 1 .. C
          /\ StandardGrid(Footer) = grid
    BY <2>1, Zenon DEF Reads
  <2>3. IsPrefix(out, Gather(grid, want)) /\ (at[1] = C /\ want # {} => out = Gather(grid, want))
    <3>1. CASE want # {} /\ Halfway(grid, R, C) BY <2>2, <3>1, HalfwayAgrees
    <3>2. CASE NotAsked
      <4>1. PICK f : Gathers(f, grid, want, R, C) /\ Gather(grid, want) = f[C] BY <2>2, GatherBy
      <4>2. Growing(f, grid, want, R, C) BY <2>2, <4>1, GathersAt
      <4>3. PICK S, x, y : /\ S = Infos(grid, R, C) /\ x = <<>> /\ y = f[C] /\ x \in Seq(S) /\ y \in Seq(S)
                           /\ Len(x) = 0
        BY <2>2, <4>2, EmptySeq DEF Growing
      <4>4. Begins(x, y) BY <4>3, LenProperties DEF Begins
      <4>5. IsPrefix(x, y) BY <4>3, <4>4, BeginsPrefix
      <4> QED BY <3>2, <4>1, <4>3, <4>5 DEF NotAsked
    <3> QED BY <2>1, <2>2, <3>1, <3>2 DEF Resolving
  <2> QED BY <2>2, <2>3 DEF ResolversAgree
<1>2. Init => ResolverInv BY ResolverInit
<1>3. JumpInv /\ ResolverInv /\ [Next]_vars => ResolverInv' BY ResolverStep
<1> QED BY <1>1, <1>2, <1>3, JumpInvariant, PTL DEF Spec
=============================================================================

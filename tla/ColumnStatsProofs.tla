-------------------------- MODULE ColumnStatsProofs --------------------------
(***************************************************************************)
(* For any footer, any number of columns and row groups, any limit and any *)
(* sequence of projections: no statistic of another column or call leaks   *)
(* into an answer, every bound still bounds, and nothing is lost without   *)
(* truncation.                                                             *)
(***************************************************************************)
EXTENDS ColumnStats, StatBoundsProofs

-----------------------------------------------------------------------------
(* Sequences of unspecified elements.                                       *)

LEMMA SeqOfItself ==
  ASSUME NEW s, IsSeq(s)
  PROVE  s \in Seq({s[i] : i \in 1 .. Len(s)}) /\ DOMAIN s = 1 .. Len(s)
<1> DEFINE S == {s[i] : i \in 1 .. Len(s)}
<1>1. Len(s) \in Nat /\ s = [i \in 1 .. Len(s) |-> s[i]] BY DEF IsSeq
<1>2. s \in [1 .. Len(s) -> S] BY <1>1
<1>3. s \in Seq(S) BY <1>1, <1>2, SeqDef
<1> QED BY <1>1, <1>3

LEMMA ItselfOfSeq ==
  ASSUME NEW S, NEW s \in Seq(S)
  PROVE  IsSeq(s)
<1>1. Len(s) \in Nat /\ s \in [1 .. Len(s) -> S] BY LenProperties
<1> QED BY <1>1 DEF IsSeq

LEMMA AppendSeq ==
  ASSUME NEW s, IsSeq(s), NEW e
  PROVE  /\ IsSeq(Append(s, e)) /\ Len(Append(s, e)) = Len(s) + 1
         /\ \A i \in 1 .. Len(s) : Append(s, e)[i] = s[i]
         /\ Append(s, e)[Len(s) + 1] = e
<1> DEFINE T == {s[i] : i \in 1 .. Len(s)}
           S == T \cup {e}
<1>1. s \in Seq(S)
  <2>1. s \in Seq(T) BY SeqOfItself
  <2> HIDE DEF T
  <2> QED BY <2>1, SeqMonotonic
<1>2. e \in S OBVIOUS
<1> HIDE DEF S
<1>3. /\ Append(s, e) \in Seq(S) /\ Len(Append(s, e)) = Len(s) + 1
      /\ \A i \in 1 .. Len(s) : Append(s, e)[i] = s[i]
      /\ Append(s, e)[Len(s) + 1] = e
  BY <1>1, <1>2, AppendProperties
<1> QED BY <1>3, ItselfOfSeq

LEMMA ConcatSeq ==
  ASSUME NEW s, IsSeq(s), NEW t, IsSeq(t)
  PROVE  /\ IsSeq(s \o t) /\ Len(s \o t) = Len(s) + Len(t)
         /\ \A i \in 1 .. Len(s) : (s \o t)[i] = s[i]
         /\ \A i \in 1 .. Len(t) : (s \o t)[Len(s) + i] = t[i]
<1> DEFINE S == {s[i] : i \in 1 .. Len(s)}
           T == {t[i] : i \in 1 .. Len(t)}
           U == S \cup T
<1>1. s \in Seq(S) /\ t \in Seq(T) BY SeqOfItself
<1>2. s \in Seq(U) /\ t \in Seq(U)
  <2> HIDE DEF S, T
  <2> QED BY <1>1, SeqMonotonic
<1> HIDE DEF U
<1>3. /\ s \o t \in Seq(U) /\ Len(s \o t) = Len(s) + Len(t)
      /\ \A i \in 1 .. Len(s) + Len(t) : (s \o t)[i] =
           IF i <= Len(s) THEN s[i] ELSE t[i - Len(s)]
  BY <1>2, ConcatProperties
<1>4. Len(s) \in Nat /\ Len(t) \in Nat BY DEF IsSeq
<1>5. \A i \in 1 .. Len(s) : (s \o t)[i] = s[i] BY <1>3, <1>4
<1>6. \A i \in 1 .. Len(t) : (s \o t)[Len(s) + i] = t[i]
  <2> TAKE i \in 1 .. Len(t)
  <2>1. Len(s) + i \in 1 .. Len(s) + Len(t) /\ ~(Len(s) + i <= Len(s))
        /\ Len(s) + i - Len(s) = i
    BY <1>4
  <2> QED BY <2>1, <1>3
<1> QED BY <1>3, <1>5, <1>6, ItselfOfSeq

\* A sequence given by its length and its elements.
LEMMA TabulatedSeq ==
  ASSUME NEW n \in Nat, NEW s, s = [i \in 1 .. n |-> s[i]]
  PROVE  IsSeq(s) /\ Len(s) = n
<1> DEFINE S == {s[i] : i \in 1 .. n}
<1>1. s \in [1 .. n -> S] OBVIOUS
<1>2. s \in Seq(S) BY <1>1, SeqDef
<1> HIDE DEF S
<1>3. Len(s) \in Nat /\ DOMAIN s = 1 .. Len(s) BY <1>2, LenProperties
<1>4. 1 .. Len(s) = 1 .. n BY <1>1, <1>3
<1>5. Len(s) = n BY <1>3, <1>4
<1> QED BY <1>2, <1>5, ItselfOfSeq

-----------------------------------------------------------------------------
(* What only depends on the file and the limit stays as it is.             *)

LEMMA FileFrame ==
  ASSUME UNCHANGED fileVars
  PROVE  /\ \A k, n, id : Entered(k, n, id)' = Entered(k, n, id)
         /\ \A k, r, id : Entry(Stat(k, r), id)' = Entry(Stat(k, r), id)
         /\ \A a, k, n, id : IsArray(a, k, n, id)' <=> IsArray(a, k, n, id)
         /\ \A d, k : Describes(d, k)' <=> Describes(d, k)
         /\ \A l : RightLoc(l)' <=> RightLoc(l)
<1>1. file' = file /\ limit' = limit BY DEF fileVars
<1>2. \A k, n, id : Entered(k, n, id)' = Entered(k, n, id)
  BY <1>1 DEF Entered, Adds, Stat
<1>3. \A k, r, id : Entry(Stat(k, r), id)' = Entry(Stat(k, r), id)
  BY <1>1 DEF Entry, Stat, StoredMin, StoredMax
<1>4. \A a, k, n, id : IsArray(a, k, n, id)' <=> IsArray(a, k, n, id)
  BY <1>2, <1>3 DEF IsArray
<1>5. \A d, k : Describes(d, k)' <=> Describes(d, k)
  BY <1>2, <1>3, <1>4 DEF Describes
<1>6. \A l : RightLoc(l)' <=> RightLoc(l)
  BY <1>1 DEF RightLoc, Stat, Entry, StoredMin, StoredMax
<1> QED BY <1>2, <1>3, <1>4, <1>5, <1>6

LEMMA FieldIdsAre ==
  /\ FieldIds = 1 .. 6 /\ Decoded = 1 .. 4
  /\ NullCounts = 1 /\ Prefixes = 2 /\ MinSuffixes = 3 /\ MaxSuffixes = 4
  /\ MinIsExact = 5 /\ MaxIsExact = 6 /\ Stop.id = 0
BY DEF FieldIds, Decoded, NullCounts, Prefixes, MinSuffixes, MaxSuffixes, MinIsExact,
       MaxIsExact, Stop

-----------------------------------------------------------------------------
(* The descriptor of a finished column.                                     *)

LEMMA DescriptorRight ==
  ASSUME StatsInv, phase = "build", rg = G, NEW k \in Columns, col = k
  PROVE  IsSeq(Descriptor) /\ Describes(Descriptor, k)
<1> USE FieldIdsAre
<1> DEFINE nulls == DOMAIN draft[NullCounts] # {}
           bounds == DOMAIN draft[Prefixes] # {}
           inexact == \E p \in DOMAIN draft[MinIsExact] :
                        ~draft[MinIsExact][p] \/ ~draft[MaxIsExact][p]
           A == IF nulls THEN <<NullCounts>> ELSE << >>
           B == IF bounds THEN <<Prefixes, MinSuffixes, MaxSuffixes>> ELSE << >>
           X == IF inexact THEN <<MinIsExact, MaxIsExact>> ELSE << >>
           ids == A \o B \o X
<1>1. \A id \in FieldIds : IsArray(draft[id], k, G, id)
  BY DEF StatsInv, DraftInv
<1>2. /\ nulls <=> Entered(k, G, NullCounts) # {}
      /\ \A id \in {Prefixes, MinSuffixes, MaxSuffixes} :
           bounds <=> Entered(k, G, id) # {}
  <2>1. \A id \in {Prefixes, MinSuffixes, MaxSuffixes} :
          Entered(k, G, id) = Entered(k, G, Prefixes)
    BY DEF Entered, Adds
  <2> QED BY <1>1, <2>1 DEF IsArray
<1>3. CASE ~nulls /\ ~bounds
  <2>1. Descriptor = << >> BY <1>3 DEF Descriptor
  <2>2. IsSeq(<< >>) /\ Len(<< >>) = 0 BY EmptySeq, ItselfOfSeq
  <2>3. \A id \in Decoded : Entered(k, G, id) = {} BY <1>2, <1>3
  <2>4. \A id \in {MinIsExact, MaxIsExact} : Entered(k, G, id) = {}
    <3>1. \A id \in {MinIsExact, MaxIsExact} : Entered(k, G, id) = Entered(k, G, Prefixes)
      BY DEF Entered, Adds
    <3> QED BY <3>1, <2>3
  <2> QED BY <2>1, <2>2, <2>3, <2>4 DEF Describes
<1>4. CASE nulls \/ bounds
  <2>1. /\ IsSeq(A) /\ IsSeq(B) /\ IsSeq(X)
        /\ \A i \in 1 .. Len(A) : A[i] \in FieldIds
        /\ \A i \in 1 .. Len(B) : B[i] \in FieldIds
        /\ \A i \in 1 .. Len(X) : X[i] \in FieldIds
        /\ nulls => Len(A) = 1 /\ A[1] = NullCounts
        /\ bounds => Len(B) = 3 /\ B[1] = Prefixes /\ B[2] = MinSuffixes /\ B[3] = MaxSuffixes
    <3>0. /\ << >> \in Seq(FieldIds) /\ <<NullCounts>> \in Seq(FieldIds)
          /\ <<Prefixes, MinSuffixes, MaxSuffixes>> \in Seq(FieldIds)
          /\ <<MinIsExact, MaxIsExact>> \in Seq(FieldIds)
      OBVIOUS
    <3>1. A \in Seq(FieldIds) /\ B \in Seq(FieldIds) /\ X \in Seq(FieldIds)
      <4> HIDE DEF nulls, bounds, inexact
      <4> QED BY <3>0, Zenon
    <3>2. \A q \in Seq(FieldIds) : IsSeq(q) /\ \A i \in 1 .. Len(q) : q[i] \in FieldIds
      BY ItselfOfSeq, ElementOfSeq
    <3>3. nulls => Len(A) = 1 /\ A[1] = NullCounts OBVIOUS
    <3>4. bounds => Len(B) = 3 /\ B[1] = Prefixes /\ B[2] = MinSuffixes /\ B[3] = MaxSuffixes
      OBVIOUS
    <3> HIDE DEF A, B, X, nulls, bounds
    <3> QED BY <3>1, <3>2, <3>3, <3>4
  <2> HIDE DEF A, B, X
  <2>2. IsSeq(A \o B) /\ Len(A \o B) = Len(A) + Len(B)
        /\ (\A i \in 1 .. Len(A) : (A \o B)[i] = A[i])
        /\ (\A i \in 1 .. Len(B) : (A \o B)[Len(A) + i] = B[i])
    BY <2>1, ConcatSeq
  <2>3. IsSeq(ids) /\ Len(ids) = Len(A) + Len(B) + Len(X)
        /\ (\A i \in 1 .. Len(A) + Len(B) : ids[i] = (A \o B)[i])
        /\ (\A i \in 1 .. Len(X) : ids[Len(A) + Len(B) + i] = X[i])
    BY <2>1, <2>2, ConcatSeq
  <2>4. Len(A) \in Nat /\ Len(B) \in Nat /\ Len(X) \in Nat BY <2>1 DEF IsSeq
  <2>5. \A i \in 1 .. Len(A) : ids[i] = A[i] BY <2>2, <2>3, <2>4
  <2>6. \A i \in 1 .. Len(B) : ids[Len(A) + i] = B[i]
    <3> TAKE i \in 1 .. Len(B)
    <3>1. Len(A) + i \in 1 .. Len(A) + Len(B) BY <2>4
    <3> QED BY <3>1, <2>2, <2>3
  <2>7. \A i \in 1 .. Len(ids) : ids[i] \in FieldIds
    <3> TAKE i \in 1 .. Len(ids)
    <3>1. CASE i <= Len(A) BY <3>1, <2>1, <2>4, <2>5
    <3>2. CASE i > Len(A) /\ i <= Len(A) + Len(B)
      <4>1. i - Len(A) \in 1 .. Len(B) /\ Len(A) + (i - Len(A)) = i BY <3>2, <2>3, <2>4
      <4> QED BY <4>1, <2>1, <2>6
    <3>3. CASE i > Len(A) + Len(B)
      <4> DEFINE j == i - (Len(A) + Len(B))
      <4>1. j \in 1 .. Len(X) /\ Len(A) + Len(B) + j = i BY <3>3, <2>3, <2>4
      <4> QED BY <4>1, <2>1, <2>3
    <3> QED BY <3>1, <3>2, <3>3, <2>3, <2>4
  <2>8. \A id \in Decoded : Entered(k, G, id) # {} => \E i \in 1 .. Len(ids) : ids[i] = id
    <3> SUFFICES ASSUME NEW id \in Decoded, Entered(k, G, id) # {}
                 PROVE  \E i \in 1 .. Len(ids) : ids[i] = id
      OBVIOUS
    <3>1. CASE id = NullCounts
      <4>1. Len(A) = 1 /\ A[1] = id BY <3>1, <1>2, <2>1
      <4>2. 1 \in 1 .. Len(ids) /\ ids[1] = id BY <4>1, <2>3, <2>4, <2>5
      <4> QED BY <4>2
    <3>2. CASE id \in {Prefixes, MinSuffixes, MaxSuffixes}
      <4>1. Len(B) = 3 /\ B[1] = Prefixes /\ B[2] = MinSuffixes /\ B[3] = MaxSuffixes
        BY <3>2, <1>2, <2>1
      <4>2. PICK j \in 1 .. 3 : B[j] = id BY <3>2, <4>1
      <4>3. Len(A) + j \in 1 .. Len(ids) /\ ids[Len(A) + j] = id
        BY <4>1, <4>2, <2>3, <2>4, <2>6
      <4> QED BY <4>3
    <3> QED BY <3>1, <3>2
  <2>15. ASSUME NEW id \in {MinIsExact, MaxIsExact}, \A i \in 1 .. Len(ids) : ids[i] # id
         PROVE  \A r \in Entered(k, G, id) : Entry(Stat(k, r), id)
    <3>1. CASE inexact
      <4>1. Len(X) = 2 /\ X[1] = MinIsExact /\ X[2] = MaxIsExact
        <5>1. X = <<MinIsExact, MaxIsExact>> BY <3>1 DEF X
        <5> QED BY <5>1
      <4>2. PICK j \in 1 .. 2 : X[j] = id BY <4>1
      <4>3. Len(A) + Len(B) + j \in 1 .. Len(ids) /\ ids[Len(A) + Len(B) + j] = id
        BY <4>1, <4>2, <2>3, <2>4
      <4> QED BY <4>3, <2>15
    <3>2. CASE ~inexact
      <4>1. Entered(k, G, MinIsExact) = Entered(k, G, MaxIsExact) BY DEF Entered, Adds
      <4>2. \A j \in {MinIsExact, MaxIsExact} :
              DOMAIN draft[j] = Entered(k, G, j)
              /\ \A r \in Entered(k, G, j) : draft[j][r] = Entry(Stat(k, r), j)
        BY <1>1 DEF IsArray
      <4>3. \A r \in Entered(k, G, id) : draft[MinIsExact][r] /\ draft[MaxIsExact][r]
        BY <3>2, <4>1, <4>2
      <4> QED BY <4>1, <4>2, <4>3
    <3> QED BY <3>1, <3>2
  <2> HIDE DEF ids
  <2> DEFINE fs == Fields(ids)
  <2>9. /\ IsSeq(fs) /\ Len(fs) = Len(ids)
        /\ \A i \in 1 .. Len(ids) : fs[i].id = ids[i] /\ fs[i].array = draft[ids[i]]
    <3>1. Len(ids) \in Nat BY <2>3 DEF IsSeq
    <3>2. fs = [i \in 1 .. Len(ids) |-> [id |-> ids[i], array |-> draft[ids[i]]]] BY DEF Fields
    <3>3. fs = [i \in 1 .. Len(ids) |-> fs[i]] BY <3>2
    <3>4. IsSeq(fs) /\ Len(fs) = Len(ids)
      <4> HIDE DEF fs
      <4> QED BY <3>1, <3>3, TabulatedSeq
    <3> QED BY <3>2, <3>4
  <2>10. Descriptor = fs \o <<Stop>>
    BY <1>4 DEF Descriptor, ids, A, B, X
  <2> DEFINE end == <<Stop>>
  <2>11. IsSeq(end) /\ Len(end) = 1 /\ end[1] = Stop
    <3>1. end \in Seq({Stop}) OBVIOUS
    <3>2. Len(end) = 1 /\ end[1] = Stop OBVIOUS
    <3> HIDE DEF end
    <3> QED BY <3>1, <3>2, ItselfOfSeq
  <2> HIDE DEF fs, end
  <2>12. /\ IsSeq(Descriptor) /\ Len(Descriptor) = Len(ids) + 1
         /\ \A i \in 1 .. Len(ids) : Descriptor[i] = fs[i]
         /\ Descriptor[Len(ids) + 1] = Stop
    <3>1. /\ IsSeq(fs \o end) /\ Len(fs \o end) = Len(fs) + Len(end)
          /\ \A i \in 1 .. Len(fs) : (fs \o end)[i] = fs[i]
          /\ \A i \in 1 .. Len(end) : (fs \o end)[Len(fs) + i] = end[i]
      <4>1. IsSeq(fs) /\ IsSeq(end) BY <2>9, <2>11
      <4> QED BY <4>1, ConcatSeq
    <3>2. Descriptor = fs \o end BY <2>10 DEF end
    <3> QED BY <3>1, <3>2, <2>9, <2>11
  <2>13. Len(ids) \in Nat BY <2>3 DEF IsSeq
  <2>14. Describes(Descriptor, k)
    <3>1. Descriptor[Len(Descriptor)].id = 0 BY <2>12
    <3>2. \A i \in 1 .. Len(Descriptor) - 1 :
            Descriptor[i].id \in FieldIds
            /\ IsArray(Descriptor[i].array, k, G, Descriptor[i].id)
      <4> TAKE i \in 1 .. Len(Descriptor) - 1
      <4>1. i \in 1 .. Len(ids) BY <2>12, <2>13
      <4> QED BY <4>1, <1>1, <2>7, <2>9, <2>12
    <3>3. \A id \in Decoded :
            Entered(k, G, id) # {} => \E i \in 1 .. Len(Descriptor) - 1 : Descriptor[i].id = id
      <4> SUFFICES ASSUME NEW id \in Decoded, Entered(k, G, id) # {}
                   PROVE  \E i \in 1 .. Len(Descriptor) - 1 : Descriptor[i].id = id
        OBVIOUS
      <4>1. PICK i \in 1 .. Len(ids) : ids[i] = id BY <2>8
      <4>2. Descriptor[i].id = id BY <4>1, <2>9, <2>12
      <4>3. i \in 1 .. Len(Descriptor) - 1 BY <4>1, <2>12, <2>13
      <4> QED BY <4>2, <4>3
    <3>4. ASSUME NEW id \in {MinIsExact, MaxIsExact},
                 \A i \in 1 .. Len(Descriptor) - 1 : Descriptor[i].id # id
          PROVE  \A r \in Entered(k, G, id) : Entry(Stat(k, r), id)
      <4>1. \A i \in 1 .. Len(ids) : ids[i] # id
        <5> TAKE i \in 1 .. Len(ids)
        <5>1. i \in 1 .. Len(Descriptor) - 1 /\ Descriptor[i].id = ids[i]
          BY <2>9, <2>12, <2>13
        <5> QED BY <5>1, <3>4
      <4> QED BY <4>1, <2>15
    <3> QED BY <3>1, <3>2, <3>3, <3>4 DEF Describes
  <2> QED BY <2>12, <2>14
<1> QED BY <1>3, <1>4

-----------------------------------------------------------------------------
(* Parts of the invariant that a step leaves alone.                         *)

LEMMA OutFrame ==
  ASSUME StatsInv, UNCHANGED <<fileVars, out>>
  PROVE  OutInv'
<1>1. \A l : RightLoc(l)' <=> RightLoc(l) BY FileFrame
<1>2. \A n \in 1 .. Len(out) : RightLoc(out[n]) BY DEF StatsInv, OutInv
<1>3. out' = out OBVIOUS
<1>4. \A n \in 1 .. Len(out) : RightLoc(out[n])' BY <1>1, <1>2, <1>3
<1> QED BY <1>3, <1>4 DEF OutInv

LEMMA DescFrame ==
  ASSUME StatsInv, UNCHANGED <<fileVars, col_desc>>,
         phase = "build" => col = C,
         phase' # "build"
  PROVE  DescInv'
<1>1. \A d, k : Describes(d, k)' <=> Describes(d, k) BY FileFrame
<1>2. /\ Len(col_desc) = C
      /\ \A k \in Columns : k < Len(col_desc) => Describes(col_desc[k + 1], k)
  BY DEF StatsInv, DescInv
<1> QED BY <1>1, <1>2 DEF DescInv

LEMMA LayoutFrame ==
  ASSUME StatsInv, UNCHANGED <<col_desc, payload, col_off>>,
         phase \notin {"build", "lay_out"}, phase' \notin {"build", "lay_out"}
  PROVE  LayoutInv'
BY DEF StatsInv, LayoutInv, HaveStats

\* Nothing has been laid out while descriptors are being built.
LEMMA LayoutEmpty ==
  ASSUME StatsInv, phase = "build", UNCHANGED <<phase, payload, col_off>>
  PROVE  LayoutInv'
<1>1. col_off' = << >> /\ payload' = << >> /\ phase' = "build"
  BY DEF StatsInv, LayoutInv
<1>2. \A k \in Columns : ~(k < Len(col_off'))
  BY <1>1 DEF Columns
<1> QED BY <1>1, <1>2 DEF LayoutInv

-----------------------------------------------------------------------------
(* The converter's steps.                                                   *)

LEMMA InitStep == Init => StatsInv
<1> SUFFICES ASSUME Init PROVE StatsInv OBVIOUS
<1> USE FieldIdsAre, GridAssumption
<1>1. IsSeq(<< >>) /\ Len(<< >>) = 0 BY EmptySeq, ItselfOfSeq
<1>2. StatsTypeOK
  <2>1. DOMAIN draft = FieldIds BY DEF Init, NoArrays
  <2>2. DOMAIN buf = Decoded /\ \A id \in Decoded : buf[id].has \subseteq RowGroups
    BY DEF Init, Blank
  <2>3. << >> \in Seq(Nat) OBVIOUS
  <2>4. file \in [Columns -> [RowGroups -> Statistics]] BY FilesAssumption DEF Init
  <2> QED BY <1>1, <2>1, <2>2, <2>3, <2>4 DEF Init, StatsTypeOK
<1>3. DraftInv
  <2>1. \A id \in FieldIds : draft[id] = << >> BY DEF Init, NoArrays
  <2>2. \A k, id : IsArray(<< >>, k, 0, id) BY DEF IsArray, Entered
  <2> QED BY <2>1, <2>2 DEF Init, DraftInv
<1>4. DescInv BY <1>1 DEF Init, DescInv, Columns
<1>5. LayoutInv BY <1>1 DEF Init, LayoutInv, Columns
<1>6. BufferInv BY DEF Init, BufferInv
<1>7. OutInv BY <1>1 DEF Init, OutInv
<1> QED BY <1>2, <1>3, <1>4, <1>5, <1>6, <1>7 DEF StatsInv

LEMMA AddRowGroupStep ==
  ASSUME StatsInv, AddRowGroup
  PROVE  StatsInv'
<1> USE FieldIdsAre, GridAssumption
<1>1. UNCHANGED <<fileVars, phase, col, col_desc, payload, col_off, readVars>>
  BY DEF AddRowGroup
<1>2. phase = "build" /\ col < C /\ rg < G /\ rg' = rg + 1 /\ rg \in Nat /\ StatsTypeOK
  BY DEF AddRowGroup, StatsInv, StatsTypeOK
<1>3. StatsTypeOK'
  <2>1. DOMAIN draft' = FieldIds BY DEF AddRowGroup, StatsInv, StatsTypeOK
  <2>2. rg' \in 0 .. G BY <1>2
  <2> QED BY <1>1, <1>2, <2>1, <2>2 DEF StatsTypeOK, readVars, fileVars
<1>4. DraftInv'
  <2> SUFFICES ASSUME NEW k \in Columns, col = k, NEW id \in FieldIds
               PROVE  IsArray(draft[id], k, rg, id)'
    BY <1>1, <1>2 DEF DraftInv
  <2>1. IsArray(draft[id], k, rg, id) BY <1>2 DEF StatsInv, DraftInv
  <2>2. draft'[id] = IF Adds(Stat(k, rg), id)
                     THEN Put(draft[id], rg, Entry(Stat(k, rg), id)) ELSE draft[id]
    BY <1>2 DEF AddRowGroup, StatsTypeOK
  <2>3. Entered(k, rg + 1, id) =
          IF Adds(Stat(k, rg), id) THEN Entered(k, rg, id) \cup {rg} ELSE Entered(k, rg, id)
    BY <1>2 DEF Entered
  <2>4. IsArray(draft'[id], k, rg + 1, id)
    BY <2>1, <2>2, <2>3 DEF IsArray, Put
  <2>5. \A r : Entry(Stat(k, r), id)' = Entry(Stat(k, r), id) BY <1>1, FileFrame
  <2>6. file' = file BY <1>1 DEF fileVars
  <2> QED BY <1>2, <2>4, <2>5, <2>6 DEF IsArray, Entered, Adds, Stat
<1>5. DescInv'
  <2>1. \A d, k : Describes(d, k)' <=> Describes(d, k) BY <1>1, FileFrame
  <2> QED BY <1>1, <2>1 DEF StatsInv, DescInv
<1>6. LayoutInv' BY <1>1, <1>2, LayoutEmpty
<1>7. BufferInv' BY <1>1, <1>2 DEF BufferInv
<1>8. OutInv' BY <1>1, OutFrame DEF readVars
<1> QED BY <1>3, <1>4, <1>5, <1>6, <1>7, <1>8 DEF StatsInv

LEMMA EndColumnStep ==
  ASSUME StatsInv, EndColumn
  PROVE  StatsInv'
<1> USE FieldIdsAre, GridAssumption
<1>1. UNCHANGED <<fileVars, phase, payload, col_off, readVars>>
  BY DEF EndColumn
<1>2. /\ phase = "build" /\ col < C /\ rg = G /\ col' = col + 1 /\ rg' = 0
      /\ col_desc' = Append(col_desc, Descriptor) /\ draft' = NoArrays /\ StatsTypeOK
  BY DEF EndColumn, StatsInv
<1>3. col \in Columns /\ col \in Nat BY <1>2 DEF StatsTypeOK, Columns
<1>4. PICK k \in Columns : col = k BY <1>3
<1>5. IsSeq(Descriptor) /\ Describes(Descriptor, k)
  BY <1>2, <1>4, DescriptorRight
<1> DEFINE D == Descriptor
<1> HIDE DEF D
<1>6. /\ IsSeq(col_desc') /\ Len(col_desc') = Len(col_desc) + 1
      /\ \A i \in 1 .. Len(col_desc) : col_desc'[i] = col_desc[i]
      /\ col_desc'[Len(col_desc) + 1] = D
  <2>1. IsSeq(col_desc) /\ col_desc' = Append(col_desc, D) BY <1>2 DEF StatsTypeOK, D
  <2> QED BY <2>1, AppendSeq
<1>7. Len(col_desc) = col BY <1>2 DEF StatsInv, DescInv
<1>8. StatsTypeOK'
  <2>1. DOMAIN draft' = FieldIds BY <1>2 DEF NoArrays
  <2>2. \A i \in DOMAIN col_desc' : IsSeq(col_desc'[i])
    <3>1. DOMAIN col_desc' = 1 .. Len(col_desc) + 1 /\ DOMAIN col_desc = 1 .. Len(col_desc)
      BY <1>2, <1>6, SeqOfItself DEF StatsTypeOK
    <3>2. \A i \in 1 .. Len(col_desc) : IsSeq(col_desc[i]) BY <1>2, <3>1 DEF StatsTypeOK
    <3>3. IsSeq(D) BY <1>5 DEF D
    <3> QED BY <1>3, <1>6, <1>7, <3>1, <3>2, <3>3
  <2>3. col' \in 0 .. C /\ rg' \in 0 .. G BY <1>2, <1>3
  <2> QED BY <1>1, <1>2, <1>6, <2>1, <2>2, <2>3 DEF StatsTypeOK, readVars, fileVars
<1>9. DraftInv'
  <2>1. \A id \in FieldIds : draft'[id] = << >> BY <1>2 DEF NoArrays
  <2>2. \A j, id : IsArray(<< >>, j, 0, id)' BY DEF IsArray, Entered
  <2> QED BY <1>2, <2>1, <2>2 DEF DraftInv
<1>10. DescInv'
  <2>1. \A d, j : Describes(d, j)' <=> Describes(d, j) BY <1>1, FileFrame
  <2>2. \A j \in Columns : j < Len(col_desc) + 1 => Describes(col_desc'[j + 1], j)
    <3> SUFFICES ASSUME NEW j \in Columns, j < Len(col_desc) + 1
                 PROVE  Describes(col_desc'[j + 1], j)
      OBVIOUS
    <3>1. CASE j < Len(col_desc)
      <4>1. col_desc'[j + 1] = col_desc[j + 1] BY <3>1, <1>3, <1>6, <1>7 DEF Columns
      <4> QED BY <3>1, <4>1 DEF StatsInv, DescInv
    <3>2. CASE j = Len(col_desc)
      <4>1. j = k /\ col_desc'[j + 1] = Descriptor BY <3>2, <1>4, <1>6, <1>7 DEF D
      <4> QED BY <4>1, <1>5
    <3> QED BY <3>1, <3>2, <1>3, <1>7 DEF Columns
  <2> QED BY <1>1, <1>2, <1>6, <1>7, <2>1, <2>2 DEF DescInv
<1>11. LayoutInv' BY <1>1, <1>2, LayoutEmpty
<1>12. BufferInv' BY <1>1, <1>2 DEF BufferInv
<1>13. OutInv' BY <1>1, OutFrame DEF readVars
<1> QED BY <1>8, <1>9, <1>10, <1>11, <1>12, <1>13 DEF StatsInv

LEMMA EndBuildStep ==
  ASSUME StatsInv, EndBuild
  PROVE  StatsInv'
<1> USE GridAssumption
<1>1. UNCHANGED <<fileVars, rg, draft, col_desc, payload, col_off, readVars>>
  BY DEF EndBuild
<1>2. /\ phase = "build" /\ col = C /\ col' = 0 /\ StatsTypeOK
      /\ phase' = IF HaveStats THEN "lay_out" ELSE "idle"
  BY DEF EndBuild, StatsInv
<1>3. StatsTypeOK' BY <1>1, <1>2 DEF StatsTypeOK, readVars, fileVars
<1>4. DraftInv' BY <1>2 DEF DraftInv
<1>5. DescInv' BY <1>1, <1>2, DescFrame
<1>6. LayoutInv'
  <2>1. col_off' = << >> /\ payload' = << >> BY <1>1, <1>2 DEF StatsInv, LayoutInv
  <2>2. Len(col_off') = 0 BY <2>1, EmptySeq
  <2>3. HaveStats' <=> HaveStats BY <1>1 DEF HaveStats
  <2> QED BY <1>2, <2>2, <2>3 DEF LayoutInv, Columns
<1>7. BufferInv' BY <1>2 DEF BufferInv
<1>8. OutInv' BY <1>1, OutFrame DEF readVars
<1> QED BY <1>3, <1>4, <1>5, <1>6, <1>7, <1>8 DEF StatsInv

\* Appending the end of the payload to the offsets keeps what they said.
LEMMA OffsetAppended ==
  ASSUME StatsInv, phase = "lay_out", col_off' = Append(col_off, Len(payload))
  PROVE  /\ col_off' \in Seq(Nat) /\ Len(col_off') = col + 1
         /\ col_off'[col + 1] = Len(payload)
         /\ \A k \in Columns : k < col => col_off'[k + 1] = col_off[k + 1]
         /\ \A k \in Columns : k < col =>
              col_off'[k + 2] = col_off[k + 1] + Len(col_desc[k + 1])
<1>1. /\ col_off \in Seq(Nat) /\ Len(payload) \in Nat /\ Len(col_off) = col
      /\ col \in Nat
  BY DEF StatsInv, StatsTypeOK, LayoutInv, IsSeq
<1>2. /\ col_off' \in Seq(Nat) /\ Len(col_off') = col + 1
      /\ \A i \in 1 .. col : col_off'[i] = col_off[i]
      /\ col_off'[col + 1] = Len(payload)
  BY <1>1, AppendProperties
<1>3. \A k \in Columns : k < col => col_off'[k + 1] = col_off[k + 1]
  BY <1>1, <1>2 DEF Columns
<1>4. ASSUME NEW k \in Columns, k < col
      PROVE  col_off'[k + 2] = col_off[k + 1] + Len(col_desc[k + 1])
  <2>1. col_off[k + 1] + Len(col_desc[k + 1]) =
          IF k + 1 < Len(col_off) THEN col_off[k + 2] ELSE Len(payload)
    BY <1>1, <1>4 DEF StatsInv, LayoutInv
  <2>2. CASE k + 1 < col
    <3>1. k + 2 \in 1 .. col BY <2>2, <1>1 DEF Columns
    <3> QED BY <3>1, <2>1, <2>2, <1>1, <1>2
  <2>3. CASE k + 1 = col
    <3>1. k + 2 = col + 1 BY <2>3, <1>1 DEF Columns
    <3> QED BY <3>1, <2>1, <2>3, <1>1, <1>2
  <2> QED BY <2>2, <2>3, <1>1, <1>4 DEF Columns
<1> QED BY <1>2, <1>3, <1>4

LEMMA LayOutColumnStep ==
  ASSUME StatsInv, LayOutColumn
  PROVE  StatsInv'
<1> USE GridAssumption
<1>1. UNCHANGED <<fileVars, phase, rg, draft, col_desc, readVars>>
  BY DEF LayOutColumn
<1>2. /\ phase = "lay_out" /\ col < C /\ col' = col + 1 /\ StatsTypeOK
      /\ col_off' = Append(col_off, Len(payload))
      /\ payload' = payload \o col_desc[col + 1]
      /\ col \in Columns
  BY DEF LayOutColumn, StatsInv, StatsTypeOK, Columns
<1>3. Len(col_desc) = C /\ Len(col_off) = col /\ HaveStats
  BY <1>2 DEF StatsInv, DescInv, LayoutInv
<1> DEFINE d == col_desc[col + 1]
<1>4. IsSeq(payload) /\ \A k \in Columns : IsSeq(col_desc[k + 1])
  <2>1. DOMAIN col_desc = 1 .. C BY <1>2, <1>3, SeqOfItself DEF StatsTypeOK
  <2> QED BY <1>2, <2>1 DEF StatsTypeOK, Columns
<1>5. /\ IsSeq(payload') /\ Len(payload') = Len(payload) + Len(d)
      /\ \A i \in 1 .. Len(payload) : payload'[i] = payload[i]
      /\ \A i \in 1 .. Len(d) : payload'[Len(payload) + i] = d[i]
  BY <1>2, <1>4, ConcatSeq
<1>6. /\ col_off' \in Seq(Nat) /\ Len(col_off') = col + 1
      /\ col_off'[col + 1] = Len(payload)
      /\ \A k \in Columns : k < col => col_off'[k + 1] = col_off[k + 1]
      /\ \A k \in Columns : k < col =>
           col_off'[k + 2] = col_off[k + 1] + Len(col_desc[k + 1])
  BY <1>2, OffsetAppended
<1>7. \A k \in Columns : Len(col_desc[k + 1]) \in Nat BY <1>4 DEF IsSeq
<1>8. Len(payload) \in Nat BY <1>4 DEF IsSeq
<1>9. StatsTypeOK'
  <2>1. col' \in 0 .. C BY <1>2 DEF Columns
  <2> QED BY <1>1, <1>2, <1>5, <1>6, <2>1 DEF StatsTypeOK, readVars, fileVars
<1>10. DraftInv' BY <1>1, <1>2 DEF DraftInv
<1>11. DescInv' BY <1>1, <1>2, DescFrame
<1>12. LayoutInv'
  <2>1. HaveStats' BY <1>1, <1>3 DEF HaveStats
  <2>2. ASSUME NEW k \in Columns, k < col + 1
        PROVE  /\ col_off'[k + 1] + Len(col_desc[k + 1]) =
                    IF k + 1 < col + 1 THEN col_off'[k + 2] ELSE Len(payload')
               /\ col_off'[k + 1] + Len(col_desc[k + 1]) <= Len(payload')
               /\ \A i \in 1 .. Len(col_desc[k + 1]) :
                    payload'[col_off'[k + 1] + i] = col_desc[k + 1][i]
    <3>1. CASE k < col
      <4>1. /\ col_off[k + 1] + Len(col_desc[k + 1]) <= Len(payload)
            /\ \A i \in 1 .. Len(col_desc[k + 1]) :
                 payload[col_off[k + 1] + i] = col_desc[k + 1][i]
        BY <3>1, <1>3 DEF StatsInv, LayoutInv
      <4>2. col_off[k + 1] \in Nat
        <5>1. k + 1 \in 1 .. Len(col_off) BY <3>1, <1>2, <1>3 DEF Columns
        <5> QED BY <5>1, <1>2, ElementOfSeq DEF StatsTypeOK
      <4>3. \A i \in 1 .. Len(col_desc[k + 1]) : col_off[k + 1] + i \in 1 .. Len(payload)
        BY <4>1, <4>2, <1>7, <1>8
      <4>4. \A i \in 1 .. Len(col_desc[k + 1]) :
              payload'[col_off[k + 1] + i] = col_desc[k + 1][i]
        BY <4>1, <4>3, <1>5
      <4>5. Len(payload) <= Len(payload') BY <1>2, <1>5, <1>7, <1>8
      <4>6. col_off[k + 1] + Len(col_desc[k + 1]) <= Len(payload')
        BY <4>1, <4>2, <4>5, <1>7, <1>8, <1>5, <1>2
      <4>7. col_off'[k + 1] = col_off[k + 1] BY <3>1, <1>6
      <4>8. k + 1 < col + 1 /\ col_off'[k + 2] = col_off[k + 1] + Len(col_desc[k + 1])
        BY <3>1, <1>2, <1>6 DEF Columns
      <4> HIDE DEF d
      <4> QED BY <4>4, <4>6, <4>7, <4>8
    <3>2. CASE k = col
      BY <3>2, <1>2, <1>5, <1>6, <1>7, <1>8 DEF Columns
    <3>3. k < col \/ k = col BY <2>2, <1>2 DEF Columns
    <3> QED BY <3>1, <3>2, <3>3
  <2> QED BY <1>1, <1>2, <1>6, <2>1, <2>2 DEF LayoutInv
<1>13. BufferInv' BY <1>1, <1>2 DEF BufferInv
<1>14. OutInv' BY <1>1, OutFrame DEF readVars
<1> QED BY <1>9, <1>10, <1>11, <1>12, <1>13, <1>14 DEF StatsInv

LEMMA EndLayOutStep ==
  ASSUME StatsInv, EndLayOut
  PROVE  StatsInv'
<1> USE GridAssumption
<1>1. UNCHANGED <<fileVars, col, rg, draft, col_desc, payload, readVars>>
  BY DEF EndLayOut
<1>2. /\ phase = "lay_out" /\ col = C /\ phase' = "idle" /\ StatsTypeOK
      /\ col_off' = Append(col_off, Len(payload))
  BY DEF EndLayOut, StatsInv
<1>3. Len(col_desc) = C /\ Len(col_off) = C /\ HaveStats
  BY <1>2 DEF StatsInv, DescInv, LayoutInv
<1>4. /\ col_off' \in Seq(Nat) /\ Len(col_off') = C + 1
      /\ \A k \in Columns : col_off'[k + 1] = col_off[k + 1]
      /\ \A k \in Columns : col_off'[k + 2] = col_off[k + 1] + Len(col_desc[k + 1])
  BY <1>2, OffsetAppended DEF Columns
<1>5. StatsTypeOK' BY <1>1, <1>2, <1>4 DEF StatsTypeOK, readVars, fileVars
<1>6. DraftInv' BY <1>2 DEF DraftInv
<1>7. DescInv' BY <1>1, <1>2, DescFrame
<1>8. LayoutInv'
  <2>1. \A k \in Columns : k < Len(col_off) /\ k + 1 < Len(col_off') BY <1>3, <1>4 DEF Columns
  <2>2. \A k \in Columns :
          /\ col_off[k + 1] + Len(col_desc[k + 1]) <= Len(payload)
          /\ \A i \in 1 .. Len(col_desc[k + 1]) :
               payload[col_off[k + 1] + i] = col_desc[k + 1][i]
    BY <2>1 DEF StatsInv, LayoutInv
  <2> QED BY <1>1, <1>2, <1>4, <2>1, <2>2 DEF LayoutInv
<1>9. BufferInv' BY <1>2 DEF BufferInv
<1>10. OutInv' BY <1>1, OutFrame DEF readVars
<1> QED BY <1>5, <1>6, <1>7, <1>8, <1>9, <1>10 DEF StatsInv

-----------------------------------------------------------------------------
(* The reader's steps.                                                      *)

\* What a reader's step leaves of the invariant when the converter is done.
LEMMA ReaderFrame ==
  ASSUME StatsInv, UNCHANGED <<fileVars, writeVars>>,
         phase \in {"idle", "column", "fields", "emit"},
         phase' \in {"idle", "column", "fields", "emit"}
  PROVE  DraftInv' /\ DescInv' /\ LayoutInv'
<1>1. DraftInv' BY DEF DraftInv
<1>2. DescInv' BY DescFrame DEF writeVars
<1>3. LayoutInv' BY LayoutFrame DEF writeVars
<1> QED BY <1>1, <1>2, <1>3

LEMMA AskStep ==
  ASSUME StatsInv, NEW w \in Projections, Ask(w)
  PROVE  StatsInv'
<1> USE GridAssumption
<1>1. /\ UNCHANGED <<fileVars, writeVars, pos, buf, has_mm>>
      /\ phase = "idle" /\ phase' = "column" /\ want' = w /\ at' = 0 /\ out' = << >>
  BY DEF Ask
<1>2. IsSeq(<< >>) /\ Len(<< >>) = 0 BY EmptySeq, ItselfOfSeq
<1>3. StatsTypeOK'
  BY <1>1, <1>2, ProjectionsAssumption DEF StatsInv, StatsTypeOK, writeVars, fileVars
<1>4. DraftInv' /\ DescInv' /\ LayoutInv' BY <1>1, ReaderFrame
<1>5. BufferInv' BY <1>1 DEF BufferInv
<1>6. OutInv' BY <1>1, <1>2 DEF OutInv
<1> QED BY <1>3, <1>4, <1>5, <1>6 DEF StatsInv

LEMMA SkipColumnStep ==
  ASSUME StatsInv, SkipColumn
  PROVE  StatsInv'
<1> USE GridAssumption
<1>1. /\ UNCHANGED <<fileVars, writeVars, want, pos, buf, has_mm, out>>
      /\ phase = "column" /\ phase' = "column" /\ at < C /\ at' = at + 1
  BY DEF SkipColumn
<1>2. StatsTypeOK' BY <1>1 DEF StatsInv, StatsTypeOK, writeVars, fileVars
<1>3. DraftInv' /\ DescInv' /\ LayoutInv' BY <1>1, ReaderFrame
<1>4. BufferInv' BY <1>1 DEF BufferInv
<1>5. OutInv' BY <1>1, OutFrame
<1> QED BY <1>2, <1>3, <1>4, <1>5 DEF StatsInv

LEMMA EndResolveStep ==
  ASSUME StatsInv, EndResolve
  PROVE  StatsInv'
<1>1. UNCHANGED <<fileVars, writeVars, readVars>> /\ phase = "column" /\ phase' = "idle"
  BY DEF EndResolve
<1>2. StatsTypeOK' BY <1>1 DEF StatsInv, StatsTypeOK, writeVars, fileVars, readVars
<1>3. DraftInv' /\ DescInv' /\ LayoutInv' BY <1>1, ReaderFrame
<1>4. BufferInv' BY <1>1 DEF BufferInv
<1>5. OutInv' BY <1>1, OutFrame DEF readVars
<1> QED BY <1>2, <1>3, <1>4, <1>5 DEF StatsInv

\* The extent of the descriptor of column k.
LEMMA Extent ==
  ASSUME StatsInv, phase \in {"idle", "column", "fields", "emit"}, HaveStats,
         NEW k \in Columns
  PROVE  /\ col_off[k + 1] \in Nat /\ col_off[k + 2] \in Nat
         /\ IsSeq(col_desc[k + 1]) /\ Len(col_desc[k + 1]) \in Nat
         /\ col_off[k + 2] = col_off[k + 1] + Len(col_desc[k + 1])
         /\ \A i \in 1 .. Len(col_desc[k + 1]) :
              payload[col_off[k + 1] + i] = col_desc[k + 1][i]
         /\ Describes(col_desc[k + 1], k)
<1> USE GridAssumption
<1>1. Len(col_off) = C + 1 /\ Len(col_desc) = C BY DEF StatsInv, LayoutInv, DescInv
<1>2. k + 1 \in 1 .. Len(col_off) /\ k + 2 \in 1 .. Len(col_off) BY <1>1 DEF Columns
<1>3. col_off[k + 1] \in Nat /\ col_off[k + 2] \in Nat
  BY <1>2, ElementOfSeq DEF StatsInv, StatsTypeOK
<1>4. IsSeq(col_desc[k + 1])
  <2>1. IsSeq(col_desc) BY DEF StatsInv, StatsTypeOK
  <2>2. DOMAIN col_desc = 1 .. C BY <1>1, <2>1, SeqOfItself
  <2> QED BY <2>2 DEF StatsInv, StatsTypeOK, Columns
<1>5. k < Len(col_off) /\ k + 1 < Len(col_off) /\ k < Len(col_desc) BY <1>1 DEF Columns
<1>6. /\ col_off[k + 1] + Len(col_desc[k + 1]) = col_off[k + 2]
      /\ \A i \in 1 .. Len(col_desc[k + 1]) :
           payload[col_off[k + 1] + i] = col_desc[k + 1][i]
  BY <1>5 DEF StatsInv, LayoutInv
<1>7. Describes(col_desc[k + 1], k) BY <1>5 DEF StatsInv, DescInv
<1> QED BY <1>3, <1>4, <1>6, <1>7 DEF IsSeq

LEMMA StartColumnStep ==
  ASSUME StatsInv, StartColumn
  PROVE  StatsInv'
<1> USE GridAssumption, FieldIdsAre
<1>1. /\ UNCHANGED <<fileVars, writeVars, want, at, out>>
      /\ phase = "column" /\ phase' \in {"fields", "emit"} /\ at < C /\ at \in want
  BY DEF StartColumn
<1>2. at \in Columns /\ StatsTypeOK BY <1>1 DEF StatsInv, StatsTypeOK, Columns
<1>3. HaveStats' <=> HaveStats BY <1>1 DEF HaveStats, writeVars
<1>4. DraftInv' /\ DescInv' /\ LayoutInv' BY <1>1, ReaderFrame
<1>5. OutInv' BY <1>1, OutFrame
<1>6. CASE HaveStats
  <2>1. /\ buf' = [id \in Decoded |-> [has |-> {}, val |-> buf[id].val]]
        /\ has_mm' = {} /\ pos' = col_off[at + 1]
        /\ phase' = IF col_off[at + 2] - col_off[at + 1] > 0 THEN "fields" ELSE "emit"
    BY <1>6 DEF StartColumn
  <2>2. PICK k \in Columns : at = k BY <1>2
  <2>3. /\ col_off[k + 1] \in Nat /\ Len(col_desc[k + 1]) \in Nat
        /\ col_off[k + 2] = col_off[k + 1] + Len(col_desc[k + 1])
        /\ Describes(col_desc[k + 1], k)
    BY <1>1, <1>6, Extent
  <2>4. DOMAIN buf' = Decoded /\ \A id \in Decoded : buf'[id].has = {} BY <2>1
  <2>5. StatsTypeOK'
    BY <1>1, <1>2, <2>1, <2>2, <2>3, <2>4 DEF StatsTypeOK, writeVars, fileVars
  <2>6. CASE Len(col_desc[k + 1]) > 0
    <3>1. phase' = "fields" BY <2>1, <2>2, <2>3, <2>6
    <3>2. \A id \in Decoded : Guarded(id, k)' BY <2>4 DEF Guarded
    <3>3. \A id \in Decoded : ~ \E i \in 1 .. 0 : col_desc[k + 1][i].id = id OBVIOUS
    <3>4. 0 \in 0 .. Len(col_desc[k + 1]) - 1 /\ pos' = col_off[k + 1] + 0
      BY <2>1, <2>2, <2>3, <2>6
    <3>5. \A j \in Columns : at' = j => j = k BY <1>1, <2>2
    <3>6. UNCHANGED <<col_desc, col_off, at>> BY <1>1 DEF writeVars
    <3>7. BufferInv'
      BY <1>1, <1>3, <1>6, <3>1, <3>2, <3>3, <3>4, <3>5, <3>6 DEF BufferInv
    <3> QED BY <2>5, <1>4, <1>5, <3>7 DEF StatsInv
  <2>7. CASE Len(col_desc[k + 1]) = 0
    <3>1. phase' = "emit" BY <2>1, <2>2, <2>3, <2>7
    <3>2. \A id \in Decoded : Entered(k, G, id) = {}
      BY <2>3, <2>7 DEF Describes
    <3>3. \A j, n, id : Entered(j, n, id)' = Entered(j, n, id) BY <1>1, FileFrame
    <3>4. \A id \in Decoded : Guarded(id, k)' BY <2>4 DEF Guarded
    <3>5. \A j \in Columns : at' = j => j = k BY <1>1, <2>2
    <3>6. BufferInv'
      BY <1>1, <2>1, <2>4, <3>1, <3>2, <3>3, <3>4, <3>5 DEF BufferInv
    <3> QED BY <2>5, <1>4, <1>5, <3>6 DEF StatsInv
  <2> QED BY <2>3, <2>6, <2>7
<1>7. CASE ~HaveStats
  <2>1. phase' = "emit" /\ UNCHANGED <<buf, has_mm, pos>> BY <1>7 DEF StartColumn
  <2>2. StatsTypeOK' BY <1>1, <1>2, <2>1 DEF StatsTypeOK, writeVars, fileVars
  <2>3. BufferInv' BY <1>1, <1>3, <1>7, <2>1 DEF BufferInv
  <2> QED BY <1>4, <1>5, <2>2, <2>3 DEF StatsInv
<1> QED BY <1>6, <1>7

LEMMA ReadFieldStep ==
  ASSUME StatsInv, ReadField
  PROVE  StatsInv'
<1> USE GridAssumption, FieldIdsAre
<1>1. /\ UNCHANGED <<phase, fileVars, writeVars, want, at, has_mm, out>>
      /\ phase = "fields" /\ Field.id # 0 /\ pos' = pos + 1
      /\ buf' = IF Field.id \in Decoded
                THEN [buf EXCEPT ![Field.id] = Fill(@, Field.array)]
                ELSE buf
  BY DEF ReadField
<1>2. HaveStats /\ at < C /\ at \in Columns /\ StatsTypeOK
  BY <1>1 DEF StatsInv, BufferInv, StatsTypeOK, Columns
<1>3. PICK k \in Columns : at = k BY <1>2
<1> DEFINE d == col_desc[k + 1]
<1>4. PICK n \in 0 .. Len(d) - 1 :
        /\ pos = col_off[k + 1] + n
        /\ \A id \in Decoded :
             /\ Guarded(id, k)
             /\ (\E i \in 1 .. n : d[i].id = id) => Entered(k, G, id) \subseteq buf[id].has
  BY <1>1, <1>3 DEF StatsInv, BufferInv
<1>5. /\ col_off[k + 1] \in Nat /\ Len(d) \in Nat /\ Describes(d, k)
      /\ \A i \in 1 .. Len(d) : payload[col_off[k + 1] + i] = d[i]
  BY <1>1, <1>2, Extent
<1>6. Field = d[n + 1]
  <2>1. n + 1 \in 1 .. Len(d) /\ pos + 1 = col_off[k + 1] + (n + 1) BY <1>4, <1>5
  <2> QED BY <2>1, <1>5 DEF Field
<1>7. n + 1 \in 1 .. Len(d) - 1
  <2>1. n + 1 # Len(d) BY <1>1, <1>5, <1>6 DEF Describes
  <2> QED BY <2>1, <1>4, <1>5
<1>8. d[n + 1].id \in FieldIds /\ IsArray(d[n + 1].array, k, G, d[n + 1].id)
  BY <1>5, <1>7 DEF Describes
<1> HIDE DEF d
<1>9. \A id \in Decoded : Entered(k, G, id) \subseteq RowGroups
  BY DEF Entered, RowGroups
<1>10. \A id \in Decoded :
         buf'[id] = IF id = d[n + 1].id THEN Fill(buf[id], d[n + 1].array) ELSE buf[id]
  BY <1>1, <1>2, <1>6 DEF StatsTypeOK
<1>11. ASSUME NEW id \in Decoded
       PROVE  /\ buf'[id].has \subseteq Entered(k, G, id)
              /\ \A r \in buf'[id].has : buf'[id].val[r] = Entry(Stat(k, r), id)
              /\ (\E i \in 1 .. n + 1 : d[i].id = id)
                   => Entered(k, G, id) \subseteq buf'[id].has
  <2>1. Guarded(id, k) BY <1>4
  <2>2. CASE id = d[n + 1].id
    <3> DEFINE array == d[n + 1].array
    <3>1. DOMAIN array = Entered(k, G, id) /\ \A r \in DOMAIN array : array[r] = Entry(Stat(k, r), id)
      BY <2>2, <1>8 DEF IsArray
    <3>2. DOMAIN array \cap RowGroups = Entered(k, G, id) BY <3>1, <1>9
    <3>3. /\ buf'[id].has = buf[id].has \cup Entered(k, G, id)
          /\ \A r \in RowGroups :
               buf'[id].val[r] = IF r \in Entered(k, G, id) THEN array[r] ELSE buf[id].val[r]
      BY <2>2, <3>2, <1>10 DEF Fill
    <3> HIDE DEF array
    <3> QED BY <2>1, <3>1, <3>3, <1>9 DEF Guarded
  <2>3. CASE id # d[n + 1].id
    <3>1. buf'[id] = buf[id] BY <2>3, <1>10
    <3>2. (\E i \in 1 .. n + 1 : d[i].id = id) => \E i \in 1 .. n : d[i].id = id
      BY <2>3, <1>4
    <3>3. (\E i \in 1 .. n : d[i].id = id) => Entered(k, G, id) \subseteq buf[id].has
      BY <1>4 DEF d
    <3> QED BY <2>1, <3>1, <3>2, <3>3 DEF Guarded
  <2> QED BY <2>2, <2>3
<1>12. StatsTypeOK'
  <2>1. DOMAIN buf' = Decoded BY <1>1, <1>2 DEF StatsTypeOK
  <2>2. \A id \in Decoded : buf'[id].has \subseteq RowGroups BY <1>9, <1>11
  <2>3. pos' \in Nat BY <1>1, <1>2 DEF StatsTypeOK
  <2> QED BY <1>1, <1>2, <2>1, <2>2, <2>3 DEF StatsTypeOK, writeVars, fileVars
<1>13. DraftInv' /\ DescInv' /\ LayoutInv' BY <1>1, ReaderFrame
<1>14. BufferInv'
  <2>1. \A r, id : Entry(Stat(k, r), id)' = Entry(Stat(k, r), id) BY <1>1, FileFrame
  <2>2. \A id : Entered(k, G, id)' = Entered(k, G, id) BY <1>1, FileFrame
  <2>3. \A id \in Decoded : Guarded(id, k)' BY <2>1, <2>2, <1>11 DEF Guarded
  <2>4. HaveStats' BY <1>1, <1>2 DEF HaveStats, writeVars
  <2>5. UNCHANGED <<col_desc, col_off, at, phase>> BY <1>1 DEF writeVars
  <2>6. n + 1 \in 0 .. Len(d) - 1 BY <1>4, <1>7
  <2>7. pos' = col_off[k + 1] + (n + 1) BY <1>1, <1>4, <1>5
  <2>8. \A j \in Columns : at' = j => j = k BY <1>3, <2>5
  <2> QED
    BY <1>1, <1>2, <1>11, <2>2, <2>3, <2>4, <2>5, <2>6, <2>7, <2>8 DEF BufferInv, d
<1>15. OutInv' BY <1>1, OutFrame
<1> QED BY <1>12, <1>13, <1>14, <1>15 DEF StatsInv

LEMMA EndFieldsStep ==
  ASSUME StatsInv, EndFields
  PROVE  StatsInv'
<1> USE GridAssumption, FieldIdsAre
<1>1. /\ UNCHANGED <<fileVars, writeVars, want, at, pos, buf, out>>
      /\ phase = "fields" /\ phase' = "emit" /\ Field.id = 0
      /\ has_mm' = buf[Prefixes].has \cap buf[MinSuffixes].has \cap buf[MaxSuffixes].has
  BY DEF EndFields
<1>2. HaveStats /\ at < C /\ at \in Columns /\ StatsTypeOK
  BY <1>1, SMTT(30) DEF StatsInv, BufferInv, StatsTypeOK, Columns
<1>3. PICK k \in Columns : at = k BY <1>2
<1> DEFINE d == col_desc[k + 1]
<1>4. PICK n \in 0 .. Len(d) - 1 :
        /\ pos = col_off[k + 1] + n
        /\ \A id \in Decoded :
             /\ Guarded(id, k)
             /\ (\E i \in 1 .. n : d[i].id = id) => Entered(k, G, id) \subseteq buf[id].has
  BY <1>1, <1>3 DEF StatsInv, BufferInv
<1>5. /\ col_off[k + 1] \in Nat /\ Len(d) \in Nat /\ Describes(d, k)
      /\ \A i \in 1 .. Len(d) : payload[col_off[k + 1] + i] = d[i]
  BY <1>1, <1>2, Extent
<1>6. Field = d[n + 1]
  <2>1. n + 1 \in 1 .. Len(d) /\ pos + 1 = col_off[k + 1] + (n + 1) BY <1>4, <1>5
  <2> QED BY <2>1, <1>5 DEF Field
<1>7. n = Len(d) - 1
  <2>1. ASSUME n + 1 \in 1 .. Len(d) - 1 PROVE FALSE
    <3>1. d[n + 1].id \in FieldIds BY <2>1, <1>5 DEF Describes
    <3> QED BY <3>1, <1>1, <1>6
  <2>2. n \in Nat /\ n <= Len(d) - 1 BY <1>4, <1>5
  <2> QED BY <2>1, <2>2, <1>5
<1>8. \A id \in Decoded : Guarded(id, k) /\ Entered(k, G, id) \subseteq buf[id].has
  BY <1>4, <1>5, <1>7 DEF Describes
<1>9. has_mm' = Entered(k, G, Prefixes)
  <2>1. Entered(k, G, MinSuffixes) = Entered(k, G, Prefixes)
        /\ Entered(k, G, MaxSuffixes) = Entered(k, G, Prefixes)
    BY DEF Entered, Adds
  <2>2. \A id \in Decoded : buf[id].has = Entered(k, G, id) BY <1>8 DEF Guarded
  <2> QED BY <1>1, <2>1, <2>2
<1>10. StatsTypeOK'
  <2>1. has_mm' \subseteq RowGroups BY <1>1, <1>2 DEF StatsTypeOK
  <2> QED BY <1>1, <1>2, <2>1 DEF StatsTypeOK, writeVars, fileVars
<1>11. DraftInv' /\ DescInv' /\ LayoutInv' BY <1>1, ReaderFrame
<1>12. BufferInv'
  <2>1. \A r, id : Entry(Stat(k, r), id)' = Entry(Stat(k, r), id) BY <1>1, FileFrame
  <2>2. \A id : Entered(k, G, id)' = Entered(k, G, id) BY <1>1, FileFrame
  <2>3. \A id \in Decoded : Guarded(id, k)' BY <1>1, <1>8, <2>1, <2>2 DEF Guarded
  <2>4. \A j \in Columns : at' = j => j = k BY <1>1, <1>3
  <2> QED BY <1>1, <1>2, <1>8, <1>9, <2>2, <2>3, <2>4 DEF BufferInv
<1>13. OutInv' BY <1>1, OutFrame
<1> QED BY <1>10, <1>11, <1>12, <1>13 DEF StatsInv

\* What is emitted of a column whose buffers are complete.
LEMMA LocRight ==
  ASSUME StatsInv, phase = "emit", NEW r \in RowGroups
  PROVE  RightLoc(Loc(r))
<1> USE GridAssumption, FieldIdsAre
<1>1. at < C /\ at \in Columns
  <2>1. at < C /\ at \in 0 .. C BY DEF StatsInv, BufferInv, StatsTypeOK
  <2> QED BY <2>1 DEF Columns
<1>2. PICK k \in Columns : at = k BY <1>1
<1> DEFINE st == Stat(k, r)
<1>3. \A id \in Decoded : r \in Entered(k, G, id) <=> Adds(st, id)
  BY DEF Entered, RowGroups
<1>4. CASE HaveStats
  <2>1. /\ \A id \in Decoded : buf[id].has = Entered(k, G, id)
        /\ \A id \in Decoded : r \in buf[id].has => buf[id].val[r] = Entry(st, id)
        /\ has_mm = Entered(k, G, Prefixes)
    <3>1. /\ \A id \in Decoded : Guarded(id, k) /\ Entered(k, G, id) \subseteq buf[id].has
          /\ has_mm = Entered(k, G, Prefixes)
      BY <1>2, <1>4 DEF StatsInv, BufferInv
    <3>2. \A id \in Decoded : buf[id].has = Entered(k, G, id) BY <3>1 DEF Guarded
    <3>3. \A id \in Decoded : r \in buf[id].has => buf[id].val[r] = Entry(st, id)
      BY <3>1 DEF Guarded
    <3> QED BY <3>1, <3>2, <3>3
  <2>2. r \in buf[NullCounts].has <=> HasNull(st) BY <1>3, <2>1 DEF Adds
  <2>3. r \in has_mm <=> HasMinMax(st) BY <1>3, <2>1 DEF Adds
  <2>4. HasNull(st) => buf[NullCounts].val[r] = st.null_count
    BY <2>1, <2>2 DEF Entry
  <2>5. HasMinMax(st) => \A id \in {Prefixes, MinSuffixes, MaxSuffixes} : buf[id].val[r] = Entry(st, id)
    BY <1>3, <2>1 DEF Adds
  <2> HIDE DEF st
  <2>6. /\ Loc(r).col = k /\ Loc(r).rg = r
        /\ Loc(r).has_null <=> HasNull(st)
        /\ Loc(r).null_count = buf[NullCounts].val[r]
        /\ Loc(r).has_mm <=> HasMinMax(st)
        /\ HasMinMax(st) => Loc(r).bounds = [prefix |-> buf[Prefixes].val[r],
                                             min |-> buf[MinSuffixes].val[r],
                                             max |-> buf[MaxSuffixes].val[r]]
    BY <1>2, <1>4, <2>2, <2>3 DEF Loc
  <2>7. HasMinMax(st) => Loc(r).bounds = [prefix |-> Entry(st, Prefixes),
                                          min |-> Entry(st, MinSuffixes),
                                          max |-> Entry(st, MaxSuffixes)]
    BY <2>5, <2>6
  <2> QED BY <2>4, <2>6, <2>7 DEF RightLoc, st
<1>5. CASE ~HaveStats
  <2>1. col_desc[k + 1] = << >>
    <3>1. IsSeq(col_desc) /\ Len(col_desc) = C BY DEF StatsInv, StatsTypeOK, DescInv
    <3>2. k + 1 \in DOMAIN col_desc BY <3>1, GridAssumption, SeqOfItself DEF Columns
    <3> QED BY <3>2, <1>5 DEF HaveStats
  <2>2. Describes(<< >>, k)
    <3>1. k < Len(col_desc) BY GridAssumption DEF StatsInv, DescInv, Columns
    <3> QED BY <2>1, <3>1 DEF StatsInv, DescInv
  <2>3. \A id \in Decoded : Entered(k, G, id) = {}
    <3>1. Len(<< >>) = 0 BY EmptySeq
    <3> QED BY <2>2, <3>1 DEF Describes
  <2>4. ~HasNull(st) /\ ~HasMinMax(st)
    BY <1>3, <2>3 DEF Adds
  <2> HIDE DEF st
  <2>5. /\ Loc(r).col = k /\ Loc(r).rg = r /\ ~Loc(r).has_null /\ ~Loc(r).has_mm
    BY <1>2, <1>5 DEF Loc
  <2> QED BY <2>4, <2>5 DEF RightLoc, st
<1> QED BY <1>4, <1>5

LEMMA EmitColumnStep ==
  ASSUME StatsInv, EmitColumn
  PROVE  StatsInv'
<1> USE GridAssumption
<1> DEFINE new == [k \in 1 .. G |-> Loc(k - 1)]
<1>1. /\ UNCHANGED <<fileVars, writeVars, want, pos, buf, has_mm>>
      /\ phase = "emit" /\ phase' = "column" /\ at' = at + 1 /\ out' = out \o new
  BY DEF EmitColumn
<1>2. at < C /\ at \in Columns /\ StatsTypeOK
  BY <1>1 DEF StatsInv, BufferInv, StatsTypeOK, Columns
<1>3. \A k \in 1 .. G : /\ k - 1 \in RowGroups /\ new[k] = Loc(k - 1)
                       /\ new[k].col \in Columns /\ new[k].rg \in RowGroups
  BY <1>2 DEF Loc, RowGroups
<1>4. IsSeq(new) /\ Len(new) = G
  <2>1. new = [k \in 1 .. G |-> new[k]] BY <1>3
  <2> HIDE DEF new
  <2> QED BY <2>1, TabulatedSeq
<1> HIDE DEF new
<1>5. /\ IsSeq(out') /\ Len(out') = Len(out) + G
      /\ \A i \in 1 .. Len(out) : out'[i] = out[i]
      /\ \A i \in 1 .. G : out'[Len(out) + i] = new[i]
  <2>1. IsSeq(out) /\ IsSeq(new) BY <1>2, <1>4 DEF StatsTypeOK
  <2>2. /\ IsSeq(out \o new) /\ Len(out \o new) = Len(out) + Len(new)
        /\ \A i \in 1 .. Len(out) : (out \o new)[i] = out[i]
        /\ \A i \in 1 .. Len(new) : (out \o new)[Len(out) + i] = new[i]
    BY <2>1, ConcatSeq
  <2> QED BY <2>2, <1>1, <1>4
<1>6. Len(out) \in Nat /\ DOMAIN out = 1 .. Len(out) /\ DOMAIN out' = 1 .. Len(out')
  BY <1>2, <1>5, SeqOfItself DEF StatsTypeOK, IsSeq
<1>7. ASSUME NEW n \in 1 .. Len(out')
      PROVE  \/ n \in 1 .. Len(out) /\ out'[n] = out[n]
             \/ \E i \in 1 .. G : out'[n] = new[i]
  <2>1. CASE n <= Len(out) BY <2>1, <1>5, <1>6
  <2>2. CASE n > Len(out)
    <3>1. n - Len(out) \in 1 .. G /\ Len(out) + (n - Len(out)) = n BY <2>2, <1>5, <1>6
    <3> QED BY <3>1, <1>5
  <2> QED BY <2>1, <2>2, <1>6
<1>8. StatsTypeOK'
  <2>1. \A n \in DOMAIN out' : out'[n].col \in Columns /\ out'[n].rg \in RowGroups
    BY <1>2, <1>3, <1>6, <1>7 DEF StatsTypeOK
  <2>2. at' \in 0 .. C BY <1>1, <1>2 DEF Columns
  <2> QED BY <1>1, <1>2, <1>5, <2>1, <2>2 DEF StatsTypeOK, writeVars, fileVars
<1>9. DraftInv' /\ DescInv' /\ LayoutInv' BY <1>1, ReaderFrame
<1>10. BufferInv' BY <1>1 DEF BufferInv
<1>11. OutInv'
  <2>1. \A l : RightLoc(l)' <=> RightLoc(l) BY <1>1, FileFrame
  <2>2. \A i \in 1 .. G : RightLoc(new[i]) BY <1>1, <1>3, LocRight
  <2>3. \A n \in 1 .. Len(out') : RightLoc(out'[n])
    BY <1>7, <2>2 DEF StatsInv, OutInv
  <2> QED BY <2>1, <2>3 DEF OutInv
<1> QED BY <1>8, <1>9, <1>10, <1>11 DEF StatsInv

-----------------------------------------------------------------------------
(* The invariant.                                                           *)

LEMMA NextStep ==
  ASSUME StatsInv, [Next]_vars
  PROVE  StatsInv'
<1>1. CASE UNCHANGED vars
  <2>1. UNCHANGED fileVars /\ UNCHANGED out /\ UNCHANGED phase
        /\ UNCHANGED <<col, rg, draft, col_desc, payload, col_off>>
        /\ UNCHANGED <<want, at, pos, buf, has_mm>>
    BY <1>1 DEF vars, writeVars, readVars
  <2>2. StatsTypeOK' BY <2>1 DEF StatsInv, StatsTypeOK, fileVars
  <2>3. DraftInv' BY <2>1, FileFrame DEF StatsInv, DraftInv
  <2>4. DescInv' BY <2>1, FileFrame DEF StatsInv, DescInv
  <2>5. LayoutInv' BY <2>1 DEF StatsInv, LayoutInv, HaveStats
  <2>6. BufferInv'
    <3>1. \A id, k : Guarded(id, k)' <=> Guarded(id, k) BY <2>1, FileFrame DEF Guarded
    <3>2. \A k, id : Entered(k, G, id)' = Entered(k, G, id) BY <2>1, FileFrame
    <3>3. HaveStats' <=> HaveStats BY <2>1 DEF HaveStats
    <3>4. BufferInv BY DEF StatsInv
    <3> QED BY <2>1, <3>1, <3>2, <3>3, <3>4 DEF BufferInv
  <2>7. OutInv' BY <2>1, OutFrame
  <2> QED BY <2>2, <2>3, <2>4, <2>5, <2>6, <2>7 DEF StatsInv
<1>2. CASE Convert
  BY <1>2, AddRowGroupStep, EndColumnStep, EndBuildStep, LayOutColumnStep, EndLayOutStep
  DEF Convert
<1>3. CASE Resolve
  BY <1>3, SkipColumnStep, StartColumnStep, ReadFieldStep, EndFieldsStep,
     EmitColumnStep, EndResolveStep
  DEF Resolve
<1>4. ASSUME NEW w \in Projections, Ask(w) PROVE StatsInv' BY <1>4, AskStep
<1> QED BY <1>1, <1>2, <1>3, <1>4 DEF Next

\* The inductive invariant holds of every reachable state, whatever the grid, the
\* footers, the limits and the projections (BuildColumnStatistics, the layout of
\* the statistics module and DecodeColumnStatistics together).
THEOREM StatsInvariant == Spec => []StatsInv
<1>1. StatsInv /\ [Next]_vars => StatsInv' BY NextStep
<1> QED BY InitStep, <1>1, PTL DEF Spec

\* What the invariant says of the n-th Loc of an answer.
LEMMA AnswerRight ==
  ASSUME StatsInv, NEW n \in DOMAIN out
  PROVE  LET st == Stat(out[n].col, out[n].rg)
         IN /\ st \in Statistics
            /\ out[n].has_null <=> HasNull(st)
            /\ out[n].has_null => out[n].null_count = st.null_count
            /\ out[n].has_mm <=> HasMinMax(st)
            /\ out[n].has_mm => out[n].bounds = [prefix |-> Entry(st, Prefixes),
                                                 min |-> Entry(st, MinSuffixes),
                                                 max |-> Entry(st, MaxSuffixes)]
<1>1. n \in 1 .. Len(out) /\ out[n].col \in Columns /\ out[n].rg \in RowGroups
  BY SeqOfItself DEF StatsInv, StatsTypeOK
<1>2. RightLoc(out[n]) BY <1>1 DEF StatsInv, OutInv
<1>3. Stat(out[n].col, out[n].rg) \in Statistics
  <2>1. file \in [Columns -> [RowGroups -> Statistics]]
    BY DEF StatsInv, StatsTypeOK
  <2> QED BY <1>1, <2>1 DEF Stat
<1> QED BY <1>1, <1>2, <1>3 DEF RightLoc

\* A Loc tells of its own column and row group only (has_null, null_count and
\* has_mm of DecodeColumnStatistics, footer_formats.h:454-471).
THEOREM NothingLeaks == Spec => []NothingStale
<1>1. StatsInv => NothingStale
  <2> SUFFICES ASSUME StatsInv, NEW n \in DOMAIN out
               PROVE  LET st == Stat(out[n].col, out[n].rg)
                      IN /\ out[n].has_null <=> HasNull(st)
                         /\ out[n].has_null => out[n].null_count = st.null_count
                         /\ out[n].has_mm <=> HasMinMax(st)
    BY DEF NothingStale
  <2> QED BY AnswerRight
<1> QED BY StatsInvariant, <1>1, PTL

\* The three stored strings of an entry, put together again.
LEMMA BoundsOf ==
  ASSUME NEW st \in Statistics, HasMinMax(st), limit \in Int
  PROVE  LET p == Entry(st, Prefixes)
             a == Entry(st, MinSuffixes)
             z == Entry(st, MaxSuffixes)
         IN /\ LexLeq(p \o a, MinOf(st)) /\ LexLeq(MaxOf(st), p \o z)
            /\ limit <= 0 => p \o a = MinOf(st) /\ p \o z = MaxOf(st)
<1> USE FieldIdsAre
<1> DEFINE lo == MinOf(st)
           hi == MaxOf(st)
           n == CommonPrefix(lo, hi)
           p == Prefix(lo, n)
           a == TruncateMin(Suffix(lo, n), MinExact(st), limit).suffix
           z == TruncateMax(Suffix(hi, n), MaxExact(st), limit).suffix
<1>1. lo \in Bytes /\ hi \in Bytes
  BY DEF HasMinMax, MinOf, MaxOf, Either, Statistics
<1>2. Entry(st, Prefixes) = p /\ Entry(st, MinSuffixes) = a /\ Entry(st, MaxSuffixes) = z
  BY DEF Entry, StoredMin, StoredMax, Shared
<1>3. MinExact(st) \in BOOLEAN /\ MaxExact(st) \in BOOLEAN BY DEF MinExact, MaxExact
<1> HIDE DEF lo, hi
<1>4. n \in 0 .. Len(lo) /\ n \in 0 .. Len(hi) /\ p \o Suffix(lo, n) = lo /\ p \o Suffix(hi, n) = hi
  BY <1>1, CommonPrefixIs, StripCommonPrefix
<1> HIDE DEF n
<1>5. p \in Bytes /\ Suffix(lo, n) \in Bytes /\ Suffix(hi, n) \in Bytes BY <1>1, <1>4, Split
<1>6. a \in Bytes /\ LexLeq(a, Suffix(lo, n)) /\ (limit <= 0 => a = Suffix(lo, n))
  BY <1>3, <1>5, MinCut
<1>7. z \in Bytes /\ LexLeq(Suffix(hi, n), z) /\ (limit <= 0 => z = Suffix(hi, n))
  BY <1>3, <1>5, MaxCut
<1> HIDE DEF p, a, z
<1>8. LexLeq(p \o a, p \o Suffix(lo, n)) BY <1>5, <1>6, LexPrefix
<1>9. LexLeq(p \o Suffix(hi, n), p \o z) BY <1>5, <1>7, LexPrefix
<1> QED BY <1>2, <1>4, <1>6, <1>7, <1>8, <1>9 DEF lo, hi

\* A reported minimum is at most, a reported maximum at least, the source's
\* (CommonPrefix, RoundUp and TruncateSuffix, parquet_to_modular.cc:475-511).
THEOREM BoundsStayBounds == Spec => []BoundsHold
<1>1. StatsInv => BoundsHold
  <2> SUFFICES ASSUME StatsInv, NEW n \in DOMAIN out, out[n].has_mm
               PROVE  LET st == Stat(out[n].col, out[n].rg)
                      IN /\ LexLeq(Min(out[n]), MinOf(st))
                         /\ LexLeq(MaxOf(st), Max(out[n]))
    BY DEF BoundsHold
  <2> DEFINE st == Stat(out[n].col, out[n].rg)
  <2>1. /\ st \in Statistics /\ HasMinMax(st)
        /\ out[n].bounds = [prefix |-> Entry(st, Prefixes),
                            min |-> Entry(st, MinSuffixes),
                            max |-> Entry(st, MaxSuffixes)]
    BY AnswerRight
  <2>2. limit \in Int BY LimitsAssumption DEF StatsInv, StatsTypeOK
  <2> HIDE DEF st
  <2>3. /\ LexLeq(Entry(st, Prefixes) \o Entry(st, MinSuffixes), MinOf(st))
        /\ LexLeq(MaxOf(st), Entry(st, Prefixes) \o Entry(st, MaxSuffixes))
    BY <2>1, <2>2, BoundsOf
  <2> QED BY <2>1, <2>3 DEF Min, Max, st
<1> QED BY StatsInvariant, <1>1, PTL

\* Without a limit the answer is the walk's (the fidelity loop of
\* footer_decode_bench.cc:134-140).
THEOREM UncutIsTheWalk == Spec => []UncutAgrees
<1>1. StatsInv => UncutAgrees
  <2> SUFFICES ASSUME StatsInv, limit <= 0, NEW n \in DOMAIN out
               PROVE  LET st == Stat(out[n].col, out[n].rg)
                      IN /\ out[n].has_null <=> HasNull(st)
                         /\ out[n].has_null => out[n].null_count = st.null_count
                         /\ out[n].has_mm <=> HasMinMax(st)
                         /\ out[n].has_mm =>
                              Min(out[n]) = MinOf(st) /\ Max(out[n]) = MaxOf(st)
    BY DEF UncutAgrees, AgreesWithWalk
  <2> DEFINE st == Stat(out[n].col, out[n].rg)
  <2>1. /\ st \in Statistics
        /\ out[n].has_null <=> HasNull(st)
        /\ out[n].has_null => out[n].null_count = st.null_count
        /\ out[n].has_mm <=> HasMinMax(st)
        /\ out[n].has_mm => out[n].bounds = [prefix |-> Entry(st, Prefixes),
                                             min |-> Entry(st, MinSuffixes),
                                             max |-> Entry(st, MaxSuffixes)]
    BY AnswerRight
  <2>2. limit \in Int BY LimitsAssumption DEF StatsInv, StatsTypeOK
  <2> HIDE DEF st
  <2>3. HasMinMax(st) =>
          /\ Entry(st, Prefixes) \o Entry(st, MinSuffixes) = MinOf(st)
          /\ Entry(st, Prefixes) \o Entry(st, MaxSuffixes) = MaxOf(st)
    BY <2>1, <2>2, BoundsOf
  <2>4. out[n].has_mm => Min(out[n]) = MinOf(st) /\ Max(out[n]) = MaxOf(st)
    <3> SUFFICES ASSUME out[n].has_mm
                 PROVE  Min(out[n]) = MinOf(st) /\ Max(out[n]) = MaxOf(st)
      OBVIOUS
    <3>1. HasMinMax(st) /\ out[n].bounds = [prefix |-> Entry(st, Prefixes),
                                            min |-> Entry(st, MinSuffixes),
                                            max |-> Entry(st, MaxSuffixes)]
      BY <2>1
    <3> QED BY <3>1, <2>3 DEF Min, Max
  <2> QED BY <2>1, <2>4 DEF st
<1> QED BY StatsInvariant, <1>1, PTL

\* Where a stored bound calls itself exact it is the source's, and the source
\* called it exact.
LEMMA ExactOf ==
  ASSUME NEW st \in Statistics, HasMinMax(st), limit \in Int
  PROVE  /\ Entry(st, MinIsExact) =>
              MinExact(st) /\ Entry(st, Prefixes) \o Entry(st, MinSuffixes) = MinOf(st)
         /\ Entry(st, MaxIsExact) =>
              MaxExact(st) /\ Entry(st, Prefixes) \o Entry(st, MaxSuffixes) = MaxOf(st)
<1> USE FieldIdsAre
<1> DEFINE lo == MinOf(st)
           hi == MaxOf(st)
           n == CommonPrefix(lo, hi)
           p == Prefix(lo, n)
           a == TruncateMin(Suffix(lo, n), MinExact(st), limit)
           z == TruncateMax(Suffix(hi, n), MaxExact(st), limit)
<1>1. lo \in Bytes /\ hi \in Bytes
  BY DEF HasMinMax, MinOf, MaxOf, Either, Statistics
<1>2. /\ Entry(st, Prefixes) = p /\ Entry(st, MinSuffixes) = a.suffix
      /\ Entry(st, MaxSuffixes) = z.suffix
      /\ Entry(st, MinIsExact) = a.exact /\ Entry(st, MaxIsExact) = z.exact
  BY DEF Entry, StoredMin, StoredMax, Shared
<1>3. MinExact(st) \in BOOLEAN /\ MaxExact(st) \in BOOLEAN BY DEF MinExact, MaxExact
<1> HIDE DEF lo, hi
<1>4. n \in 0 .. Len(lo) /\ n \in 0 .. Len(hi) /\ p \o Suffix(lo, n) = lo /\ p \o Suffix(hi, n) = hi
  BY <1>1, CommonPrefixIs, StripCommonPrefix
<1> HIDE DEF n
<1>5. Suffix(lo, n) \in Bytes /\ Suffix(hi, n) \in Bytes BY <1>1, <1>4, Split
<1>6. a.exact \in BOOLEAN /\ (a.exact => MinExact(st) /\ a.suffix = Suffix(lo, n))
  BY <1>3, <1>5, MinCut
<1>7. z.exact \in BOOLEAN /\ (z.exact => MaxExact(st) /\ z.suffix = Suffix(hi, n))
  BY <1>3, <1>5, MaxCut
<1> HIDE DEF p, a, z
<1> QED BY <1>2, <1>4, <1>6, <1>7 DEF lo, hi

\* The arrays of a descriptor, looked up by their id.
LEMMA ArrayOf ==
  ASSUME StatsInv, NEW k \in Columns, NEW d, IsSeq(d), Describes(d, k),
         NEW id \in FieldIds, NEW i \in DOMAIN d, d[i].id = id
  PROVE  IsArray(d[CHOOSE j \in DOMAIN d : d[j].id = id].array, k, G, id)
<1> USE FieldIdsAre
<1> DEFINE j == CHOOSE j \in DOMAIN d : d[j].id = id
<1>1. j \in DOMAIN d /\ d[j].id = id OBVIOUS
<1> HIDE DEF j
<1>2. Len(d) \in Nat /\ DOMAIN d = 1 .. Len(d) BY SeqOfItself DEF IsSeq
<1>3. d # << >>
  <2>1. Len(<< >>) = 0 BY EmptySeq
  <2> QED BY <2>1, <1>1, <1>2
<1>4. d[Len(d)].id = 0 BY <1>3 DEF Describes
<1>5. j \in 1 .. Len(d) - 1 BY <1>1, <1>2, <1>4
<1> QED BY <1>1, <1>5, SMTT(30) DEF Describes, j

\* What a descriptor says of a row group it has bounds of.
LEMMA ExactAt ==
  ASSUME StatsInv, NEW k \in Columns, NEW d, IsSeq(d), Describes(d, k), NEW r \in RowGroups,
         Given(d, Prefixes, r)
  PROVE  LET st == Stat(k, r)
             Array(id) == d[CHOOSE j \in DOMAIN d : d[j].id = id].array
         IN /\ Says(d, MinIsExact, r) =>
                 MinExact(st) /\ Array(Prefixes)[r] \o Array(MinSuffixes)[r] = MinOf(st)
            /\ Says(d, MaxIsExact, r) =>
                 MaxExact(st) /\ Array(Prefixes)[r] \o Array(MaxSuffixes)[r] = MaxOf(st)
<1> USE FieldIdsAre
<1> DEFINE st == Stat(k, r)
           Array(id) == d[CHOOSE j \in DOMAIN d : d[j].id = id].array
<1>1. file \in [Columns -> [RowGroups -> Statistics]] /\ limit \in Int
  BY LimitsAssumption DEF StatsInv, StatsTypeOK
<1>2. st \in Statistics BY <1>1 DEF Stat
<1> HIDE DEF Array
<1>3. PICK i \in DOMAIN d : d[i].id = Prefixes /\ r \in DOMAIN d[i].array
  BY DEF Given
<1>4. Len(d) \in Nat /\ DOMAIN d = 1 .. Len(d) BY SeqOfItself DEF IsSeq
<1>5. d # << >>
  <2>1. Len(<< >>) = 0 BY EmptySeq
  <2> QED BY <2>1, <1>3, <1>4
<1>6. d[Len(d)].id = 0 BY <1>5 DEF Describes
<1>7. \A j \in DOMAIN d : d[j].id # 0 => j \in 1 .. Len(d) - 1 BY <1>4, <1>6
<1>8. r \in Entered(k, G, Prefixes)
  BY <1>3, <1>7 DEF Describes, IsArray
<1>9. HasMinMax(st) /\ \A id \in Prefixes .. MaxIsExact : r \in Entered(k, G, id)
  BY <1>8 DEF Entered, Adds
<1>10. \A id \in {Prefixes, MinSuffixes, MaxSuffixes} : Array(id)[r] = Entry(st, id)
  <2> SUFFICES ASSUME NEW id \in {Prefixes, MinSuffixes, MaxSuffixes}
               PROVE  Array(id)[r] = Entry(st, id)
    OBVIOUS
  <2>0. id \in Decoded /\ id \in Prefixes .. MaxIsExact OBVIOUS
  <2>1. PICK j \in 1 .. Len(d) - 1 : d[j].id = id
    <3>1. Entered(k, G, id) # {} BY <1>9, <2>0
    <3> QED BY <2>0, <3>1 DEF Describes
  <2>2. j \in DOMAIN d BY <1>4
  <2>3. IsArray(Array(id), k, G, id) BY <2>1, <2>2, ArrayOf DEF Array
  <2> QED BY <2>3, <1>9 DEF IsArray
<1>11. ASSUME NEW id \in {MinIsExact, MaxIsExact}, Says(d, id, r)
       PROVE  Entry(st, id)
  <2>1. CASE \E j \in 1 .. Len(d) - 1 : d[j].id = id
    <3>1. PICK j \in 1 .. Len(d) - 1 : d[j].id = id BY <2>1
    <3>2. d[j].array[r] BY <1>4, <1>11, <3>1 DEF Says
    <3>3. d[j].array[r] = Entry(st, id) BY <1>9, <3>1, SMTT(30) DEF Describes, IsArray
    <3> QED BY <3>2, <3>3
  <2>2. CASE \A j \in 1 .. Len(d) - 1 : d[j].id # id
    BY <1>9, <2>2 DEF Describes
  <2> QED BY <2>1, <2>2
<1> HIDE DEF st
<1>12. /\ Says(d, MinIsExact, r) =>
            MinExact(st) /\ Array(Prefixes)[r] \o Array(MinSuffixes)[r] = MinOf(st)
       /\ Says(d, MaxIsExact, r) =>
            MaxExact(st) /\ Array(Prefixes)[r] \o Array(MaxSuffixes)[r] = MaxOf(st)
  BY <1>1, <1>2, <1>9, <1>10, <1>11, ExactOf
<1> QED BY <1>12 DEF st, Array

\* A bound that is stored as exact, by its array or for want of one, is the
\* source's (BuildColumnStatistics, parquet_to_modular.cc:513-552).
THEOREM ExactIsEqual == Spec => []ExactMeansEqual
<1>1. ASSUME StatsInv, NEW n \in DOMAIN col_desc
      PROVE  n - 1 \in Columns /\ IsSeq(col_desc[n]) /\ Describes(col_desc[n], n - 1)
  <2>1. IsSeq(col_desc) /\ IsSeq(col_desc[n]) BY <1>1 DEF StatsInv, StatsTypeOK
  <2>2. n \in 1 .. Len(col_desc) BY <1>1, <2>1, SeqOfItself
  <2>3. Len(col_desc) <= C
    BY <1>1, GridAssumption DEF StatsInv, StatsTypeOK, DescInv
  <2>4. n - 1 \in Columns /\ n - 1 < Len(col_desc) /\ (n - 1) + 1 = n
    BY <2>1, <2>2, <2>3, GridAssumption DEF Columns, IsSeq
  <2>5. Describes(col_desc[n], n - 1) BY <1>1, <2>4, SMTT(30) DEF StatsInv, DescInv
  <2> QED BY <2>1, <2>4, <2>5
<1>2. StatsInv => ExactMeansEqual BY <1>1, ExactAt DEF ExactMeansEqual
<1> QED BY StatsInvariant, <1>2, PTL
=============================================================================

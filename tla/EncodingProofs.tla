--------------------------- MODULE EncodingProofs ----------------------------
(***************************************************************************)
(* For any byte, word and accumulator size that fit the window: PackBits   *)
(* keeps every bit of any list of values at its place, the reader's window *)
(* stays in the buffer, and ExtractBits gives back what was packed; and an *)
(* EncodedArray of any domain, positions and values is read back as it was *)
(* written, without a read outside the file.  Then the seven layouts of    *)
(* PlacementLayouts, for every model that BuildModel can return: what each *)
(* one builds resolves to the locators of the model, and a row range to    *)
(* the pages that hold its rows and to no others.                          *)
(***************************************************************************)
EXTENDS BitPack, EncodedArray, PlacementLayouts, NumberFacts, SequenceTheorems, FiniteSetTheorems

-----------------------------------------------------------------------------
(* Positions.                                                               *)

\* Bit b of value j starts before value n's first bit, when j < n.
LEMMA BitsOfEarlierValue ==
  ASSUME NEW w \in Nat, NEW n \in Nat, NEW j \in 0 .. n - 1, NEW b \in 0 .. w - 1
  PROVE  /\ w * j \in Nat /\ w * n \in Nat
         /\ w * j + b \in Nat /\ w * j + b < w * n
<1>1. w \in Nat \ {0} /\ j \in Int /\ n \in Int /\ j < n OBVIOUS
<1>2. w * j + w <= w * n BY <1>1, QuotientGap
<1>3. w * j \in Nat /\ w * n \in Nat BY <1>1
<1> DEFINE x == w * j
           y == w * n
<1> HIDE DEF x, y
<1>4. x \in Nat /\ y \in Nat /\ x + w <= y => x + b \in Nat /\ x + b < y BY <1>1
<1> QED BY <1>2, <1>3, <1>4 DEF x, y

-----------------------------------------------------------------------------
(* Words.                                                                   *)

LEMMA TopOfWord ==
  ASSUME NEW n \in Nat, NEW word, word \subseteq Low(n), word # {}
  PROVE  Top(word) \in word /\ \A x \in word : x <= Top(word)
<1>1. word \subseteq 0 .. n BY DEF Low
<1>2. \E b \in word : \A x \in word : x <= b BY <1>1, GreatestNatural
<1> QED BY <1>2 DEF Top

LEMMA BitWidthCovers ==
  ASSUME NEW word, word \subseteq Low(WordBits)
  PROVE  BitWidth(word) \in 0 .. WordBits /\ word \subseteq Low(BitWidth(word))
<1>1. WordBits \in Nat BY WidthsAssumption
<1>2. CASE word = {} BY <1>1, <1>2 DEF BitWidth, Low
<1>3. CASE word # {}
  <2>1. Top(word) \in word /\ \A x \in word : x <= Top(word) BY <1>1, <1>3, TopOfWord
  <2>2. Top(word) \in 0 .. WordBits - 1 BY <2>1 DEF Low
  <2>3. BitWidth(word) = Top(word) + 1 BY <1>3 DEF BitWidth
  <2>4. BitWidth(word) \in 0 .. WordBits BY <1>1, <2>2, <2>3
  <2>5. \A x \in word : x \in Low(BitWidth(word)) BY <1>1, <2>1, <2>2, <2>3 DEF Low
  <2> QED BY <2>4, <2>5
<1> QED BY <1>2, <1>3

\* The callers' width holds every value of the list.
LEMMA WidthForHolds ==
  ASSUME NEW values \in Seq(Word)
  PROVE  /\ WidthFor(values) \in 0 .. WordBits
         /\ \A k \in 1 .. Len(values) : values[k] \subseteq Low(WidthFor(values))
<1> DEFINE U == UNION {values[k] : k \in 1 .. Len(values)}
<1>1. \A k \in 1 .. Len(values) : values[k] \in SUBSET Low(WordBits) /\ values[k] \subseteq U
  BY ElementOfSeq DEF Word
<1>2. U \subseteq Low(WordBits) BY <1>1
<1> HIDE DEF U
<1>3. BitWidth(U) \in 0 .. WordBits /\ U \subseteq Low(BitWidth(U)) BY <1>2, BitWidthCovers
<1>4. WidthFor(values) = BitWidth(U) BY DEF WidthFor, U
<1> QED BY <1>1, <1>3, <1>4

\* A mask keeps the bits below the width.
LEMMA MaskIsLow ==
  ASSUME NEW n \in 0 .. WordBits
  PROVE  LowMask(n) = Low(n)
BY WidthsAssumption DEF LowMask, Low

\* A left shift moves every bit up and drops those past the end, a right shift
\* moves them down and drops those below zero.
LEMMA LeftBits ==
  ASSUME NEW word, word \subseteq Int, NEW n \in Int, NEW bits, NEW x \in Int
  PROVE  x \in Left(word, n, bits) <=> x - n \in word /\ x \in Low(bits)
<1>1. ASSUME x \in Left(word, n, bits) PROVE x - n \in word /\ x \in Low(bits)
  <2>1. PICK b \in word : x = b + n BY <1>1 DEF Left
  <2>2. b \in Int OBVIOUS
  <2>3. x - n = b BY <2>1, <2>2
  <2> QED BY <1>1, <2>1, <2>3 DEF Left
<1>2. ASSUME x - n \in word, x \in Low(bits) PROVE x \in Left(word, n, bits)
  <2>1. x = (x - n) + n OBVIOUS
  <2> QED BY <1>2, <2>1 DEF Left
<1> QED BY <1>1, <1>2

LEMMA RightBits ==
  ASSUME NEW word, word \subseteq Int, NEW n \in Nat, NEW x \in Int
  PROVE  x \in Right(word, n) <=> x >= 0 /\ x + n \in word
<1>1. ASSUME x \in Right(word, n) PROVE x >= 0 /\ x + n \in word
  <2>1. PICK b \in {y \in word : y >= n} : x = b - n BY <1>1 DEF Right
  <2>2. b \in Int /\ b \in word /\ b >= n BY <2>1
  <2>3. x + n = b BY <2>1, <2>2
  <2> QED BY <2>1, <2>2, <2>3
<1>2. ASSUME x >= 0, x + n \in word PROVE x \in Right(word, n)
  <2>1. x + n >= n /\ x = (x + n) - n BY <1>2
  <2> QED BY <1>2, <2>1 DEF Right
<1> QED BY <1>1, <1>2

-----------------------------------------------------------------------------
(* PackBits.                                                                *)

LEMMA PackInit == Init => PackInv
<1> SUFFICES ASSUME Init PROVE PackInv OBVIOUS
<1>1. vals \in Seq(Word) /\ width = WidthFor(vals) BY DataAssumption DEF Init
<1>2. /\ width \in 0 .. WordBits
      /\ \A k \in 1 .. Len(vals) : vals[k] \subseteq Low(width)
  BY <1>1, WidthForHolds
<1>3. /\ phase = "pack" /\ i = 0 /\ nbits = 0 /\ acc = {}
      /\ out = <<>> /\ tail = <<>>
  BY DEF Init
<1>4. i \in 0 .. Len(vals) BY <1>1, <1>3, LenProperties
<1>5. out \in Seq(Byte) /\ Len(out) = 0 BY <1>3
<1>6. nbits \in 0 .. WordBits + ByteBits - 1 /\ acc \subseteq Low(nbits)
  BY <1>3, WidthsAssumption
<1>7. nbits + ByteBits * Len(out) = width * i
  <2>1. ByteBits * 0 = 0 /\ width * 0 = 0 BY <1>2, WidthsAssumption
  <2> QED BY <1>3, <1>5, <2>1
<1>8. Low(i) = {} BY <1>3 DEF Low
<1> QED BY <1>1, <1>2, <1>3, <1>4, <1>5, <1>6, <1>7, <1>8 DEF PackInv

\* A byte that is drained takes its bits from acc to out: no position changes.
LEMMA DrainKeepsBits ==
  ASSUME PackInv, DrainByte, NEW p \in Nat
  PROVE  Written(p)' <=> Written(p)
<1> DEFINE L == Len(out)
           B == ByteBits
<1>1. /\ B \in Nat \ {0} /\ out \in Seq(Byte) /\ L \in Nat /\ phase = "pack"
      /\ nbits \in Nat /\ nbits >= B /\ acc \subseteq Low(nbits)
  BY WidthsAssumption, LenProperties DEF PackInv, DrainByte
<1>2. out' = Append(out, acc \cap Low(B)) /\ acc' = Right(acc, B) BY DEF DrainByte
<1>3. acc \cap Low(B) \in Byte BY DEF Byte
<1>4. /\ Len(out') = L + 1 /\ out'[L + 1] = acc \cap Low(B)
      /\ \A k \in 1 .. L : out'[k] = out[k]
  BY <1>1, <1>2, <1>3, AppendProperties
<1>5. B * (L + 1) = B * L + B /\ B * L \in Nat BY <1>1
<1>6. CASE p < B * L
  <2>1. p < B * Len(out') BY <1>4, <1>5, <1>6, <1>1
  <2>2. p \div B \in 0 .. L - 1
    <3> DEFINE q == p \div B
    <3>1. p = B * q + (p % B) /\ q \in Nat /\ p % B \in 0 .. B - 1 BY <1>1, DivMod
    <3>2. ~(q >= L)
      <4>1. q > L => B * L + B <= B * q BY <1>1, <3>1, QuotientGap
      <4> DEFINE u == B * q
                 v == B * L
      <4>2. u \in Nat /\ v \in Nat BY <1>1, <3>1
      <4>3. q = L => u = v OBVIOUS
      <4>4. u <= p
        <5> HIDE DEF u, q
        <5> QED BY <3>1, <4>2, <1>1 DEF u
      <4> HIDE DEF u, v
      <4> QED BY <4>1, <4>2, <4>3, <4>4, <1>6, <3>1, <1>1 DEF u, v
    <3> QED BY <3>1, <3>2, <1>1
  <2>3. (p \div B) + 1 \in 1 .. L BY <2>2, <1>1
  <2> QED BY <1>6, <2>1, <2>3, <1>4 DEF Written
<1>7. CASE ~(p < B * L) /\ p - B * L < B
  <2> DEFINE r == p - B * L
  <2>1. r \in 0 .. B - 1 /\ p = B * L + r BY <1>1, <1>5, <1>7
  <2>2. p \div B = L /\ p % B = r
    <3> HIDE DEF r
    <3> QED BY <1>1, <2>1, QuotientRemainder
  <2>3. p < B * Len(out') BY <1>4, <1>5, <1>7, <1>1
  <2>4. Written(p)' <=> r \in out'[L + 1] BY <2>2, <2>3 DEF Written
  <2>5. Written(p) <=> r \in acc BY <1>7 DEF Written
  <2>6. r \in Low(B) BY <2>1 DEF Low
  <2> QED BY <2>4, <2>5, <2>6, <1>4
<1>8. CASE p - B * L >= B
  <2>1. ~(p < B * L) /\ ~(p < B * Len(out')) BY <1>4, <1>5, <1>8, <1>1
  <2>2. p - B * Len(out') = p - B * L - B BY <1>4, <1>5, <1>1
  <2>3. Written(p)' <=> (p - B * L - B) \in acc' BY <2>1, <2>2 DEF Written
  <2> DEFINE x == p - B * L - B
  <2>4. x \in Int /\ x >= 0 /\ x + B = p - B * L BY <1>1, <1>5, <1>8
  <2>5. acc \subseteq Int BY <1>1 DEF Low
  <2>6. x \in acc' <=> p - B * L \in acc
    <3> HIDE DEF x
    <3>1. x \in Right(acc, B) <=> x >= 0 /\ x + B \in acc BY <2>4, <2>5, <1>1, RightBits
    <3> QED BY <3>1, <1>2, <2>4
  <2> QED BY <2>1, <2>3, <2>6 DEF Written
<1>9. B * L \in Nat /\ p \in Nat /\ B \in Nat BY <1>1, <1>5
<1> QED
  <2>1. p < B * L \/ (~(p < B * L) /\ p - B * L < B) \/ p - B * L >= B
    <3> DEFINE u == B * L
    <3> HIDE DEF u
    <3> QED BY <1>9 DEF u
  <2> QED BY <2>1, <1>6, <1>7, <1>8

\* A value that is taken goes above the bits in use, and no bit of it is lost.
LEMMA TakePlacesBits ==
  ASSUME PackInv, TakeValue
  PROVE  /\ acc' \subseteq Low(nbits')
         /\ \A j \in Low(i') : \A b \in Low(width) :
              Written(width * j + b)' <=> b \in vals[j + 1]
<1> DEFINE L == Len(out)
           B == ByteBits
           v == vals[i + 1]
<1>1. /\ B \in Nat \ {0} /\ WordBits \in Nat /\ AccBits \in Nat
      /\ AccBits >= WordBits + B - 1
      /\ L \in Nat /\ phase = "pack" /\ width \in 0 .. WordBits
      /\ nbits \in Nat /\ nbits < B /\ acc \subseteq Low(nbits)
      /\ i \in 0 .. Len(vals) /\ i < Len(vals) /\ Len(vals) \in Nat
      /\ nbits + B * L = width * i
      /\ \A j \in Low(i) : \A b \in Low(width) :
           Written(width * j + b) <=> b \in vals[j + 1]
  BY WidthsAssumption, LenProperties DEF PackInv, TakeValue, Unread
<1>2. /\ acc' = acc \cup Left(v \cap LowMask(width), nbits, AccBits)
      /\ nbits' = nbits + width /\ i' = i + 1 /\ out' = out
  BY DEF TakeValue
<1>3. v \subseteq Low(width) /\ v \cap LowMask(width) = v
  <2>1. i + 1 \in 1 .. Len(vals) BY <1>1
  <2>2. v \subseteq Low(width) BY <2>1 DEF PackInv
  <2> QED BY <2>2, <1>1, MaskIsLow
<1>4. \A x \in Int : x \in acc' <=> x \in acc \/ (x - nbits \in v /\ x \in Low(AccBits))
  <2> TAKE x \in Int
  <2>1. v \subseteq Int BY <1>3, <1>1 DEF Low
  <2>2. nbits \in Int BY <1>1
  <2> HIDE DEF v
  <2>3. x \in Left(v, nbits, AccBits) <=> x - nbits \in v /\ x \in Low(AccBits)
    BY <2>1, <2>2, LeftBits
  <2> QED BY <2>3, <1>2, <1>3
<1>5. acc' \subseteq Low(nbits')
  <2> SUFFICES ASSUME NEW x \in acc' PROVE x \in Low(nbits') OBVIOUS
  <2>1. x \in Int BY <1>1, <1>2 DEF Low, Left
  <2>2. x \in acc \/ x - nbits \in v BY <1>4, <2>1
  <2>3. CASE x \in acc BY <1>1, <1>2, <2>3 DEF Low
  <2>4. CASE x - nbits \in v
    <3>1. x - nbits \in 0 .. width - 1 BY <1>3, <2>4 DEF Low
    <3> QED BY <3>1, <2>1, <1>1, <1>2 DEF Low
  <2> QED BY <2>2, <2>3, <2>4
<1>6. B * L \in Nat /\ width * i \in Nat BY <1>1
<1>7. ASSUME NEW p \in Nat
      PROVE  Written(p)' <=> IF p < B * L THEN p % B \in out[(p \div B) + 1]
                                          ELSE p - B * L \in acc'
  BY <1>2 DEF Written
<1>8. ASSUME NEW p \in Nat, p < width * i
      PROVE  Written(p)' <=> Written(p)
  <2>1. CASE p < B * L BY <1>7, <2>1 DEF Written
  <2>2. CASE ~(p < B * L)
    <3> DEFINE x == p - B * L
    <3>1. x \in Int /\ x < nbits BY <1>1, <1>6, <1>8
    <3>2. ~(x - nbits \in v) BY <3>1, <1>1, <1>3 DEF Low
    <3> HIDE DEF v, x
    <3>3. x \in acc' <=> x \in acc BY <1>4, <3>1, <3>2
    <3> QED BY <1>7, <2>2, <3>3 DEF Written, x
  <2> QED BY <2>1, <2>2
<1>9. ASSUME NEW p \in Nat, NEW b \in Low(width), p = width * i + b
      PROVE  Written(p)' <=> b \in v
  <2> DEFINE x == p - B * L
  <2>1. b \in 0 .. width - 1 BY DEF Low
  <2>2. ~(p < B * L) /\ x = nbits + b BY <1>1, <1>6, <2>1, <1>9
  <2>3. x \in Int /\ x - nbits = b /\ x \in Low(AccBits) BY <2>1, <2>2, <1>1 DEF Low
  <2>4. x \notin acc BY <2>1, <2>2, <1>1 DEF Low
  <2> HIDE DEF v, x
  <2>5. x \in acc' <=> b \in v BY <2>3, <2>4, <1>4
  <2> QED BY <1>7, <2>2, <2>5 DEF x
<1>10. width' = width BY DEF TakeValue
<1>11. ASSUME NEW j \in Low(i'), NEW b \in Low(width)
       PROVE  Written(width * j + b)' <=> b \in vals[j + 1]
  <2>1. j \in Low(i) \/ j = i BY <1>1, <1>2 DEF Low
  <2>2. CASE j \in Low(i)
    <3>1. width \in Nat /\ i \in Nat /\ j \in 0 .. i - 1 /\ b \in 0 .. width - 1
      BY <1>1, <2>2 DEF Low
    <3>2. width * j + b \in Nat /\ width * j + b < width * i BY <3>1, BitsOfEarlierValue
    <3>3. Written(width * j + b) <=> b \in vals[j + 1] BY <1>1, <2>2
    <3> QED BY <1>8, <1>10, <3>2, <3>3 DEF Written
  <2>3. CASE j = i
    <3>1. b \in 0 .. width - 1 BY DEF Low
    <3>2. width * i + b \in Nat
      <4>1. PICK wi \in Nat : wi = width * i BY <1>6
      <4>2. b \in Nat BY <3>1
      <4>3. wi + b \in Nat BY <4>1, <4>2
      <4> QED BY <4>1, <4>3
    <3> HIDE DEF v
    <3>3. ASSUME NEW p \in Nat, p = width * i + b PROVE Written(p)' <=> b \in v
      BY <1>9, <3>3
    <3> QED BY <3>2, <3>3, <1>10, <2>3 DEF Written, v
  <2> QED BY <2>1, <2>2, <2>3
<1> QED BY <1>5, <1>11

LEMMA PackStep == PackInv /\ [Next]_vars => PackInv'
<1> SUFFICES ASSUME PackInv, [Next]_vars PROVE PackInv' OBVIOUS
<1>0. /\ ByteBits \in Nat \ {0} /\ WordBits \in Nat
      /\ Len(out) \in Nat /\ Len(vals) \in Nat /\ width \in 0 .. WordBits
      /\ ByteBits * Len(out) \in Nat /\ width * i \in Nat
  <2>1. ByteBits \in Nat \ {0} /\ WordBits \in Nat BY WidthsAssumption
  <2>2. Len(out) \in Nat /\ Len(vals) \in Nat BY LenProperties DEF PackInv
  <2>3. width \in Nat /\ i \in Nat /\ width \in 0 .. WordBits BY <2>1, <2>2 DEF PackInv
  <2> QED BY <2>1, <2>2, <2>3
<1>1. CASE TakeValue
  <2>1. /\ vals' = vals /\ width' = width /\ phase' = phase /\ phase = "pack"
        /\ out' = out /\ tail' = tail /\ i' = i + 1 /\ nbits' = nbits + width
        /\ nbits < ByteBits /\ width # 0 /\ i < Len(vals)
    BY <1>1 DEF TakeValue, Unread
  <2>2. i' \in 0 .. Len(vals') BY <2>1, <1>0 DEF PackInv
  <2>3. nbits' \in 0 .. WordBits + ByteBits - 1 BY <2>1, <1>0 DEF PackInv
  <2>4. nbits' + ByteBits * Len(out') = width' * i'
    <3>1. width * (i + 1) = width * i + width BY <1>0 DEF PackInv
    <3>2. nbits + ByteBits * Len(out) = width * i BY <2>1 DEF PackInv
    <3> DEFINE x == ByteBits * Len(out)
               y == width * i
    <3> HIDE DEF x, y
    <3>3. x \in Nat /\ y \in Nat /\ nbits + x = y /\ nbits \in Nat
      BY <1>0, <3>2, <2>1 DEF x, y, PackInv
    <3>4. (nbits + width) + x = y + width BY <3>3, <1>0
    <3> QED BY <3>1, <3>4, <2>1 DEF x, y
  <2>5. /\ acc' \subseteq Low(nbits')
        /\ \A j \in Low(i') : \A b \in Low(width) :
             Written(width * j + b)' <=> b \in vals[j + 1]
    BY <1>1, TakePlacesBits
  <2> QED BY <2>1, <2>2, <2>3, <2>4, <2>5 DEF PackInv
<1>2. CASE DrainByte
  <2>1. /\ vals' = vals /\ width' = width /\ phase' = phase /\ phase = "pack"
        /\ i' = i /\ tail' = tail /\ nbits' = nbits - ByteBits /\ nbits >= ByteBits
        /\ out' = Append(out, acc \cap Low(ByteBits)) /\ acc' = Right(acc, ByteBits)
    BY <1>2 DEF DrainByte
  <2>2. out' \in Seq(Byte) /\ Len(out') = Len(out) + 1
    <3>1. acc \cap Low(ByteBits) \in Byte BY DEF Byte
    <3> QED BY <2>1, <3>1, AppendProperties DEF PackInv
  <2>3. nbits' \in 0 .. WordBits + ByteBits - 1 BY <2>1, <1>0 DEF PackInv
  <2>4. nbits' + ByteBits * Len(out') = width' * i'
    <3>1. ByteBits * (Len(out) + 1) = ByteBits * Len(out) + ByteBits BY <1>0
    <3>2. nbits + ByteBits * Len(out) = width * i BY <2>1 DEF PackInv
    <3> DEFINE x == ByteBits * Len(out)
    <3> HIDE DEF x
    <3>3. (nbits - ByteBits) + (x + ByteBits) = nbits + x BY <1>0, <2>1 DEF x, PackInv
    <3> QED BY <2>1, <2>2, <3>1, <3>2, <3>3 DEF x
  <2>5. acc' \subseteq Low(nbits')
    <3> SUFFICES ASSUME NEW x \in acc' PROVE x \in Low(nbits') OBVIOUS
    <3>1. acc \subseteq Low(nbits) /\ nbits \in Nat BY <2>1, <1>0 DEF PackInv
    <3>2. PICK b \in {y \in acc : y >= ByteBits} : x = b - ByteBits BY <2>1 DEF Right
    <3>3. b \in 0 .. nbits - 1 /\ b >= ByteBits BY <3>1, <3>2 DEF Low
    <3> QED BY <3>1, <3>2, <3>3, <2>1, <1>0 DEF Low
  <2>6. \A j \in Low(i) : \A b \in Low(width) :
          Written(width * j + b)' <=> b \in vals[j + 1]
    <3> SUFFICES ASSUME NEW j \in Low(i), NEW b \in Low(width)
                 PROVE  Written(width * j + b)' <=> b \in vals[j + 1]
      OBVIOUS
    <3>1. width \in Nat /\ i \in Nat /\ j \in 0 .. i - 1 /\ b \in 0 .. width - 1
      BY <1>0 DEF Low, PackInv
    <3>2. width * j + b \in Nat BY <3>1, BitsOfEarlierValue
    <3>3. ASSUME NEW p \in Nat PROVE Written(p)' <=> Written(p) BY <1>2, DrainKeepsBits
    <3>4. Written(width * j + b)' <=> Written(width * j + b) BY <3>2, <3>3, <2>1 DEF Written
    <3> QED BY <3>4, <2>1 DEF PackInv
  <2> QED BY <2>1, <2>2, <2>3, <2>4, <2>5, <2>6 DEF PackInv
<1>3. CASE EndPack
  <2> DEFINE byte == acc \cap Low(ByteBits)
             B == ByteBits
             L == Len(out)
             N == Len(vals)
  <2>1. /\ vals' = vals /\ width' = width /\ phase = "pack" /\ phase' = "read"
        /\ i' = i /\ acc' = acc /\ nbits < ByteBits /\ tail' \in Tails
        /\ (width = 0 \/ i >= N)
        /\ out' = IF nbits > 0 THEN Append(out, byte) ELSE out
    BY <1>3, <1>0 DEF EndPack, Unread, PackInv
  <2>2. /\ nbits \in Nat /\ acc \subseteq Low(nbits) /\ nbits + B * L = width * i
        /\ out \in Seq(Byte) /\ i \in 0 .. N
    BY <2>1, <1>0 DEF PackInv
  <2>3. byte \in Byte BY DEF Byte
  <2>4. /\ out' \in Seq(Byte)
        /\ nbits > 0 => /\ Len(out') = L + 1 /\ out'[L + 1] = byte
                        /\ \A k \in 1 .. L : out'[k] = out[k]
        /\ nbits = 0 => out' = out
    <3> HIDE DEF byte
    <3>1. CASE nbits > 0 BY <3>1, <2>1, <2>2, <2>3, AppendProperties
    <3>2. CASE nbits = 0 BY <3>2, <2>1, <2>2
    <3> QED BY <3>1, <3>2, <2>2
  <2>5. width * N = width * i
    <3>1. CASE width = 0
      <4>1. 0 * N = 0 /\ 0 * i = 0 BY <1>0, <2>2
      <4> QED BY <4>1, <3>1
    <3>2. CASE i >= N
      <4>1. i = N BY <3>2, <2>2, <1>0
      <4> QED BY <4>1
    <3> QED BY <3>1, <3>2, <2>1
  <2>6. width * N <= B * Len(out')
    <3>1. B * (L + 1) = B * L + B BY <1>0
    <3> DEFINE x == B * L
               y == width * i
    <3>2. x \in Nat /\ y \in Nat /\ nbits + x = y BY <1>0, <2>2
    <3> HIDE DEF x, y
    <3>3. CASE nbits > 0
      <4>1. y <= x + B BY <3>2, <2>1, <2>2, <1>0
      <4> QED BY <4>1, <3>3, <3>1, <2>4, <2>5 DEF x, y
    <3>4. CASE nbits = 0
      <4>1. y <= x BY <3>2, <3>4
      <4> QED BY <4>1, <3>4, <2>4, <2>5 DEF x, y
    <3> QED BY <3>3, <3>4, <2>2
  <2>7. ASSUME NEW p \in Nat, p < width * i
        PROVE  Written(p)' <=> Written(p)
    <3> DEFINE x == B * L
               y == width * i
               r == p - x
    <3>1. x \in Nat /\ y \in Nat /\ nbits + x = y /\ p < y BY <1>0, <2>2, <2>7
    <3>2. CASE nbits = 0
      <4>1. out' = out /\ acc' = acc BY <3>2, <2>4, <2>1
      <4> QED BY <4>1 DEF Written
    <3>3. CASE nbits > 0 /\ p < B * L
      <4>1. p < B * Len(out')
        <5>1. B * (L + 1) = B * L + B BY <1>0
        <5> HIDE DEF y
        <5> QED BY <5>1, <3>1, <3>3, <2>4, <1>0
      <4>2. (p \div B) + 1 \in 1 .. L
        <5>1. p = B * (p \div B) + (p % B) /\ p \div B \in Nat /\ p % B \in 0 .. B - 1
          BY <1>0, DivMod
        <5> DEFINE q == p \div B
                   u == B * q
        <5> HIDE DEF q
        <5>2. q >= L => u >= x
          <6>1. q > L => B * L + B <= B * q BY <1>0, <5>1, QuotientGap DEF q
          <6>2. q = L => u = x OBVIOUS
          <6>3. u \in Nat BY <1>0, <5>1 DEF q
          <6> HIDE DEF u, x
          <6> QED BY <6>1, <6>2, <6>3, <3>1, <5>1, <1>0 DEF u, x, q
        <5>3. u <= p
          <6>1. u \in Nat BY <1>0, <5>1 DEF q
          <6> HIDE DEF u
          <6> QED BY <5>1, <6>1, <1>0 DEF u, q
        <5>4. u \in Nat BY <1>0, <5>1 DEF q
        <5> HIDE DEF u, x
        <5>5. ~(q >= L) BY <5>2, <5>3, <5>4, <3>1, <3>3 DEF x
        <5> QED BY <5>1, <5>5, <1>0 DEF q
      <4> QED BY <4>1, <4>2, <3>3, <2>4 DEF Written
    <3>4. CASE nbits > 0 /\ ~(p < B * L)
      <4>1. r \in 0 .. B - 1 /\ r \in Int /\ p = B * L + r
        <5> HIDE DEF x, y
        <5>1. ~(p < x) BY <3>4 DEF x
        <5>2. r \in 0 .. B - 1 /\ r \in Int /\ p = x + r BY <5>1, <3>1, <2>1, <2>2, <1>0
        <5> QED BY <5>2 DEF x
      <4>2. p \div B = L /\ p % B = r
        <5> HIDE DEF r
        <5> QED BY <4>1, <1>0, QuotientRemainder
      <4>3. p < B * Len(out')
        <5>1. B * (L + 1) = B * L + B BY <1>0
        <5> HIDE DEF r, y
        <5> QED BY <5>1, <3>4, <4>1, <3>1, <2>4, <1>0
      <4>4. Written(p)' <=> r \in byte BY <4>2, <4>3, <3>4, <2>4 DEF Written
      <4>5. Written(p) <=> r \in acc BY <3>4 DEF Written
      <4>6. r \in Low(B) BY <4>1 DEF Low
      <4> QED BY <4>4, <4>5, <4>6
    <3> QED BY <3>2, <3>3, <3>4, <2>2
  <2>8. \A j \in Low(N) : \A b \in Low(width) :
          Written(width * j + b)' <=> b \in vals[j + 1]
    <3> SUFFICES ASSUME NEW j \in Low(N), NEW b \in Low(width)
                 PROVE  Written(width * j + b)' <=> b \in vals[j + 1]
      OBVIOUS
    <3>1. width # 0 BY <1>0 DEF Low
    <3>2. i = N BY <3>1, <2>1, <2>2, <1>0
    <3>3. width \in Nat /\ i \in Nat /\ j \in 0 .. i - 1 /\ b \in 0 .. width - 1
      BY <1>0, <3>2, <2>2 DEF Low
    <3>4. width * j + b \in Nat /\ width * j + b < width * i BY <3>3, BitsOfEarlierValue
    <3>5. Written(width * j + b)' <=> Written(width * j + b) BY <3>4, <2>7, <2>1 DEF Written
    <3>6. Written(width * j + b) <=> b \in vals[j + 1] BY <3>2, <2>1 DEF PackInv
    <3> QED BY <3>5, <3>6
  <2> HIDE DEF byte
  <2> QED BY <2>1, <2>4, <2>6, <2>8, <2>2 DEF PackInv
<1>4. CASE Extract BY <1>4 DEF Extract, packVars, PackInv, Written
<1>5. CASE UNCHANGED vars BY <1>5 DEF vars, packVars, PackInv, Written
<1> QED BY <1>1, <1>2, <1>3, <1>4, <1>5 DEF Next

\* PackBits never loses, moves or overwrites a bit: at every step the bytes
\* that are out and the accumulator hold each value at its own positions.
THEOREM PackKeepsBits == Spec => []PackInv
<1>1. Init => PackInv BY PackInit
<1>2. PackInv /\ [Next]_vars => PackInv' BY PackStep
<1> QED BY <1>1, <1>2, PTL DEF Spec

-----------------------------------------------------------------------------
(* ExtractBits.                                                             *)

\* What a reader may assume once the values are packed.
LEMMA PackedFacts ==
  ASSUME PackInv, phase = "read", NEW idx \in Low(Len(vals)), width # 0
  PROVE  /\ ByteBits \in Nat \ {0} /\ width \in 1 .. WordBits /\ WordBits \in Nat
         /\ Len(out) \in Nat /\ out \in Seq(Byte) /\ tail \in Seq(Byte)
         /\ Len(tail) \in Nat /\ Len(tail) >= Window - 1 /\ Window \in Nat
         /\ FirstBit(idx) \in Nat /\ FirstBit(idx) + width <= ByteBits * Len(out)
         /\ ByteBits * Len(out) \in Nat
         /\ \A x \in Low(width) : Written(width * idx + x) <=> x \in vals[idx + 1]
<1>1. /\ ByteBits \in Nat \ {0} /\ WordBits \in Nat /\ Window \in Nat
      /\ width \in 1 .. WordBits /\ Len(vals) \in Nat /\ Len(out) \in Nat
      /\ out \in Seq(Byte) /\ tail \in Tails
      /\ width * Len(vals) <= ByteBits * Len(out)
      /\ \A x \in Low(width) : Written(width * idx + x) <=> x \in vals[idx + 1]
  BY WidthsAssumption, LenProperties DEF PackInv
<1>2. tail \in Seq(Byte) /\ Len(tail) >= Window - 1 /\ Len(tail) \in Nat
  BY <1>1, DataAssumption, LenProperties
<1>3. idx \in Nat /\ idx < Len(vals) BY <1>1 DEF Low
<1>4. /\ width * idx \in Nat /\ width * Len(vals) \in Nat
      /\ ByteBits * Len(out) \in Nat
  BY <1>1, <1>3
<1>5. width * idx + width <= width * Len(vals) BY <1>1, <1>3, QuotientGap
<1>6. width * idx + width <= ByteBits * Len(out)
  <2> DEFINE a == width * idx
             b == width * Len(vals)
             c == ByteBits * Len(out)
  <2>1. a \in Nat /\ b \in Nat /\ c \in Nat /\ a + width <= b /\ b <= c BY <1>4, <1>5, <1>1
  <2> HIDE DEF a, b, c
  <2>2. a + width <= c BY <2>1, <1>1
  <2> QED BY <2>2 DEF a, c
<1> QED BY <1>1, <1>2, <1>4, <1>6 DEF FirstBit

\* A bit before the end of n bytes is in one of them.
LEMMA ByteBefore ==
  ASSUME NEW M \in Nat \ {0}, NEW n \in Nat, NEW p \in Nat, p < M * n
  PROVE  p \div M \in 0 .. n - 1
<1> DEFINE q == p \div M
<1>1. p = M * q + (p % M) /\ q \in Nat /\ p % M \in 0 .. M - 1 BY DivMod
<1>2. ~(n <= q)
  <2>1. n < q => M * n + M <= M * q BY <1>1, QuotientGap
  <2> DEFINE u == M * n
             v == M * q
  <2>2. u \in Nat /\ v \in Nat BY <1>1
  <2>3. n = q => u = v OBVIOUS
  <2> HIDE DEF q
  <2>4. v <= p
    <3>1. M * q \in Nat /\ p = M * q + (p % M) /\ p % M \in 0 .. M - 1 BY <1>1 DEF q
    <3> QED BY <3>1
  <2>5. n <= q => n < q \/ n = q BY <1>1
  <2> HIDE DEF u, v
  <2> QED BY <2>1, <2>2, <2>3, <2>4, <2>5 DEF u, v
<1> QED BY <1>1, <1>2

LEMMA FirstByteInside ==
  ASSUME PackInv, phase = "read", NEW idx \in Low(Len(vals)), width # 0
  PROVE  FirstByte(idx) \in 0 .. Len(out) - 1
<1>1. /\ ByteBits \in Nat \ {0} /\ Len(out) \in Nat /\ FirstBit(idx) \in Nat
      /\ width \in 1 .. WordBits /\ WordBits \in Nat
      /\ FirstBit(idx) + width <= ByteBits * Len(out)
      /\ ByteBits * Len(out) \in Nat
  BY PackedFacts
<1>2. FirstBit(idx) < ByteBits * Len(out)
  <2> DEFINE c == ByteBits * Len(out)
  <2> HIDE DEF c
  <2>1. c \in Nat /\ FirstBit(idx) + width <= c BY <1>1 DEF c
  <2>2. FirstBit(idx) < c BY <1>1, <2>1
  <2> QED BY <2>2 DEF c
<1> QED BY <1>1, <1>2, ByteBefore DEF FirstByte

\* The reader's window never leaves the buffer, however wide the values and
\* however short the last byte, as long as Window - 1 bytes follow the region.
THEOREM WindowStaysInside == Spec => []WindowInside
<1>1. PackInv => WindowInside
  <2> SUFFICES ASSUME PackInv, phase = "read", width # 0, NEW idx \in Low(Len(vals))
               PROVE  FirstByte(idx) + Window <= Len(Buffer)
    BY DEF WindowInside
  <2>1. FirstByte(idx) \in 0 .. Len(out) - 1 BY FirstByteInside
  <2>2. /\ Len(out) \in Nat /\ Len(tail) \in Nat /\ Window \in Nat
        /\ Len(tail) >= Window - 1 /\ out \in Seq(Byte) /\ tail \in Seq(Byte)
    BY PackedFacts
  <2>3. Len(Buffer) = Len(out) + Len(tail) BY <2>2, ConcatProperties DEF Buffer
  <2> QED BY <2>1, <2>2, <2>3
<1> QED BY <1>1, PackKeepsBits, PTL

-----------------------------------------------------------------------------
(* ExtractBits of any bytes.                                                *)

\* Bit p of a stream of bytes.
StreamBit(data, p) == p % ByteBits \in data[(p \div ByteBits) + 1]

\* Bit x behind the first one is bit r of the k-th byte loaded.
LEMMA LoadedBit ==
  ASSUME NEW bit \in Nat, NEW x \in Low(WordBits)
  PROVE  LET fb == bit \div ByteBits
             y == x + (bit % ByteBits)
             k == y \div ByteBits
             r == y % ByteBits
         IN /\ fb \in Nat /\ k \in Low(Window) /\ r \in Low(ByteBits)
            /\ y = ByteBits * k + r /\ y \in Low(AccBits) /\ y \in Nat
            /\ (bit + x) \div ByteBits = fb + k /\ (bit + x) % ByteBits = r
<1> DEFINE B == ByteBits
           fb == bit \div B
           off == bit % B
           y == x + off
           k == y \div B
           r == y % B
<1>1. B \in Nat \ {0} /\ WordBits \in Nat /\ Window \in Nat /\ x \in 0 .. WordBits - 1
  BY WidthsAssumption DEF Low
<1>2. bit = B * fb + off /\ fb \in Nat /\ off \in 0 .. B - 1 BY <1>1, DivMod
<1> HIDE DEF fb, off
<1>3. y \in Nat /\ y < WordBits + B - 1 BY <1>1, <1>2
<1>4. B * Window \in Nat /\ y < B * Window /\ y \in Low(AccBits)
  <2>1. B * Window \in Nat BY <1>1
  <2> HIDE DEF y
  <2>2. B * Window >= WordBits + B - 1 /\ AccBits >= WordBits + B - 1 /\ AccBits \in Nat
    BY WidthsAssumption
  <2> DEFINE u == B * Window
  <2> HIDE DEF u
  <2>3. u \in Nat /\ u >= WordBits + B - 1 BY <2>1, <2>2 DEF u
  <2>4. y < u BY <1>1, <1>3, <2>3
  <2>5. y \in Low(AccBits) BY <1>1, <1>3, <2>2 DEF Low
  <2> QED BY <2>1, <2>4, <2>5 DEF u
<1>5. y = B * k + r /\ k \in Nat /\ r \in 0 .. B - 1
  <2> HIDE DEF y
  <2> QED BY <1>1, <1>3, DivMod
<1>6. k \in 0 .. Window - 1
  <2> HIDE DEF y
  <2> QED BY <1>1, <1>3, <1>4, ByteBefore
<1>7. bit + x = B * (fb + k) + r /\ fb + k \in Nat
  <2>1. B * (fb + k) = B * fb + B * k BY <1>1, <1>2, <1>5
  <2>2. off + x = B * k + r BY <1>1, <1>2, <1>5
  <2> DEFINE u == B * fb
             v == B * k
  <2>3. u \in Nat /\ v \in Nat /\ k \in Nat /\ r \in Nat BY <1>1, <1>2, <1>5
  <2> HIDE DEF k, r, y
  <2>4. u \in Nat /\ v \in Nat /\ off + x = v + r /\ bit = u + off /\ B * (fb + k) = u + v
    BY <1>2, <2>1, <2>2, <2>3
  <2> HIDE DEF u, v
  <2> QED BY <1>1, <1>2, <2>3, <2>4
<1> HIDE DEF k, r, y
<1>8. (bit + x) \div B = fb + k /\ (bit + x) % B = r BY <1>1, <1>5, <1>7, QuotientRemainder
<1>9. k \in Low(Window) /\ r \in Low(B) BY <1>5, <1>6 DEF Low
<1> QED BY <1>2, <1>3, <1>4, <1>5, <1>8, <1>9 DEF fb, off, k, r, y

\* A loaded bit is the bit of its byte, and of no other.
LEMMA LoadedIs ==
  ASSUME NEW data, NEW bit \in Nat, NEW k \in Low(Window), NEW r \in Low(ByteBits),
         ByteBits * k + r \in Low(AccBits),
         \A m \in Low(Window) : data[(bit \div ByteBits) + m + 1] \subseteq Low(ByteBits)
  PROVE  ByteBits * k + r \in Loaded(data, bit, Window)
           <=> r \in data[(bit \div ByteBits) + k + 1]
<1> DEFINE B == ByteBits
           fb == bit \div B
           y == B * k + r
<1>1. B \in Nat \ {0} /\ k \in Nat /\ r \in 0 .. B - 1 BY WidthsAssumption DEF Low
<1>2. B * k \in Int /\ y \in Int /\ y - B * k = r BY <1>1
<1> HIDE DEF fb
<1>3. \A m \in Low(Window) :
        y \in Left(data[fb + m + 1], B * m, AccBits)
          <=> y - B * m \in data[fb + m + 1] /\ y \in Low(AccBits)
  <2> TAKE m \in Low(Window)
  <2>1. data[fb + m + 1] \subseteq Int BY <1>1 DEF Low, fb
  <2>2. m \in Int BY WidthsAssumption DEF Low
  <2>3. B * m \in Int BY <1>1, <2>2
  <2> HIDE DEF y
  <2> QED BY <1>2, <2>1, <2>3, LeftBits
<1>4. r \in data[fb + k + 1] => y \in Loaded(data, bit, Window)
  <2>1. r \in data[fb + k + 1] => y \in Left(data[fb + k + 1], B * k, AccBits) BY <1>2, <1>3
  <2> HIDE DEF y
  <2> QED BY <2>1 DEF Loaded, fb
<1>5. ASSUME y \in Loaded(data, bit, Window) PROVE r \in data[fb + k + 1]
  <2>1. PICK m \in Low(Window) : y \in Left(data[fb + m + 1], B * m, AccBits)
    <3> HIDE DEF y
    <3> QED BY <1>5 DEF Loaded, fb
  <2> DEFINE s == y - B * m
  <2>2. s \in data[fb + m + 1] BY <1>3, <2>1
  <2>3. s \in 0 .. B - 1 /\ m \in Nat
    <3>1. data[fb + m + 1] \subseteq Low(B) BY DEF fb
    <3>2. m \in Nat BY WidthsAssumption DEF Low
    <3> HIDE DEF s
    <3> QED BY <2>2, <3>1, <3>2 DEF Low
  <2>4. B * m \in Int BY <1>1, <2>3
  <2> HIDE DEF y
  <2>5. B * m + s = y BY <1>2, <2>4
  <2> HIDE DEF s
  <2>6. (B * m + s) \div B = m /\ (B * m + s) % B = s BY <1>1, <2>3, QuotientRemainder
  <2>7. (B * k + r) \div B = k /\ (B * k + r) % B = r BY <1>1, QuotientRemainder
  <2>8. m = k /\ s = r BY <2>5, <2>6, <2>7 DEF y
  <2> QED BY <2>2, <2>8
<1> QED BY <1>4, <1>5 DEF fb

\* The window is bytes, and the bits behind the first one are the value's: then
\* ExtractBits answers the value, whatever the other bits of the window are.
LEMMA ExtractedIs ==
  ASSUME NEW data, NEW idx \in Nat, NEW w \in 1 .. WordBits, NEW value, value \subseteq Low(w),
         \A m \in Low(Window) : data[((w * idx) \div ByteBits) + m + 1] \subseteq Low(ByteBits),
         \A x \in Low(w) : StreamBit(data, w * idx + x) <=> x \in value
  PROVE  ExtractBits(data, idx, w) = value
<1>1. WordBits \in Nat /\ ByteBits \in Nat \ {0} /\ w \in Nat /\ w # 0 BY WidthsAssumption
<1>2. PICK bit \in Nat : bit = w * idx BY <1>1
<1> DEFINE off == bit % ByteBits
           loaded == Loaded(data, bit, Window)
<1>3. off \in Nat
  <2>1. off \in 0 .. ByteBits - 1 BY <1>1, DivMod
  <2> QED BY <1>1, <2>1
<1>4. ExtractBits(data, idx, w) = Right(loaded, off) \cap Low(w)
  <2>1. LowMask(w) = Low(w) BY MaskIsLow
  <2> QED BY <1>1, <1>2, <2>1 DEF ExtractBits
<1>5. loaded \subseteq Int BY DEF Loaded, Left, Low
<1>6. ASSUME NEW x \in Low(w)
      PROVE  x + off \in loaded <=> x \in value
  <2> DEFINE k == (x + off) \div ByteBits
             r == (x + off) % ByteBits
  <2>1. x \in Low(WordBits) BY <1>1 DEF Low
  <2>2. /\ k \in Low(Window) /\ r \in Low(ByteBits)
        /\ x + off = ByteBits * k + r /\ x + off \in Low(AccBits)
        /\ (bit + x) \div ByteBits = (bit \div ByteBits) + k /\ (bit + x) % ByteBits = r
    BY <2>1, LoadedBit
  <2> HIDE DEF k, r, off
  <2>3. x + off \in loaded <=> r \in data[(bit \div ByteBits) + k + 1]
    <3>1. \A m \in Low(Window) : data[(bit \div ByteBits) + m + 1] \subseteq Low(ByteBits)
      BY <1>2
    <3>2. ByteBits * k + r \in Low(AccBits) BY <2>2
    <3>3. ByteBits * k + r \in loaded <=> r \in data[(bit \div ByteBits) + k + 1]
      BY <2>2, <3>1, <3>2, LoadedIs
    <3> QED BY <2>2, <3>3
  <2>4. StreamBit(data, bit + x) <=> r \in data[(bit \div ByteBits) + k + 1]
    BY <2>2 DEF StreamBit
  <2> QED BY <1>2, <2>3, <2>4
<1> HIDE DEF loaded, off
<1>7. \A x \in Low(w) : x \in Right(loaded, off) <=> x \in value
  <2> TAKE x \in Low(w)
  <2>1. x \in Int /\ x >= 0 BY <1>1 DEF Low
  <2> QED BY <1>3, <1>5, <1>6, <2>1, RightBits
<1> QED BY <1>4, <1>7

\* ExtractBits of a packed list is the value.
LEMMA ExtractedIsValue ==
  ASSUME PackInv, phase = "read", NEW idx \in Low(Len(vals))
  PROVE  ExtractBits(Buffer, idx, width) = vals[idx + 1]
<1>1. vals[idx + 1] \subseteq Low(width) /\ width \in 0 .. WordBits /\ idx \in Nat
  <2>1. Len(vals) \in Nat BY LenProperties DEF PackInv
  <2>2. idx \in Nat /\ idx + 1 \in 1 .. Len(vals) BY <2>1 DEF Low
  <2> QED BY <2>2 DEF PackInv
<1>2. CASE width = 0 BY <1>1, <1>2 DEF Low, ExtractBits
<1>3. CASE width # 0
  <2>1. /\ ByteBits \in Nat \ {0} /\ width \in 1 .. WordBits /\ WordBits \in Nat
        /\ Len(out) \in Nat /\ out \in Seq(Byte) /\ tail \in Seq(Byte)
        /\ Len(tail) \in Nat /\ Len(tail) >= Window - 1 /\ Window \in Nat
        /\ FirstBit(idx) \in Nat /\ FirstBit(idx) + width <= ByteBits * Len(out)
        /\ ByteBits * Len(out) \in Nat
        /\ \A x \in Low(width) : Written(width * idx + x) <=> x \in vals[idx + 1]
    BY <1>3, PackedFacts
  <2>2. FirstByte(idx) \in 0 .. Len(out) - 1 BY <1>3, FirstByteInside
  <2>3. /\ Buffer \in Seq(Byte) /\ Len(Buffer) = Len(out) + Len(tail)
        /\ \A k \in 1 .. Len(out) : Buffer[k] = out[k]
    BY <2>1, ConcatProperties DEF Buffer
  <2>4. \A m \in Low(Window) : Buffer[FirstByte(idx) + m + 1] \subseteq Low(ByteBits)
    <3> TAKE m \in Low(Window)
    <3>1. FirstByte(idx) + m + 1 \in 1 .. Len(Buffer) BY <2>1, <2>2, <2>3, SMTT(30) DEF Low
    <3>2. Buffer[FirstByte(idx) + m + 1] \in Byte BY <2>3, <3>1, ElementOfSeq
    <3> QED BY <3>2 DEF Byte
  <2>5. ASSUME NEW x \in Low(width)
        PROVE  StreamBit(Buffer, width * idx + x) <=> x \in vals[idx + 1]
    <3> DEFINE p == width * idx + x
    <3>1. p \in Nat /\ p < ByteBits * Len(out)
      <4>1. p = FirstBit(idx) + x /\ x \in 0 .. width - 1 BY DEF FirstBit, Low
      <4> DEFINE c == ByteBits * Len(out)
      <4> HIDE DEF c, p
      <4>2. c \in Nat /\ FirstBit(idx) + width <= c BY <2>1 DEF c
      <4>3. p \in Nat /\ p < c BY <2>1, <4>1, <4>2
      <4> QED BY <4>3 DEF c
    <3> HIDE DEF p
    <3>2. p \div ByteBits \in 0 .. Len(out) - 1 BY <2>1, <3>1, ByteBefore
    <3>3. (p \div ByteBits) + 1 \in 1 .. Len(out) BY <2>1, <3>2
    <3>4. Buffer[(p \div ByteBits) + 1] = out[(p \div ByteBits) + 1] BY <2>3, <3>3
    <3>5. Written(p) <=> StreamBit(Buffer, p) BY <3>1, <3>4 DEF Written, StreamBit
    <3> QED BY <2>1, <3>5 DEF p
  <2> QED BY <1>1, <2>1, <2>4, <2>5, ExtractedIs DEF FirstByte, FirstBit
<1> QED BY <1>2, <1>3

\* Every answer of ExtractBits is the value packed at that index.
THEOREM PackedReadsBack == Spec => []ReadBack
<1> DEFINE Asked == asked \in Int /\ (asked >= 0 => phase = "read" /\ asked \in Low(Len(vals)))
           Inv == Asked /\ ReadBack
<1>1. Init => Inv BY DEF Init, ReadBack
<1>2. PackInv /\ Inv /\ [Next]_vars => Inv'
  <2> SUFFICES ASSUME PackInv, Inv, [Next]_vars PROVE Inv' OBVIOUS
  <2>1. CASE TakeValue BY <2>1 DEF TakeValue, ReadBack
  <2>2. CASE DrainByte BY <2>2 DEF DrainByte, ReadBack
  <2>3. CASE EndPack BY <2>3 DEF EndPack, ReadBack
  <2>4. CASE Extract
    <3>1. PICK idx \in Low(Len(vals)) : asked' = idx /\ got' = ExtractBits(Buffer, idx, width)
      BY <2>4 DEF Extract
    <3>2. phase = "read" /\ vals' = vals /\ phase' = phase BY <2>4 DEF Extract, packVars
    <3>3. ExtractBits(Buffer, idx, width) = vals[idx + 1] BY <3>2, ExtractedIsValue
    <3>4. idx \in Int
      <4>1. Len(vals) \in Nat BY LenProperties DEF PackInv
      <4> QED BY <4>1 DEF Low
    <3> QED BY <3>1, <3>2, <3>3, <3>4 DEF ReadBack
  <2>5. CASE UNCHANGED vars BY <2>5 DEF vars, packVars, ReadBack
  <2> QED BY <2>1, <2>2, <2>3, <2>4, <2>5 DEF Next
<1> QED BY <1>1, <1>2, PackKeepsBits, PTL DEF Spec

-----------------------------------------------------------------------------
(* The stream as stated.                                                    *)

\* As many bytes as the values need, and no bit behind the last of them.
Padded ==
  phase = "read" =>
    /\ Len(out) = BytesFor(Len(vals), width)
    /\ \A p \in Nat : width * Len(vals) <= p /\ p < ByteBits * Len(out) => ~Written(p)

LEMMA EndPads == PackInv /\ EndPack => Padded'
<1> SUFFICES ASSUME PackInv, EndPack PROVE Padded' OBVIOUS
<1> DEFINE byte == acc \cap Low(ByteBits)
           B == ByteBits
           L == Len(out)
           N == Len(vals)
<1>1. /\ B \in Nat \ {0} /\ L \in Nat /\ N \in Nat /\ width \in Nat /\ i \in 0 .. N
      /\ vals' = vals /\ width' = width /\ phase = "pack" /\ acc' = acc
      /\ nbits \in 0 .. B - 1 /\ acc \subseteq Low(nbits) /\ nbits + B * L = width * i
      /\ (width = 0 \/ i >= N)
      /\ out \in Seq(Byte)
      /\ out' = IF nbits > 0 THEN Append(out, byte) ELSE out
  BY WidthsAssumption, LenProperties DEF EndPack, Unread, PackInv
<1>2. width * N = nbits + B * L
  <2>1. CASE width = 0
    <3>1. 0 * N = 0 /\ 0 * i = 0 BY <1>1
    <3> QED BY <3>1, <2>1, <1>1
  <2>2. CASE i >= N
    <3>1. i = N BY <2>2, <1>1
    <3> QED BY <3>1, <1>1
  <2> QED BY <2>1, <2>2, <1>1
<1>3. /\ nbits > 0 => Len(out') = L + 1 /\ out'[L + 1] = byte
      /\ nbits = 0 => out' = out
  <2>1. byte \in Byte BY DEF Byte
  <2> HIDE DEF byte
  <2>2. CASE nbits > 0 BY <2>1, <2>2, <1>1, AppendProperties
  <2>3. CASE nbits = 0 BY <2>3, <1>1
  <2> QED BY <2>2, <2>3, <1>1
<1> HIDE DEF byte
<1>4. Len(out') = BytesFor(N, width)
  <2>1. N * width = nbits + B * L
    <3>1. N * width = width * N BY <1>1
    <3> QED BY <3>1, <1>2
  <2> DEFINE u == B * L
  <2>2. u \in Nat BY <1>1
  <2>3. CASE nbits = 0
    <3>1. N * width + B - 1 = B * L + (B - 1)
      <4> HIDE DEF u
      <4>1. (nbits + u) + B - 1 = u + (B - 1) BY <1>1, <2>2, <2>3
      <4> QED BY <2>1, <4>1 DEF u
    <3> DEFINE r == B - 1
    <3>2. (B * L + r) \div B = L
      <4>1. r \in 0 .. B - 1 BY <1>1
      <4> HIDE DEF r
      <4> QED BY <4>1, <1>1, QuotientRemainder
    <3> QED BY <3>1, <3>2, <2>3, <1>3 DEF BytesFor
  <2>4. CASE nbits > 0
    <3>1. B * (L + 1) = B * L + B BY <1>1
    <3>2. N * width + B - 1 = B * (L + 1) + (nbits - 1)
      <4> HIDE DEF u
      <4>1. (nbits + u) + B - 1 = (u + B) + (nbits - 1) BY <1>1, <2>2
      <4> QED BY <2>1, <3>1, <4>1 DEF u
    <3>3. nbits - 1 \in 0 .. B - 1 /\ L + 1 \in Nat BY <1>1, <2>4
    <3>4. (B * (L + 1) + (nbits - 1)) \div B = L + 1 BY <1>1, <3>3, QuotientRemainder
    <3> QED BY <3>2, <3>4, <2>4, <1>3 DEF BytesFor
  <2> QED BY <2>3, <2>4, <1>1
<1>5. ASSUME NEW p \in Nat, width * N <= p, p < B * Len(out'), Written(p)'
      PROVE  FALSE
  <2> DEFINE u == B * L
             r == p - u
  <2>1. u \in Nat /\ nbits + u <= p BY <1>1, <1>2, <1>5
  <2>2. CASE nbits = 0
    <3>1. p < u BY <2>2, <1>3, <1>5
    <3> HIDE DEF u
    <3> QED BY <3>1, <2>1, <2>2
  <2>3. CASE nbits > 0
    <3>1. p < u + B
      <4>1. B * (L + 1) = B * L + B BY <1>1
      <4> QED BY <4>1, <2>3, <1>3, <1>5
    <3>2. r \in 0 .. B - 1 /\ ~(r < nbits) /\ p = B * L + r
      <4>1. r \in 0 .. B - 1 /\ ~(r < nbits) /\ p = u + r
        <5> HIDE DEF u
        <5> QED BY <3>1, <2>1, <1>1
      <4> QED BY <4>1
    <3> HIDE DEF r, u
    <3>3. p \div B = L /\ p % B = r BY <3>2, <1>1, QuotientRemainder
    <3>4. r \in byte BY <3>3, <2>3, <1>3, <1>5 DEF Written
    <3>5. r \in Low(nbits) BY <3>4, <1>1 DEF byte
    <3> QED BY <3>5, <3>2, <1>1 DEF Low
  <2> QED BY <2>2, <2>3, <1>1
<1>6. \A p \in Nat : width' * Len(vals') <= p /\ p < ByteBits * Len(out') => ~Written(p)'
  BY <1>1, <1>5
<1> QED BY <1>1, <1>4, <1>6 DEF Padded, BytesFor, Written

LEMMA PaddedIsStream == PackInv /\ Padded => PackedAsStated
<1> SUFFICES ASSUME PackInv, Padded, phase = "read"
             PROVE  out = PackBits(vals, width)
  BY DEF PackedAsStated
<1> DEFINE B == ByteBits
           L == Len(out)
           N == Len(vals)
           Said(k) == {b \in Low(B) : LET p == B * (k - 1) + b IN
                         p < width * N /\ (p % width) \in vals[(p \div width) + 1]}
<1>1. /\ B \in Nat \ {0} /\ L \in Nat /\ N \in Nat /\ width \in Nat
      /\ out \in Seq(Byte) /\ L = BytesFor(N, width)
  BY WidthsAssumption, LenProperties DEF PackInv, Padded
<1>2. ASSUME NEW k \in 1 .. L, NEW b \in Low(B)
      PROVE  b \in out[k] <=> b \in Said(k)
  <2> DEFINE p == B * (k - 1) + b
             u == B * (k - 1)
             v == B * L
             e == width * N
  <2>1. k - 1 \in Nat /\ b \in 0 .. B - 1 BY <1>1 DEF Low
  <2>2. u \in Nat /\ v \in Nat /\ e \in Nat BY <1>1, <2>1
  <2>3. p \in Nat /\ p < v
    <3>1. u + B <= v BY <1>1, <2>1, QuotientGap
    <3>2. u + b \in Nat /\ u + b < v
      <4> HIDE DEF u, v
      <4> QED BY <3>1, <2>1, <2>2, <1>1
    <3> QED BY <3>2
  <2>4. p \div B = k - 1 /\ p % B = b BY <1>1, <2>1, QuotientRemainder
  <2>5. Written(p) <=> b \in out[k]
    <3> HIDE DEF p
    <3>1. (p \div B) + 1 = k BY <2>4, <1>1
    <3> QED BY <2>3, <2>4, <3>1 DEF Written
  <2> HIDE DEF p, u
  <2>6. CASE p < e
    <3>1. width \in Nat \ {0}
      <4>1. 0 * N = 0 BY <1>1
      <4> QED BY <4>1, <2>6, <2>3, <1>1
    <3> DEFINE j == p \div width
               x == p % width
    <3>2. j \in 0 .. N - 1 BY <3>1, <2>3, <2>6, <1>1, ByteBefore
    <3>3. p = width * j + x /\ x \in 0 .. width - 1 BY <3>1, <2>3, DivMod
    <3> HIDE DEF j, x
    <3>4. Written(width * j + x) <=> x \in vals[j + 1] BY <3>2, <3>3 DEF PackInv, Low
    <3>5. b \in Said(k) <=> x \in vals[j + 1] BY <2>6 DEF p, j, x
    <3> QED BY <3>3, <3>4, <3>5, <2>5
  <2>7. CASE ~(p < e)
    <3>1. e <= p BY <2>7, <2>2, <2>3
    <3>2. ~Written(p) BY <3>1, <2>3 DEF Padded
    <3>3. b \notin Said(k) BY <2>7 DEF p
    <3> QED BY <3>2, <3>3, <2>5
  <2> QED BY <2>6, <2>7
<1>3. \A k \in 1 .. L : out[k] = Said(k)
  <2> TAKE k \in 1 .. L
  <2>1. out[k] \subseteq Low(B) BY <1>1, ElementOfSeq DEF Byte
  <2>2. Said(k) \subseteq Low(B) OBVIOUS
  <2> HIDE DEF Said
  <2> QED BY <2>1, <2>2, <1>2
<1>4. out = [k \in 1 .. L |-> Said(k)]
  <2>1. out \in [1 .. L -> Byte] BY <1>1, LenProperties
  <2>2. out = [k \in 1 .. L |-> out[k]] BY <2>1
  <2> HIDE DEF Said
  <2> QED BY <2>2, <1>3
<1> QED BY <1>1, <1>4 DEF PackBits

\* What PackBits returns is bit for bit the stream its comment states, zero
\* bits behind the last value included (bitpack.h:37-54).
THEOREM PackedIsStream == Spec => []PackedAsStated
<1>1. Init => Padded BY DEF Init, Padded
<1>2. PackInv /\ Padded /\ [Next]_vars => Padded'
  <2> SUFFICES ASSUME PackInv, Padded, [Next]_vars PROVE Padded' OBVIOUS
  <2>1. CASE TakeValue BY <2>1 DEF TakeValue, Padded
  <2>2. CASE DrainByte BY <2>2 DEF DrainByte, Padded
  <2>3. CASE EndPack BY <2>3, EndPads
  <2>4. CASE Extract BY <2>4 DEF Extract, packVars, Padded, BytesFor, Written
  <2>5. CASE UNCHANGED vars BY <2>5 DEF vars, packVars, Padded, BytesFor, Written
  <2> QED BY <2>1, <2>2, <2>3, <2>4, <2>5 DEF Next
<1>3. PackInv /\ Padded => PackedAsStated BY PaddedIsStream
<1> QED BY <1>1, <1>2, <1>3, PackKeepsBits, PTL DEF Spec

-----------------------------------------------------------------------------
(* The bits of a number.                                                    *)

\* One bit more of a number.
LEMMA NextBit ==
  ASSUME NEW n \in Nat, NEW k \in Nat
  PROVE  n % 2 ^ (k + 1) = (n % 2 ^ k) + (IF (n \div 2 ^ k) % 2 = 1 THEN 2 ^ k ELSE 0)
<1>1. PICK p \in Nat \ {0} : p = 2 ^ k /\ 2 ^ (k + 1) = 2 * p BY Powers
<1> DEFINE q == n \div p
           r == n % p
           u == q \div 2
           v == q % 2
<1>2. n = p * q + r /\ q \in Nat /\ r \in 0 .. p - 1 BY DivMod
<1>3. q = 2 * u + v /\ u \in Nat /\ v \in 0 .. 1
  <2> HIDE DEF q
  <2> QED BY <1>2, DivMod
<1> HIDE DEF q, r, u, v
<1>4. n = (2 * p) * u + (p * v + r)
  <2>1. p * q = p * (2 * u) + p * v BY <1>2, <1>3
  <2>2. p * (2 * u) = (2 * p) * u BY <1>3
  <2>3. PICK a \in Nat : a = (2 * p) * u BY <1>3
  <2>4. PICK b \in Nat : b = p * v BY <1>3
  <2> QED BY <1>2, <2>1, <2>2, <2>3, <2>4
<1>5. p * v + r \in 0 .. 2 * p - 1 /\ p * v = IF v = 1 THEN p ELSE 0 BY <1>2, <1>3
<1>6. n % (2 * p) = p * v + r
  <2> DEFINE M == 2 * p
             s == p * v + r
  <2>1. M \in Nat \ {0} /\ s \in 0 .. M - 1 /\ n = M * u + s BY <1>4, <1>5
  <2> HIDE DEF M, s
  <2>2. n % M = s BY <1>3, <2>1, QuotientRemainder
  <2> QED BY <2>2 DEF M, s
<1>7. n % 2 ^ (k + 1) = p * v + r BY <1>1, <1>6
<1>8. n % 2 ^ k = r /\ ((n \div 2 ^ k) % 2 = 1 <=> v = 1) BY <1>1 DEF r, v, q
<1> QED BY <1>1, <1>2, <1>5, <1>7, <1>8

\* A number below a power has its bits below the exponent.
LEMMA BitsBelow ==
  ASSUME NEW n \in Nat, NEW k \in Nat, n < 2 ^ k
  PROVE  BitsOf(n) \subseteq Low(k)
<1> SUFFICES ASSUME NEW b \in BitsOf(n) PROVE b \in Low(k) OBVIOUS
<1>1. b \in Nat /\ (n \div 2 ^ b) % 2 = 1 BY WidthsAssumption DEF BitsOf, Low
<1>2. CASE b < k BY <1>1, <1>2 DEF Low
<1>3. CASE b >= k
  <2>1. 2 ^ k <= 2 ^ b BY <1>1, <1>3, PowersGrow
  <2>2. PICK p \in Nat \ {0} : p = 2 ^ b BY <1>1, Powers
  <2>3. PICK q \in Nat : q = 2 ^ k BY Powers
  <2>4. n < p BY <2>1, <2>2, <2>3
  <2>5. n \div p = 0
    <3>1. n = p * 0 + n /\ n \in 0 .. p - 1 BY <2>4
    <3> QED BY <3>1, QuotientRemainder
  <2> QED BY <1>1, <2>2, <2>5
<1> QED BY <1>1, <1>2, <1>3

\* The bits below k make the number's remainder.
LEMMA LowBitsSum ==
  ASSUME NEW n \in Nat, NEW k \in 0 .. WordBits
  PROVE  SumFunctionOnSet([b \in BitsOf(n) |-> 2 ^ b], BitsOf(n) \cap Low(k)) = n % 2 ^ k
<1> DEFINE f == [b \in BitsOf(n) |-> 2 ^ b]
           S(m) == BitsOf(n) \cap Low(m)
           wrong == {m \in Nat : m <= WordBits /\ SumFunctionOnSet(f, S(m)) # n % 2 ^ m}
<1>0. WordBits \in Nat /\ k \in Nat /\ k <= WordBits BY WidthsAssumption
<1> SUFFICES ASSUME wrong # {} PROVE FALSE BY <1>0
<1>1. PICK m \in wrong : \A l \in wrong : m <= l
  <2>1. wrong \subseteq Nat OBVIOUS
  <2> HIDE DEF wrong
  <2> QED BY <2>1, LeastNatural
<1>2. m \in Nat /\ m <= WordBits /\ SumFunctionOnSet(f, S(m)) # n % 2 ^ m BY <1>1
<1>3. m # 0
  <2>1. Low(0) = {} /\ 2 ^ 0 = 1 /\ n % 1 = 0 BY DEF Low
  <2>2. S(0) = {} /\ n % 2 ^ 0 = 0 BY <2>1
  <2> HIDE DEF f, S
  <2> QED BY <1>2, <2>2, EmptySum
<1> DEFINE l == m - 1
<1>4. l \in Nat /\ l + 1 = m /\ l \in Low(WordBits) /\ l <= WordBits
  BY <1>0, <1>2, <1>3 DEF Low
<1>5. SumFunctionOnSet(f, S(l)) = n % 2 ^ l
  <2> SUFFICES ASSUME SumFunctionOnSet(f, S(l)) # n % 2 ^ l PROVE FALSE OBVIOUS
  <2>1. l \in wrong BY <1>4
  <2> HIDE DEF wrong
  <2> QED BY <1>1, <1>2, <1>4, <2>1
<1> HIDE DEF l
<1>6. Low(m) = Low(l) \cup {l} /\ l \notin Low(l) BY <1>4 DEF Low
<1>7. n % 2 ^ m = (n % 2 ^ l) + (IF (n \div 2 ^ l) % 2 = 1 THEN 2 ^ l ELSE 0)
  BY <1>4, NextBit
<1>8. IsFiniteSet(S(m)) /\ \A b \in S(m) : f[b] \in Int
  <2>1. IsFiniteSet(Low(m)) BY <1>2, FS_Interval DEF Low
  <2>2. ASSUME NEW b \in S(m) PROVE f[b] \in Int
    <3>1. b \in Nat /\ f[b] = 2 ^ b BY <1>2 DEF Low
    <3> QED BY <3>1, Powers
  <2> QED BY <2>1, <2>2, FS_Subset
<1>9. CASE (n \div 2 ^ l) % 2 = 1
  <2>1. l \in BitsOf(n) BY <1>4, <1>9 DEF BitsOf
  <2>2. l \in S(m) /\ S(m) \ {l} = S(l) /\ f[l] = 2 ^ l BY <1>6, <2>1
  <2> HIDE DEF f, S
  <2>3. SumFunctionOnSet(f, S(m)) = f[l] + SumFunctionOnSet(f, S(l))
    BY <1>8, <2>2, SumSplits
  <2>4. 2 ^ l \in Nat /\ n % 2 ^ l \in Nat
    <3>1. PICK p \in Nat \ {0} : p = 2 ^ l BY <1>4, Powers
    <3>2. p \in Nat /\ n % p \in Nat
      <4>1. n % p \in 0 .. p - 1 BY DivMod
      <4> QED BY <4>1
    <3> QED BY <3>1, <3>2, Zenon
  <2>5. n % 2 ^ m = (n % 2 ^ l) + 2 ^ l BY <1>7, <1>9
  <2> DEFINE p == 2 ^ l
             r == n % 2 ^ l
             s == SumFunctionOnSet(f, S(m))
             t == n % 2 ^ m
  <2>6. s = p + r /\ t = r + p /\ p \in Nat /\ r \in Nat BY <1>5, <2>2, <2>3, <2>4, <2>5
  <2> HIDE DEF p, r, s, t
  <2>7. s = t BY <2>6
  <2> QED BY <1>2, <2>7 DEF s, t
<1>10. CASE (n \div 2 ^ l) % 2 # 1
  <2>1. l \notin BitsOf(n) BY <1>10 DEF BitsOf
  <2>2. S(m) = S(l) BY <1>6, <2>1
  <2> HIDE DEF f, S
  <2>3. n % 2 ^ l \in Nat
    <3>1. PICK p \in Nat \ {0} : p = 2 ^ l BY <1>4, Powers
    <3>2. n % p \in Nat
      <4>1. n % p \in 0 .. p - 1 BY DivMod
      <4> QED BY <4>1
    <3> QED BY <3>1, <3>2, Zenon
  <2>4. n % 2 ^ m = (n % 2 ^ l) + 0 BY <1>7, <1>10
  <2> DEFINE r == n % 2 ^ l
             t == n % 2 ^ m
  <2>5. r \in Nat /\ t = r + 0 BY <2>3, <2>4
  <2> HIDE DEF r, t
  <2>6. r = t BY <2>5
  <2> QED BY <1>2, <1>5, <2>2, <2>6 DEF r, t
<1> QED BY <1>9, <1>10

\* A number that fits a word is the value of its bits.
LEMMA NumberIs ==
  ASSUME NEW n \in Nat, n < 2 ^ WordBits
  PROVE  NumberOf(BitsOf(n)) = n
<1>1. WordBits \in Nat BY WidthsAssumption
<1>2. BitsOf(n) \cap Low(WordBits) = BitsOf(n) BY DEF BitsOf
<1>3. SumFunctionOnSet([b \in BitsOf(n) |-> 2 ^ b], BitsOf(n)) = n % 2 ^ WordBits
  BY <1>1, <1>2, LowBitsSum
<1>4. n % 2 ^ WordBits = n
  <2>1. PICK p \in Nat \ {0} : p = 2 ^ WordBits BY <1>1, Powers
  <2>2. n = p * 0 + n /\ n \in 0 .. p - 1 BY <2>1
  <2>3. n % p = n BY <2>2, QuotientRemainder
  <2> QED BY <2>1, <2>3
<1> QED BY <1>3, <1>4 DEF NumberOf, SumFunction

\* It is below the power that its bits are below.
LEMMA NumberBelow ==
  ASSUME NEW n \in Nat, n < 2 ^ WordBits, NEW k \in 0 .. WordBits, BitsOf(n) \subseteq Low(k)
  PROVE  n < 2 ^ k
<1>1. WordBits \in Nat /\ k \in Nat BY WidthsAssumption
<1>2. BitsOf(n) \cap Low(k) = BitsOf(n) OBVIOUS
<1>3. NumberOf(BitsOf(n)) = n % 2 ^ k BY <1>2, LowBitsSum DEF NumberOf, SumFunction
<1>4. PICK p \in Nat \ {0} : p = 2 ^ k BY <1>1, Powers
<1>5. n % p \in 0 .. p - 1 BY <1>4, DivMod
<1>6. n = n % p BY <1>3, <1>4, NumberIs
<1>7. n < p BY <1>5, <1>6, <1>4
<1> QED BY <1>4, <1>7

\* The width of the greatest number is enough for all.
LEMMA WidthSuffices ==
  ASSUME NEW n \in Nat, n < 2 ^ WordBits, NEW m \in 0 .. n
  PROVE  BitsOf(m) \subseteq Low(BitWidth(BitsOf(n)))
<1> DEFINE w == BitWidth(BitsOf(n))
<1>1. w \in 0 .. WordBits /\ BitsOf(n) \subseteq Low(w) BY BitWidthCovers DEF BitsOf
<1>2. WordBits \in Nat BY WidthsAssumption
<1> HIDE DEF w
<1>3. n < 2 ^ w BY <1>1, NumberBelow
<1>4. PICK p \in Nat : p = 2 ^ w BY <1>1, <1>2, Powers
<1>5. m \in Nat /\ m < p BY <1>3, <1>4
<1>6. BitsOf(m) \subseteq Low(w) BY <1>1, <1>2, <1>4, <1>5, BitsBelow
<1> QED BY <1>6 DEF w

-----------------------------------------------------------------------------
(* PackBits as stated.                                                      *)

\* The bytes of a packed list have room for all of its bits.
LEMMA BytesCover ==
  ASSUME NEW n \in Nat, NEW w \in Nat
  PROVE  /\ BytesFor(n, w) \in Nat /\ n * w \in Nat
         /\ n * w <= ByteBits * BytesFor(n, w) /\ ByteBits * BytesFor(n, w) \in Nat
<1> DEFINE x == n * w
           a == x + ByteBits - 1
           q == a \div ByteBits
           c == ByteBits * q
<1>1. x \in Nat /\ ByteBits \in Nat \ {0} BY WidthsAssumption
<1> HIDE DEF x
<1>2. a \in Nat BY <1>1
<1> HIDE DEF a
<1>3. a = c + (a % ByteBits) /\ q \in Nat /\ a % ByteBits \in 0 .. ByteBits - 1
  BY <1>1, <1>2, DivMod
<1> DEFINE r == a % ByteBits
<1>4. c \in Nat BY <1>1, <1>3
<1> HIDE DEF q, c, r
<1>5. c \in Nat /\ x <= c BY <1>1, <1>2, <1>3, <1>4 DEF r, a
<1>6. BytesFor(n, w) = q BY DEF BytesFor, q, a, x
<1>7. n * w = x BY DEF x
<1> QED BY <1>1, <1>3, <1>5, <1>6, <1>7 DEF c

\* Bit x of value idx is bit w * idx + x of the stream.
LEMMA PackedBit ==
  ASSUME NEW w \in 1 .. WordBits, NEW s, Len(s) \in Nat, NEW idx \in Low(Len(s)), NEW x \in Low(w)
  PROVE  LET p == w * idx + x
         IN /\ p \in Nat /\ (p \div ByteBits) + 1 \in 1 .. BytesFor(Len(s), w)
            /\ StreamBit(PackBits(s, w), p) <=> x \in s[idx + 1]
<1> DEFINE n == Len(s)
           p == w * idx + x
           k == p \div ByteBits
           b == p % ByteBits
<1>1. /\ ByteBits \in Nat \ {0} /\ WordBits \in Nat /\ w \in Nat \ {0} /\ n \in Nat
      /\ idx \in 0 .. n - 1 /\ x \in 0 .. w - 1
  BY WidthsAssumption DEF Low
<1>2. p \in Nat /\ w * n \in Nat /\ p < w * n BY <1>1, BitsOfEarlierValue
<1>3. p \div w = idx /\ p % w = x BY <1>1, QuotientRemainder
<1> HIDE DEF n, p
<1>4. BytesFor(n, w) \in Nat /\ n * w <= ByteBits * BytesFor(n, w) /\ ByteBits * BytesFor(n, w) \in Nat
  BY <1>1, BytesCover
<1>5. p < ByteBits * BytesFor(n, w)
  <2>1. n * w = w * n BY <1>1
  <2> DEFINE u == w * n
             c == ByteBits * BytesFor(n, w)
  <2>2. u \in Nat /\ c \in Nat /\ u <= c /\ p < u BY <1>2, <1>4, <2>1
  <2> HIDE DEF u, c
  <2>3. p < c BY <1>2, <2>2
  <2> QED BY <2>3 DEF c
<1>6. k \in 0 .. BytesFor(n, w) - 1 BY <1>1, <1>2, <1>4, <1>5, ByteBefore
<1>7. p = ByteBits * k + b /\ b \in 0 .. ByteBits - 1 /\ k \in Nat BY <1>1, <1>2, DivMod
<1> HIDE DEF k, b
<1>8. k + 1 \in 1 .. BytesFor(n, w) /\ (k + 1) - 1 = k BY <1>4, <1>6
<1>9. PackBits(s, w)[k + 1] =
        {c \in Low(ByteBits) : LET u == ByteBits * k + c IN u < w * n /\ (u % w) \in s[(u \div w) + 1]}
  <2> DEFINE K == k + 1
  <2>1. K \in 1 .. BytesFor(n, w) /\ K - 1 = k BY <1>8
  <2> HIDE DEF K
  <2>2. PackBits(s, w)[K] =
          {c \in Low(ByteBits) :
             LET u == ByteBits * (K - 1) + c IN u < w * n /\ (u % w) \in s[(u \div w) + 1]}
    BY <2>1 DEF PackBits, n
  <2>3. ByteBits * (K - 1) = ByteBits * k BY <2>1
  <2> QED BY <2>2, <2>3 DEF K
<1>10. b \in Low(ByteBits) BY <1>7 DEF Low
<1>11. b \in PackBits(s, w)[k + 1] <=> x \in s[idx + 1] BY <1>2, <1>3, <1>7, <1>9, <1>10
<1> QED BY <1>2, <1>8, <1>11 DEF StreamBit, k, b, n, p

\* PackBits makes bytes, as many as the list needs.
LEMMA PackedBytes ==
  ASSUME NEW s, Len(s) \in Nat, NEW w \in Nat
  PROVE  PackBits(s, w) \in Seq(Byte) /\ Len(PackBits(s, w)) = BytesFor(Len(s), w)
<1>1. BytesFor(Len(s), w) \in Nat BY BytesCover
<1> DEFINE f == PackBits(s, w)
<1>2. /\ f = [k \in 1 .. BytesFor(Len(s), w) |-> f[k]]
      /\ \A k \in 1 .. BytesFor(Len(s), w) : f[k] \in Byte
  BY DEF PackBits, Byte
<1> HIDE DEF f
<1>3. f \in [1 .. BytesFor(Len(s), w) -> Byte] BY <1>2
<1>4. f \in Seq(Byte) /\ Len(f) = BytesFor(Len(s), w) BY <1>1, <1>3
<1> QED BY <1>4 DEF f

\* ExtractBits reads value idx from bytes that begin, as far as the window
\* reaches, with the packed list.
LEMMA ReadPacked ==
  ASSUME NEW s, Len(s) \in Nat, NEW w \in 0 .. WordBits,
         \A k \in 1 .. Len(s) : s[k] \subseteq Low(w),
         NEW idx \in Low(Len(s)), NEW data,
         w # 0 =>
           \A k \in 1 .. ((w * idx) \div ByteBits) + Window :
             /\ data[k] \subseteq Low(ByteBits)
             /\ k <= BytesFor(Len(s), w) => data[k] = PackBits(s, w)[k]
  PROVE  ExtractBits(data, idx, w) = s[idx + 1]
<1>1. ByteBits \in Nat \ {0} /\ WordBits \in Nat /\ Window \in Nat /\ w \in Nat
  BY WidthsAssumption
<1>2. idx \in Nat /\ idx + 1 \in 1 .. Len(s) BY DEF Low
<1>3. CASE w = 0 BY <1>2, <1>3 DEF Low, ExtractBits
<1>4. CASE w # 0
  <2>0. w \in 1 .. WordBits BY <1>4
  <2>1. PICK bit \in Nat : bit = w * idx BY <1>1, <1>2
  <2>2. bit \div ByteBits \in Nat BY <1>1, DivMod
  <2>3. \A m \in Low(Window) : data[(bit \div ByteBits) + m + 1] \subseteq Low(ByteBits)
    <3> TAKE m \in Low(Window)
    <3>1. (bit \div ByteBits) + m + 1 \in 1 .. (bit \div ByteBits) + Window
      BY <1>1, <2>2 DEF Low
    <3> QED BY <1>4, <2>1, <3>1
  <2>4. ASSUME NEW x \in Low(w)
        PROVE  StreamBit(data, bit + x) <=> x \in s[idx + 1]
    <3>1. PICK p \in Nat : p = bit + x BY <2>1, <1>1 DEF Low
    <3>2. /\ (p \div ByteBits) + 1 \in 1 .. BytesFor(Len(s), w)
          /\ StreamBit(PackBits(s, w), p) <=> x \in s[idx + 1]
      BY <2>0, <2>1, <3>1, PackedBit
    <3>3. x \in Low(WordBits) BY <1>1 DEF Low
    <3>4. PICK k \in Low(Window) : p \div ByteBits = (bit \div ByteBits) + k
      BY <3>1, <3>3, LoadedBit
    <3>5. /\ (p \div ByteBits) + 1 \in 1 .. (bit \div ByteBits) + Window
          /\ (p \div ByteBits) + 1 <= BytesFor(Len(s), w)
      <4>1. PICK fb \in Nat : fb = bit \div ByteBits BY <2>2
      <4>2. k \in 0 .. Window - 1 BY DEF Low
      <4>3. (p \div ByteBits) + 1 \in 1 .. fb + Window BY <1>1, <3>4, <4>1, <4>2
      <4>4. PICK n \in Nat : n = BytesFor(Len(s), w) BY <1>1, BytesCover
      <4>5. (p \div ByteBits) + 1 \in 1 .. n BY <3>2, <4>4
      <4> QED BY <4>1, <4>3, <4>4, <4>5
    <3>6. data[(p \div ByteBits) + 1] = PackBits(s, w)[(p \div ByteBits) + 1]
      BY <1>4, <2>1, <3>5
    <3> QED BY <3>1, <3>2, <3>6 DEF StreamBit
  <2>5. s[idx + 1] \subseteq Low(w) BY <1>2
  <2> QED BY <1>2, <2>0, <2>1, <2>3, <2>4, <2>5, ExtractedIs
<1> QED BY <1>3, <1>4

\* The byte that holds the first bit of a value is one of the packed ones.
LEMMA FirstPacked ==
  ASSUME NEW n \in Nat, NEW w \in 1 .. WordBits, NEW idx \in Low(n)
  PROVE  (w * idx) \div ByteBits \in 0 .. BytesFor(n, w) - 1
<1>1. WordBits \in Nat /\ idx \in 0 .. n - 1 /\ w \in Nat /\ 0 \in 0 .. w - 1
  BY WidthsAssumption DEF Low
<1>2. BytesFor(n, w) \in Nat BY <1>1, BytesCover
<1> DEFINE s == [k \in 1 .. n |-> {}]
<1>3. Len(s) = n OBVIOUS
<1>4. 0 \in Low(w) BY <1>1 DEF Low
<1> HIDE DEF s
<1>5. ((w * idx + 0) \div ByteBits) + 1 \in 1 .. BytesFor(n, w) /\ w * idx + 0 \in Nat
  BY <1>3, <1>4, PackedBit
<1>6. PICK p \in Nat : p = w * idx BY <1>1
<1>7. (p \div ByteBits) + 1 \in 1 .. BytesFor(n, w) BY <1>5, <1>6
<1>8. p \div ByteBits \in Nat BY <1>6, DivMod, WidthsAssumption
<1>9. p \div ByteBits \in 0 .. BytesFor(n, w) - 1 BY <1>2, <1>7, <1>8
<1> QED BY <1>6, <1>9

-----------------------------------------------------------------------------
(* Byte strings one behind the other.                                       *)

\* A sum to the next index is one more term.
LEMMA SumUpTo ==
  ASSUME NEW n \in Nat, NEW f, \A k \in 1 .. n + 1 : f[k] \in Nat
  PROVE  SumFunctionOnSet(f, 1 .. n + 1) = SumFunctionOnSet(f, 1 .. n) + f[n + 1]
<1>1. (1 .. n + 1) \ {n + 1} = 1 .. n /\ n + 1 \in 1 .. n + 1 OBVIOUS
<1>2. IsFiniteSet(1 .. n + 1) BY FS_Interval
<1>3. IsFiniteSet(1 .. n) /\ \A x \in 1 .. n + 1 : f[x] \in Int BY FS_Interval
<1>4. SumFunctionOnSet(f, 1 .. n + 1) = f[n + 1] + SumFunctionOnSet(f, 1 .. n)
  BY <1>1, <1>2, <1>3, SumSplits, SMTT(30)
<1>5. SumFunctionOnSet(f, 1 .. n) \in Int /\ f[n + 1] \in Int BY <1>1, <1>3, SumIsInt
<1> QED BY <1>4, <1>5

\* Sums of lengths grow with the index.
LEMMA SumsGrow ==
  ASSUME NEW n \in Nat, NEW f, \A k \in 1 .. n : f[k] \in Nat, NEW k \in 0 .. n
  PROVE  /\ SumFunctionOnSet(f, 1 .. k) \in Nat
         /\ SumFunctionOnSet(f, 1 .. k) <= SumFunctionOnSet(f, 1 .. n)
<1> DEFINE Sum(m) == SumFunctionOnSet(f, 1 .. m)
           Good(m) == Sum(m) \in Nat /\ \A l \in 0 .. m : Sum(l) \in Nat /\ Sum(l) <= Sum(m)
           wrong == {m \in 0 .. n : ~Good(m)}
<1>1. Sum(0) = 0
  <2>1. 1 .. 0 = {} OBVIOUS
  <2> QED BY <2>1, EmptySum
<1>2. \A m \in 0 .. n - 1 : Sum(m + 1) = Sum(m) + f[m + 1] /\ f[m + 1] \in Nat
  <2> TAKE m \in 0 .. n - 1
  <2>1. \A j \in 1 .. m + 1 : f[j] \in Nat OBVIOUS
  <2> QED BY <2>1, SumUpTo
<1> HIDE DEF Sum
<1>3. wrong = {}
  <2> SUFFICES ASSUME wrong # {} PROVE FALSE OBVIOUS
  <2>1. PICK m \in wrong : \A y \in wrong : m <= y
    <3>1. wrong \subseteq Nat OBVIOUS
    <3> HIDE DEF wrong
    <3> QED BY <3>1, LeastNatural
  <2>2. m \in 0 .. n /\ ~Good(m) OBVIOUS
  <2>3. m # 0
    <3>1. 0 .. 0 = {0} OBVIOUS
    <3> QED BY <1>1, <2>2, <3>1
  <2>4. m - 1 \in 0 .. n - 1 /\ m - 1 \in 0 .. n /\ (m - 1) + 1 = m /\ ~(m <= m - 1)
    BY <2>2, <2>3
  <2>5. Good(m - 1) BY <2>1, <2>4
  <2>6. Sum(m) = Sum(m - 1) + f[m] /\ f[m] \in Nat BY <1>2, <2>4
  <2>7. Sum(m) \in Nat /\ Sum(m - 1) <= Sum(m) BY <2>5, <2>6
  <2>8. \A l \in 0 .. m : Sum(l) \in Nat /\ Sum(l) <= Sum(m)
    <3> TAKE l \in 0 .. m
    <3>1. CASE l = m BY <2>7, <3>1
    <3>2. CASE l # m
      <4>1. l \in 0 .. m - 1 BY <2>2, <3>2
      <4>2. Sum(l) \in Nat /\ Sum(l) <= Sum(m - 1) /\ Sum(m - 1) \in Nat BY <2>5, <4>1
      <4> QED BY <2>7, <4>2
    <3> QED BY <3>1, <3>2
  <2> QED BY <2>2, <2>7, <2>8
<1>4. Good(n) BY <1>3
<1>5. Sum(k) \in Nat /\ Sum(k) <= Sum(n) BY <1>4
<1> QED BY <1>5 DEF Sum

\* Part k begins where the parts before it end.
LEMMA FlattenedParts ==
  ASSUME NEW S, NEW seqs \in Seq(Seq(S))
  PROVE  LET End(k) == SumFunctionOnSet(Lens(seqs), 1 .. k) IN
         /\ FlattenSeq(seqs) \in Seq(S) /\ Len(FlattenSeq(seqs)) = End(Len(seqs))
         /\ \A k \in 0 .. Len(seqs) : End(k) \in Nat /\ End(k) <= End(Len(seqs))
         /\ \A k \in 1 .. Len(seqs) :
              /\ End(k) = End(k - 1) + Len(seqs[k])
              /\ \A j \in 1 .. Len(seqs[k]) : FlattenSeq(seqs)[End(k - 1) + j] = seqs[k][j]
<1> DEFINE n == Len(seqs)
           lens == Lens(seqs)
           End(k) == SumFunctionOnSet(lens, 1 .. k)
<1>1. n \in Nat /\ DOMAIN seqs = 1 .. n /\ \A k \in 1 .. n : seqs[k] \in Seq(S) /\ Len(seqs[k]) \in Nat
  BY LenProperties, ElementOfSeq
<1>2. \A k \in 1 .. n : lens[k] = Len(seqs[k]) /\ lens[k] \in Nat BY <1>1 DEF Lens
<1> HIDE DEF lens
<1>3. \A k \in 0 .. n : End(k) \in Nat /\ End(k) <= End(n)
  <2> HIDE DEF n
  <2> TAKE k \in 0 .. n
  <2> QED BY <1>1, <1>2, SumsGrow
<1>4. \A k \in 1 .. n : End(k) = End(k - 1) + Len(seqs[k])
  <2> HIDE DEF n
  <2> TAKE k \in 1 .. n
  <2>1. k - 1 \in Nat /\ (k - 1) + 1 = k /\ \A j \in 1 .. k : lens[j] \in Nat BY <1>1, <1>2
  <2>2. SumFunctionOnSet(lens, 1 .. k) = SumFunctionOnSet(lens, 1 .. k - 1) + lens[k]
    <3> DEFINE m == k - 1
    <3>1. m \in Nat /\ m + 1 = k BY <2>1
    <3> HIDE DEF m
    <3>2. \A j \in 1 .. m + 1 : lens[j] \in Nat BY <2>1, <3>1
    <3>3. SumFunctionOnSet(lens, 1 .. m + 1) = SumFunctionOnSet(lens, 1 .. m) + lens[m + 1]
      BY <3>1, <3>2, SumUpTo
    <3> QED BY <3>1, <3>3 DEF m
  <2> QED BY <1>2, <2>2
<1>5. End(0) = 0
  <2>1. 1 .. 0 = {} OBVIOUS
  <2> QED BY <2>1, EmptySum
<1>8. \A k \in 0 .. n : \A m \in k .. n : End(k) <= End(m)
  <2> HIDE DEF n
  <2> TAKE k \in 0 .. n
  <2> TAKE m \in k .. n
  <2>1. m \in Nat /\ k \in 0 .. m /\ \A l \in 1 .. m : lens[l] \in Nat BY <1>1, <1>2
  <2> QED BY <2>1, SumsGrow
<1> HIDE DEF End
<1>6. CASE n = 0
  <2>1. seqs = <<>> BY <1>6, EmptySeq
  <2>2. FlattenSeq(seqs) = <<>> BY <1>6, <2>1 DEF FlattenSeq
  <2> QED BY <1>3, <1>4, <1>5, <1>6, <2>2, EmptySeq DEF End, lens
<1>7. CASE n # 0
  <2>1. PICK g \in [Nat -> Seq(S)] :
          /\ g[0] = <<>>
          /\ \A k \in 0 .. n - 1 : g[k + 1] = g[k] \o seqs[k + 1]
          /\ FlattenSeq(seqs) = g[n]
    BY <1>7, FlattenedBy DEF FlattenSeq, Concatenated
  <2> HIDE DEF n
  <2>2. \A k \in 0 .. n : g[k] \in Seq(S) /\ Len(g[k]) \in Nat BY <1>1, LenProperties
  <2>3. \A k \in 1 .. n :
          /\ Len(g[k]) = Len(g[k - 1]) + Len(seqs[k])
          /\ \A j \in 1 .. Len(g[k - 1]) + Len(seqs[k]) :
               g[k][j] = IF j <= Len(g[k - 1]) THEN g[k - 1][j] ELSE seqs[k][j - Len(g[k - 1])]
    <3> TAKE k \in 1 .. n
    <3>1. k - 1 \in 0 .. n - 1 /\ (k - 1) + 1 = k /\ k - 1 \in 0 .. n BY <1>1
    <3>2. g[k] = g[k - 1] \o seqs[k] /\ g[k - 1] \in Seq(S) /\ seqs[k] \in Seq(S)
      BY <1>1, <2>1, <2>2, <3>1
    <3>3. PICK a \in Seq(S) : a = g[k - 1] BY <3>2
    <3>4. PICK b \in Seq(S) : b = seqs[k] BY <3>2
    <3>5. /\ Len(a \o b) = Len(a) + Len(b)
          /\ \A j \in 1 .. Len(a) + Len(b) :
               (a \o b)[j] = IF j <= Len(a) THEN a[j] ELSE b[j - Len(a)]
      BY ConcatProperties
    <3>6. g[k] = a \o b BY <3>2, <3>3, <3>4
    <3>7. /\ Len(g[k]) = Len(a) + Len(b)
          /\ \A j \in 1 .. Len(a) + Len(b) :
               g[k][j] = IF j <= Len(a) THEN a[j] ELSE b[j - Len(a)]
      BY <3>5, <3>6, Zenon
    <3> QED BY <3>3, <3>4, <3>7
\* How long each prefix is.
  <2> DEFINE long == {k \in 0 .. n : Len(g[k]) # End(k)}
  <2>4. long = {}
    <3> SUFFICES ASSUME long # {} PROVE FALSE OBVIOUS
    <3>1. PICK k \in long : \A y \in long : k <= y
      <4>1. long \subseteq Nat OBVIOUS
      <4> HIDE DEF long
      <4> QED BY <4>1, LeastNatural
    <3>2. k # 0 BY <1>5, <2>1, <3>1, EmptySeq
    <3>3. k \in 1 .. n /\ k - 1 \in 0 .. n /\ ~(k <= k - 1) BY <1>1, <3>1, <3>2
    <3>4. Len(g[k - 1]) = End(k - 1) BY <3>1, <3>3
    <3> QED BY <1>4, <2>3, <3>1, <3>3, <3>4
  <2>5. \A k \in 0 .. n : Len(g[k]) = End(k) BY <2>4
\* What is in a prefix stays.
  <2> DEFINE kept(k) == {m \in k .. n : \E j \in 1 .. End(k) : g[m][j] # g[k][j]}
  <2>6. ASSUME NEW k \in 0 .. n PROVE kept(k) = {}
    <3> SUFFICES ASSUME kept(k) # {} PROVE FALSE OBVIOUS
    <3>1. PICK m \in kept(k) : \A y \in kept(k) : m <= y
      <4>1. kept(k) \subseteq Nat OBVIOUS
      <4> HIDE DEF kept
      <4> QED BY <4>1, LeastNatural
    <3>2. PICK j \in 1 .. End(k) : g[m][j] # g[k][j] BY <3>1
    <3>3. m # k BY <3>2
    <3>4. m \in 1 .. n /\ m - 1 \in k .. n /\ m - 1 \in 0 .. n /\ ~(m <= m - 1)
      BY <1>1, <3>1, <3>3
    <3>5. g[m - 1][j] = g[k][j] BY <3>1, <3>2, <3>4
    <3>6. End(k) \in Nat /\ End(m - 1) \in Nat /\ End(k) <= End(m - 1) BY <1>3, <1>8, <3>4
    <3>7. j \in 1 .. Len(g[m - 1]) /\ Len(g[m - 1]) \in Nat /\ Len(seqs[m]) \in Nat
      <4>1. Len(g[m - 1]) = End(m - 1) /\ Len(seqs[m]) \in Nat BY <1>1, <2>5, <3>4
      <4>2. PICK e \in Nat : e = End(k) BY <3>6
      <4>3. PICK d \in Nat : d = End(m - 1) BY <3>6
      <4>4. j \in 1 .. e /\ e <= d BY <3>6, <4>2, <4>3
      <4>5. j \in 1 .. d BY <4>4
      <4> QED BY <4>1, <4>3, <4>5
    <3>8. j \in 1 .. Len(g[m - 1]) + Len(seqs[m]) /\ j <= Len(g[m - 1])
      <4>1. PICK d \in Nat : d = Len(g[m - 1]) BY <3>7
      <4>2. PICK e \in Nat : e = Len(seqs[m]) BY <3>7
      <4>3. j \in 1 .. d BY <3>7, <4>1
      <4>4. j \in 1 .. d + e /\ j <= d BY <4>3
      <4> QED BY <4>1, <4>2, <4>4
    <3>9. g[m][j] = g[m - 1][j] BY <2>3, <3>4, <3>8
    <3> QED BY <3>2, <3>5, <3>9
  <2>7. ASSUME NEW k \in 1 .. n, NEW j \in 1 .. Len(seqs[k])
        PROVE  g[n][End(k - 1) + j] = seqs[k][j]
    <3>1. k - 1 \in 0 .. n /\ k \in 0 .. n BY <1>1
    <3>2. End(k - 1) \in Nat /\ Len(seqs[k]) \in Nat /\ Len(g[k - 1]) = End(k - 1)
      BY <1>1, <1>3, <2>5, <3>1
    <3>3. PICK x \in Nat : x = End(k - 1) + j BY <3>2
    <3>4. /\ x \in 1 .. End(k - 1) + Len(seqs[k]) /\ ~(x <= End(k - 1)) /\ x - End(k - 1) = j
      <4>1. PICK d \in Nat : d = End(k - 1) BY <3>2
      <4>2. PICK e \in Nat : e = Len(seqs[k]) BY <3>2
      <4>3. j \in 1 .. e /\ x = d + j BY <3>3, <4>1, <4>2
      <4>4. x \in 1 .. d + e /\ ~(x <= d) /\ x - d = j BY <4>3
      <4> QED BY <4>1, <4>2, <4>4
    <3>5. g[k][x] = seqs[k][j] BY <2>3, <3>2, <3>4
    <3>6. x \in 1 .. End(k) BY <1>4, <3>4
    <3>7. n \in k .. n BY <1>1
    <3>8. n \notin kept(k) BY <2>6, <3>1
    <3>9. g[n][x] = g[k][x] BY <3>6, <3>7, <3>8
    <3> QED BY <3>3, <3>5, <3>9
  <2>8. n \in 0 .. n BY <1>1
  <2>9. FlattenSeq(seqs) \in Seq(S) /\ Len(FlattenSeq(seqs)) = End(n)
    BY <2>1, <2>2, <2>5, <2>8
  <2>10. \A k \in 1 .. n : \A j \in 1 .. Len(seqs[k]) : FlattenSeq(seqs)[End(k - 1) + j] = seqs[k][j]
    BY <2>1, <2>7
  <2> QED BY <1>3, <1>4, <2>9, <2>10 DEF End, lens, n
<1> QED BY <1>6, <1>7

-----------------------------------------------------------------------------
(* Varints and the byte that holds a width.                                 *)

\* A width is kept in its byte.
LEMMA WidthByte ==
  ASSUME NEW w \in 0 .. WordBits
  PROVE  BitsOf(w) \in Byte /\ NumberOf(BitsOf(w)) = w
<1>1. WordBits \in Nat /\ ByteBits \in Nat BY WidthsAssumption
<1>2. PICK p \in Nat : p = 2 ^ WordBits BY <1>1, Powers
<1>3. PICK q \in Nat : q = 2 ^ ByteBits BY <1>1, Powers
<1>4. WordBits < p /\ WordBits < q BY <1>1, <1>2, <1>3, PowerAbove, NumbersAssumption
<1>5. w \in Nat /\ w < p /\ w < q BY <1>1, <1>4
<1> QED BY <1>1, <1>2, <1>3, <1>5, BitsBelow, NumberIs DEF Byte

\* The bytes of a varint: all but the last say that there are more, and
\* together they hold the word.
LEMMA UlebKeepsWord ==
  ASSUME NEW word, word \subseteq Low(WordBits)
  PROVE  /\ UlebSize(word) \in Nat \ {0}
         /\ UlebOf(word) \in Seq(Byte) /\ Len(UlebOf(word)) = UlebSize(word)
         /\ \A k \in 1 .. UlebSize(word) : More \in UlebOf(word)[k] <=> k < UlebSize(word)
         /\ UlebValue(UlebOf(word)) = word
<1> DEFINE n == UlebSize(word)
           bytes == UlebOf(word)
           Part(k) == Right(word, More * (k - 1)) \cap Low(More)
<1>1. /\ ByteBits \in Nat /\ WordBits \in Nat /\ More \in Nat \ {0} /\ More < ByteBits
      /\ word \subseteq Nat /\ Low(More) = 0 .. More - 1 /\ word \subseteq 0 .. WordBits - 1
      /\ More \in Low(ByteBits) /\ Low(More) \subseteq Low(ByteBits) /\ More \notin Low(More)
  BY WidthsAssumption, NumbersAssumption DEF More, Low
<1>2. n \in Nat \ {0} /\ \A x \in word : x \div More \in 0 .. n - 1
  <2>1. CASE word = {} BY <2>1 DEF UlebSize
  <2>2. CASE word # {}
    <3>1. Top(word) \in Nat /\ \A x \in word : x <= Top(word) BY <1>1, <2>2, TopOfWord
    <3> DEFINE q == Top(word) \div More
    <3>2. Top(word) = More * q + (Top(word) % More) /\ q \in Nat /\ Top(word) % More \in 0 .. More - 1
      BY <1>1, <3>1, DivMod
    <3>3. n = q + 1 BY <2>2 DEF UlebSize
    <3> DEFINE r == Top(word) % More
    <3> HIDE DEF q, r, n
    <3>4. \A x \in word : x < More * (q + 1)
      <4> TAKE x \in word
      <4>1. More * (q + 1) = More * q + More BY <1>1, <3>2
      <4>2. PICK c \in Nat : c = More * q BY <1>1, <3>2
      <4>3. Top(word) = c + r /\ r \in 0 .. More - 1 BY <3>2, <4>2 DEF r
      <4>4. x \in Nat /\ x <= Top(word) BY <1>1, <3>1
      <4>5. x < c + More BY <1>1, <4>2, <4>3, <4>4
      <4> QED BY <4>1, <4>2, <4>5
    <3>5. \A x \in word : x \div More \in 0 .. (q + 1) - 1
      <4> TAKE x \in word
      <4>1. x \in Nat /\ q + 1 \in Nat BY <1>1, <3>2
      <4> QED BY <1>1, <3>4, <4>1, ByteBefore
    <3> QED BY <3>2, <3>3, <3>5
  <2> QED BY <2>1, <2>2
<1> HIDE DEF n
<1>3. bytes = [k \in 1 .. n |-> Part(k) \cup {b \in {More} : k < n}] BY DEF UlebOf, n
<1>4. \A k \in 1 .. n :
        /\ bytes[k] = Part(k) \cup {b \in {More} : k < n} /\ bytes[k] \in Byte
        /\ More \in bytes[k] <=> k < n
        /\ bytes[k] \ {More} = Part(k)
  <2> TAKE k \in 1 .. n
  <2>1. bytes[k] = Part(k) \cup {b \in {More} : k < n} BY <1>3
  <2>2. Part(k) \subseteq Low(More) OBVIOUS
  <2> HIDE DEF Part, bytes
  <2> QED BY <1>1, <2>1, <2>2 DEF Byte
<1> HIDE DEF bytes, Part
<1>5. bytes \in Seq(Byte) /\ Len(bytes) = n /\ DOMAIN bytes = 1 .. n
  <2>1. bytes \in [1 .. n -> Byte] BY <1>3, <1>4
  <2> QED BY <1>2, <2>1
<1>6. \A k \in 1 .. n : \A x \in Int :
        x \in Part(k) <=> x \in Low(More) /\ x + More * (k - 1) \in word
  <2> TAKE k \in 1 .. n
  <2> TAKE x \in Int
  <2>1. PICK c \in Nat : c = More * (k - 1)
    <3>1. k - 1 \in Nat BY <1>2
    <3> QED BY <1>1, <3>1
  <2>2. x \in Right(word, c) <=> x >= 0 /\ x + c \in word
    <3>1. word \subseteq Int BY <1>1
    <3> QED BY <3>1, RightBits
  <2>3. Part(k) = Right(word, c) \cap Low(More) BY <2>1 DEF Part
  <2> QED BY <1>1, <2>1, <2>2, <2>3
<1>7. ASSUME NEW x \in UlebValue(bytes) PROVE x \in word
  <2>1. PICK k \in 1 .. n : x \in Left(bytes[k] \ {More}, More * (k - 1), WordBits)
    BY <1>5 DEF UlebValue
  <2>2. PICK c \in Nat : c = More * (k - 1)
    <3>1. k - 1 \in Nat BY <1>2
    <3> QED BY <1>1, <3>1
  <2>3. PICK b \in Part(k) : x = b + c BY <1>4, <2>1, <2>2 DEF Left
  <2>4. b \in Int BY <1>1 DEF Part
  <2>5. b + c \in word BY <1>6, <2>2, <2>4
  <2> QED BY <2>3, <2>5
<1>8. ASSUME NEW x \in word PROVE x \in UlebValue(bytes)
  <2> DEFINE q == x \div More
             r == x % More
             k == q + 1
  <2>1. x = More * q + r /\ q \in Nat /\ r \in 0 .. More - 1 BY <1>1, DivMod
  <2>2. q \in 0 .. n - 1 BY <1>2
  <2> HIDE DEF q, r
  <2>3. k \in 1 .. n /\ k - 1 = q BY <1>2, <2>2
  <2>4. PICK c \in Nat : c = More * q BY <1>1, <2>1
  <2>5. r \in Int /\ r \in Low(More) /\ x = r + c /\ x \in Low(WordBits)
    BY <1>1, <2>1, <2>4 DEF Low
  <2> HIDE DEF k
  <2>6. r + More * (k - 1) \in word BY <2>3, <2>4, <2>5
  <2>7. r \in Part(k) BY <1>6, <2>3, <2>5, <2>6
  <2>8. x \in Left(Part(k), c, WordBits) BY <2>5, <2>7 DEF Left
  <2>9. x \in Left(bytes[k] \ {More}, More * (k - 1), WordBits) BY <1>4, <2>3, <2>4, <2>8
  <2> QED BY <1>5, <2>3, <2>9 DEF UlebValue
<1>9. UlebValue(bytes) = word BY <1>7, <1>8
<1> QED BY <1>2, <1>4, <1>5, <1>9 DEF bytes, n

-----------------------------------------------------------------------------
(* The blobs of an EncodedArray and where they lie in the file.             *)

\* The values blob is a packed list and, behind the ends of byte strings, the
\* strings.
Words(a) == IF a.kind = "bytes" THEN Numbers(Cum(a.values)) ELSE a.values
WordWidth(a) == IF a.kind = "bytes" THEN BitWidth(Words(a)[Len(Words(a))]) ELSE WidthFor(a.values)
Strings(a) == IF a.kind = "bytes" THEN FlattenSeq(a.values) ELSE <<>>
PositionWidth(a) == BitWidth(BitsOf(IF a.domain > 0 THEN a.domain - 1 ELSE 0))
CountBytes(a) == UlebOf(BitsOf(Len(a.positions)))

\* A list behind the byte of its width.
LEMMA PackedList ==
  ASSUME NEW words, Len(words) \in Nat, NEW w \in 0 .. WordBits
  PROVE  LET list == Packed(words, w) IN
         /\ list \in Seq(Byte) /\ Len(list) = 1 + BytesFor(Len(words), w)
         /\ BytesFor(Len(words), w) \in Nat /\ list[1] = BitsOf(w)
         /\ \A k \in 1 .. BytesFor(Len(words), w) : list[1 + k] = PackBits(words, w)[k]
<1>1. w \in Nat BY WidthsAssumption
<1>2. PackBits(words, w) \in Seq(Byte) /\ Len(PackBits(words, w)) = BytesFor(Len(words), w)
  BY <1>1, PackedBytes
<1>3. PICK packed \in Seq(Byte) : packed = PackBits(words, w) BY <1>2
<1>4. Len(packed) = BytesFor(Len(words), w) /\ Len(packed) \in Nat
  BY <1>2, <1>3, LenProperties
<1>5. PICK byte \in Byte : byte = BitsOf(w) BY WidthByte
<1>6. <<byte>> \in Seq(Byte) /\ Len(<<byte>>) = 1 /\ <<byte>>[1] = byte OBVIOUS
<1>7. PICK list \in Seq(Byte) : list = <<byte>> \o packed BY <1>6, ConcatProperties
<1>8. /\ Len(list) = 1 + Len(packed)
      /\ \A k \in 1 .. 1 + Len(packed) : list[k] = IF k <= 1 THEN <<byte>>[k] ELSE packed[k - 1]
  BY <1>6, <1>7, ConcatProperties
<1>9. list[1] = byte BY <1>4, <1>6, <1>8
<1>10. \A k \in 1 .. Len(packed) : list[1 + k] = packed[k]
  <2> TAKE k \in 1 .. Len(packed)
  <2>1. 1 + k \in 1 .. 1 + Len(packed) /\ ~(1 + k <= 1) /\ (1 + k) - 1 = k BY <1>4
  <2> QED BY <1>8, <2>1
<1>11. Packed(words, w) = list BY <1>3, <1>5, <1>7 DEF Packed
<1> QED BY <1>3, <1>4, <1>5, <1>8, <1>9, <1>10, <1>11

\* The sums of the lengths fit a word, and the greatest is the last.
LEMMA CumFacts ==
  ASSUME NEW a \in Arrays, a.kind = "bytes"
  PROVE  LET n == Len(a.values)
             cum == Cum(a.values) IN
         /\ n \in Nat /\ Len(cum) = n + 1 /\ cum = [k \in 1 .. n + 1 |-> cum[k]]
         /\ \A k \in 1 .. n + 1 : cum[k] \in Nat /\ cum[k] <= cum[n + 1]
         /\ cum[n + 1] = Len(FlattenSeq(a.values)) /\ cum[n + 1] < 2 ^ WordBits
         /\ FlattenSeq(a.values) \in Seq(Byte)
         /\ \A k \in 1 .. n :
              /\ a.values[k] \in Seq(Byte) /\ cum[k + 1] = cum[k] + Len(a.values[k])
              /\ \A j \in 1 .. Len(a.values[k]) : FlattenSeq(a.values)[cum[k] + j] = a.values[k][j]
<1> DEFINE n == Len(a.values)
           cum == Cum(a.values)
           End(k) == SumFunctionOnSet(Lens(a.values), 1 .. k)
<1>1. a.values \in Seq(Seq(Byte)) /\ Len(FlattenSeq(a.values)) < 2 ^ WordBits
  BY ArraysAssumption
<1>2. PICK seqs \in Seq(Seq(Byte)) : seqs = a.values BY <1>1
<1>3. n \in Nat /\ \A k \in 1 .. n : a.values[k] \in Seq(Byte)
  BY <1>2, LenProperties, ElementOfSeq
<1>4. /\ FlattenSeq(a.values) \in Seq(Byte) /\ Len(FlattenSeq(a.values)) = End(n)
      /\ \A k \in 0 .. n : End(k) \in Nat /\ End(k) <= End(n)
      /\ \A k \in 1 .. n :
           /\ End(k) = End(k - 1) + Len(a.values[k])
           /\ \A j \in 1 .. Len(a.values[k]) : FlattenSeq(a.values)[End(k - 1) + j] = a.values[k][j]
  BY <1>2, FlattenedParts
<1>5. cum = [k \in 1 .. n + 1 |-> End(k - 1)] BY DEF Cum
<1> HIDE DEF cum, End, n
<1>6. Len(cum) = n + 1 /\ \A k \in 1 .. n + 1 : cum[k] = End(k - 1) BY <1>3, <1>5
<1>7. cum[n + 1] = End(n) BY <1>3, <1>6
<1>8. \A k \in 1 .. n + 1 : k - 1 \in 0 .. n BY <1>3
<1>9. \A k \in 1 .. n : k + 1 \in 1 .. n + 1 /\ (k + 1) - 1 = k /\ k \in 1 .. n + 1 BY <1>3
<1>10. \A k \in 1 .. n + 1 : cum[k] \in Nat /\ cum[k] <= cum[n + 1]
  BY <1>4, <1>6, <1>7, <1>8
<1>11. \A k \in 1 .. n : cum[k + 1] = End(k) /\ cum[k] = End(k - 1) BY <1>6, <1>9
<1>12. cum = [k \in 1 .. n + 1 |-> cum[k]] BY <1>5
<1> QED BY <1>1, <1>3, <1>4, <1>6, <1>7, <1>10, <1>11, <1>12 DEF cum, n

\* The list of the values blob fits its width.
LEMMA WordsFit ==
  ASSUME NEW a \in Arrays
  PROVE  /\ WordWidth(a) \in 0 .. WordBits /\ Len(a.values) \in Nat /\ Len(Words(a)) \in Nat
         /\ Len(Words(a)) = Len(a.values) + (IF a.kind = "bytes" THEN 1 ELSE 0)
         /\ \A k \in 1 .. Len(Words(a)) : Words(a)[k] \subseteq Low(WordWidth(a))
         /\ Strings(a) \in Seq(Byte)
<1>1. CASE a.kind = "bytes"
  <2> DEFINE n == Len(a.values)
             cum == Cum(a.values)
             words == Words(a)
  <2>1. /\ n \in Nat /\ Len(cum) = n + 1 /\ cum = [k \in 1 .. n + 1 |-> cum[k]]
        /\ \A k \in 1 .. n + 1 : cum[k] \in Nat /\ cum[k] <= cum[n + 1]
        /\ cum[n + 1] < 2 ^ WordBits /\ FlattenSeq(a.values) \in Seq(Byte)
    BY <1>1, CumFacts
  <2>2. words = [k \in DOMAIN cum |-> BitsOf(cum[k])] BY <1>1 DEF Words, Numbers
  <2> HIDE DEF cum, words, n
  <2>3. words = [k \in 1 .. n + 1 |-> BitsOf(cum[k])] BY <2>1, <2>2
  <2>4. Len(words) \in Nat /\ Len(words) = n + 1 /\ n + 1 \in 1 .. n + 1 /\ \A k \in 1 .. n + 1 : words[k] = BitsOf(cum[k])
    BY <2>1, <2>3
  <2>5. PICK last \in Nat : last = cum[n + 1] BY <2>1, <2>4
  <2>6. WordWidth(a) = BitWidth(BitsOf(last)) BY <1>1, <2>4, <2>5 DEF WordWidth, words
  <2>7. \A k \in 1 .. n + 1 : words[k] \subseteq Low(WordWidth(a))
    <3> TAKE k \in 1 .. n + 1
    <3>1. cum[k] \in 0 .. last BY <2>1, <2>5
    <3>2. BitsOf(cum[k]) \subseteq Low(BitWidth(BitsOf(last)))
      BY <2>1, <2>5, <3>1, WidthSuffices
    <3> QED BY <2>4, <2>6, <3>2
  <2>8. WordWidth(a) \in 0 .. WordBits
    <3>1. BitsOf(last) \subseteq Low(WordBits) BY DEF BitsOf
    <3> QED BY <2>6, <3>1, BitWidthCovers
  <2> QED BY <1>1, <2>1, <2>4, <2>7, <2>8 DEF words, n, Strings
<1>2. CASE a.kind # "bytes"
  <2>1. a.values \in Seq(Word) BY <1>2, ArraysAssumption
  <2>2. Len(a.values) \in Nat BY <2>1, LenProperties
  <2> QED BY <1>2, <2>1, <2>2, WidthForHolds, EmptySeq DEF Words, WordWidth, Strings
<1> QED BY <1>1, <1>2

\* What is at which index of the values blob.
LEMMA ValuesBlobIs ==
  ASSUME NEW a \in Arrays
  PROVE  LET n == BytesFor(Len(Words(a)), WordWidth(a)) IN
         /\ n \in Nat /\ ValuesBlob(a) \in Seq(Byte) /\ Len(Strings(a)) \in Nat
         /\ Len(ValuesBlob(a)) = 1 + n + Len(Strings(a))
         /\ ValuesBlob(a)[1] = BitsOf(WordWidth(a))
         /\ \A k \in 1 .. n : ValuesBlob(a)[1 + k] = PackBits(Words(a), WordWidth(a))[k]
         /\ \A k \in 1 .. Len(Strings(a)) : ValuesBlob(a)[1 + n + k] = Strings(a)[k]
<1> DEFINE w == WordWidth(a)
           n == BytesFor(Len(Words(a)), w)
<1>1. w \in 0 .. WordBits /\ Len(Words(a)) \in Nat /\ Strings(a) \in Seq(Byte) BY WordsFit
<1>2. PICK strings \in Seq(Byte) : strings = Strings(a) BY <1>1
<1>3. /\ Packed(Words(a), w) \in Seq(Byte) /\ Len(Packed(Words(a), w)) = 1 + n
      /\ n \in Nat /\ Packed(Words(a), w)[1] = BitsOf(w)
      /\ \A k \in 1 .. n : Packed(Words(a), w)[1 + k] = PackBits(Words(a), w)[k]
  BY <1>1, PackedList
<1>4. PICK list \in Seq(Byte) : list = Packed(Words(a), w) BY <1>3
<1>5. ValuesBlob(a) = list \o strings
  <2>1. CASE a.kind = "bytes" BY <1>2, <1>4, <2>1 DEF ValuesBlob, Words, WordWidth, Strings
  <2>2. CASE a.kind # "bytes"
    <3>1. ValuesBlob(a) = list /\ strings = <<>>
      BY <1>2, <1>4, <2>2 DEF ValuesBlob, Words, WordWidth, Strings
    <3> QED BY <3>1, ConcatEmptySeq
  <2> QED BY <2>1, <2>2
<1>6. PICK wire \in Seq(Byte) : wire = ValuesBlob(a) BY <1>5, ConcatProperties
<1> HIDE DEF n
<1>7. Len(strings) \in Nat /\ Len(list) = 1 + n BY <1>3, <1>4, LenProperties
<1>8. /\ Len(wire) = Len(list) + Len(strings)
      /\ \A k \in 1 .. Len(list) + Len(strings) :
           wire[k] = IF k <= Len(list) THEN list[k] ELSE strings[k - Len(list)]
  BY <1>5, <1>6, ConcatProperties
<1>9. Len(wire) = 1 + n + Len(strings) BY <1>3, <1>7, <1>8
<1>10. \A k \in 1 .. 1 + n : wire[k] = list[k]
  <2> TAKE k \in 1 .. 1 + n
  <2>1. k \in 1 .. Len(list) + Len(strings) /\ k <= Len(list) BY <1>3, <1>7
  <2> QED BY <1>8, <2>1
<1>11. \A k \in 1 .. Len(strings) : wire[1 + n + k] = strings[k]
  <2> TAKE k \in 1 .. Len(strings)
  <2>1. PICK x \in Nat : x = 1 + n + k BY <1>3, <1>7
  <2>2. x \in 1 .. Len(list) + Len(strings) /\ ~(x <= Len(list)) /\ x - Len(list) = k
    BY <1>3, <1>7, <2>1
  <2> QED BY <1>8, <2>1, <2>2
<1>12. \A k \in 1 .. n : 1 + k \in 1 .. 1 + n BY <1>3
<1>13. 1 \in 1 .. 1 + n BY <1>3
<1> QED BY <1>2, <1>3, <1>4, <1>6, <1>7, <1>9, <1>10, <1>11, <1>12, <1>13 DEF n

\* A position fits its width, and there are no more of them than the domain.
LEMMA PositionsFit ==
  ASSUME NEW a \in Arrays
  PROVE  /\ Len(a.positions) \in Nat /\ DOMAIN a.positions = 1 .. Len(a.positions)
         /\ Len(a.positions) < 2 ^ WordBits
         /\ PositionWidth(a) \in 0 .. WordBits
         /\ Len(Numbers(a.positions)) = Len(a.positions)
         /\ \A k \in 1 .. Len(a.positions) :
              /\ a.positions[k] \in Low(a.domain)
              /\ Numbers(a.positions)[k] \subseteq Low(PositionWidth(a))
              /\ NumberOf(Numbers(a.positions)[k]) = a.positions[k]
<1> DEFINE n == Len(a.positions)
           numbers == Numbers(a.positions)
           last == IF a.domain > 0 THEN a.domain - 1 ELSE 0
<1>1. /\ a.domain \in Nat /\ a.domain < 2 ^ WordBits
      /\ a.positions \in Seq(Low(a.domain)) /\ IsInjective(a.positions)
  BY ArraysAssumption
<1>2. n \in Nat /\ DOMAIN a.positions = 1 .. n /\ a.positions \in [1 .. n -> Low(a.domain)]
  BY <1>1, LenProperties
<1>3. PICK d \in Nat : d = a.domain BY <1>1
<1> HIDE DEF n
<1>4. n <= d
  <2>1. a.positions \in Injection(1 .. n, Low(d))
    BY <1>1, <1>2, <1>3 DEF Injection, IsInjective
  <2>2. Low(d) = 0 .. d - 1 BY DEF Low
  <2>3. IsFiniteSet(Low(d)) /\ Cardinality(Low(d)) = d
    <3>1. 0 \in Int /\ d - 1 \in Int BY <1>3
    <3>2. IsFiniteSet(0 .. d - 1) /\ Cardinality(0 .. d - 1) = IF 0 > d - 1 THEN 0 ELSE d - 1 - 0 + 1
      BY <3>1, FS_Interval
    <3> QED BY <1>3, <2>2, <3>2
  <2>4. Cardinality(1 .. n) <= Cardinality(Low(d)) BY <2>1, <2>3, FS_Injection
  <2>5. Cardinality(1 .. n) = n
    <3>1. 1 \in Int /\ n \in Int BY <1>2
    <3>2. Cardinality(1 .. n) = IF 1 > n THEN 0 ELSE n - 1 + 1 BY <3>1, FS_Interval
    <3> QED BY <1>2, <3>2
  <2> QED BY <2>3, <2>4, <2>5
<1>5. PICK p \in Nat : p = 2 ^ WordBits BY WidthsAssumption, Powers
<1>6. d < p /\ n < p BY <1>1, <1>2, <1>3, <1>4, <1>5
<1>7. last \in Nat /\ last < p BY <1>3, <1>6, <1>1, <1>5, Powers
<1>8. numbers = [k \in 1 .. n |-> BitsOf(a.positions[k])] BY <1>2 DEF Numbers
<1> HIDE DEF numbers
<1>9. Len(numbers) = n /\ \A k \in 1 .. n : numbers[k] = BitsOf(a.positions[k])
  BY <1>2, <1>8
<1>10. PositionWidth(a) = BitWidth(BitsOf(last)) BY DEF PositionWidth
<1>11. PositionWidth(a) \in 0 .. WordBits
  <2>1. BitsOf(last) \subseteq Low(WordBits) BY DEF BitsOf
  <2> QED BY <1>10, <2>1, BitWidthCovers
<1>12. ASSUME NEW k \in 1 .. n
       PROVE  /\ a.positions[k] \in Low(a.domain)
              /\ numbers[k] \subseteq Low(PositionWidth(a))
              /\ NumberOf(numbers[k]) = a.positions[k]
  <2>1. PICK x \in Low(d) : x = a.positions[k] BY <1>2, <1>3
  <2>2. x \in Nat /\ x < p /\ x \in 0 .. last BY <1>3, <1>6 DEF Low
  <2> HIDE DEF last
  <2>3. BitsOf(x) \subseteq Low(BitWidth(BitsOf(last))) BY <1>5, <1>7, <2>2, WidthSuffices
  <2>4. NumberOf(BitsOf(x)) = x BY <1>5, <2>2, NumberIs
  <2> QED BY <1>3, <1>9, <1>10, <2>1, <2>3, <2>4
<1> QED BY <1>2, <1>5, <1>6, <1>9, <1>11, <1>12 DEF n, numbers

\* What is at which index of the presence blob.
LEMMA PresenceBlobIs ==
  ASSUME NEW a \in Arrays, a.kind # "dense"
  PROVE  LET n == Len(a.positions)
             m == UlebSize(BitsOf(n))
             b == BytesFor(n, PositionWidth(a)) IN
         /\ m \in Nat \ {0} /\ b \in Nat /\ PresenceBlob(a) \in Seq(Byte)
         /\ Len(PresenceBlob(a)) = m + 1 + b
         /\ \A k \in 1 .. m : PresenceBlob(a)[k] = CountBytes(a)[k]
         /\ CountBytes(a) = [k \in 1 .. m |-> CountBytes(a)[k]]
         /\ \A k \in 1 .. m : More \in CountBytes(a)[k] <=> k < m
         /\ NumberOf(UlebValue(CountBytes(a))) = n
         /\ PresenceBlob(a)[m + 1] = BitsOf(PositionWidth(a))
         /\ \A k \in 1 .. b : PresenceBlob(a)[m + 1 + k] = PackBits(Numbers(a.positions), PositionWidth(a))[k]
<1> DEFINE n == Len(a.positions)
           w == PositionWidth(a)
           m == UlebSize(BitsOf(n))
           b == BytesFor(n, w)
           words == Numbers(a.positions)
<1>1. n \in Nat /\ n < 2 ^ WordBits /\ w \in 0 .. WordBits /\ Len(words) = n BY PositionsFit
<1>2. BitsOf(n) \subseteq Low(WordBits) /\ NumberOf(BitsOf(n)) = n
  BY <1>1, NumberIs DEF BitsOf
<1>3. /\ m \in Nat \ {0} /\ CountBytes(a) \in Seq(Byte) /\ Len(CountBytes(a)) = m
      /\ \A k \in 1 .. m : More \in CountBytes(a)[k] <=> k < m
      /\ UlebValue(CountBytes(a)) = BitsOf(n)
  BY <1>2, UlebKeepsWord DEF CountBytes
<1>4. /\ Packed(words, w) \in Seq(Byte) /\ Len(Packed(words, w)) = 1 + b
      /\ b \in Nat /\ Packed(words, w)[1] = BitsOf(w)
      /\ \A k \in 1 .. b : Packed(words, w)[1 + k] = PackBits(words, w)[k]
  <2>1. Len(words) \in Nat BY <1>1
  <2> QED BY <1>1, <2>1, PackedList
<1>5. PresenceBlob(a) = CountBytes(a) \o Packed(words, w)
  BY DEF PresenceBlob, CountBytes, PositionWidth
<1>6. PICK count \in Seq(Byte) : count = CountBytes(a) BY <1>3
<1>7. PICK list \in Seq(Byte) : list = Packed(words, w) BY <1>4
<1>8. PICK wire \in Seq(Byte) : wire = count \o list BY ConcatProperties
<1>9. /\ Len(wire) = Len(count) + Len(list)
      /\ \A k \in 1 .. Len(count) + Len(list) :
           wire[k] = IF k <= Len(count) THEN count[k] ELSE list[k - Len(count)]
  BY <1>8, ConcatProperties
<1> HIDE DEF n, m, b
<1>10. Len(count) = m /\ Len(list) = 1 + b /\ m \in Nat \ {0} /\ b \in Nat
  BY <1>3, <1>4, <1>6, <1>7
<1>11. Len(wire) = m + 1 + b BY <1>9, <1>10
<1>12. \A k \in 1 .. m : wire[k] = count[k]
  <2> TAKE k \in 1 .. m
  <2>1. k \in 1 .. Len(count) + Len(list) /\ k <= Len(count) BY <1>10
  <2> QED BY <1>9, <2>1
<1>13. \A k \in 1 .. 1 + b : wire[m + k] = list[k]
  <2> TAKE k \in 1 .. 1 + b
  <2>1. PICK x \in Nat : x = m + k BY <1>10
  <2>2. x \in 1 .. Len(count) + Len(list) /\ ~(x <= Len(count)) /\ x - Len(count) = k
    BY <1>10, <2>1
  <2> QED BY <1>9, <2>1, <2>2
<1>14. \A k \in 1 .. b : wire[m + 1 + k] = list[1 + k]
  <2> TAKE k \in 1 .. b
  <2>1. 1 + k \in 1 .. 1 + b /\ m + (1 + k) = m + 1 + k BY <1>10
  <2> QED BY <1>13, <2>1
<1>15. 1 \in 1 .. 1 + b BY <1>10
<1>16. count = [k \in 1 .. m |-> count[k]] BY <1>10, LenProperties
<1>17. PresenceBlob(a) = wire BY <1>5, <1>6, <1>7, <1>8
<1>18. wire[m + 1] = BitsOf(w) BY <1>4, <1>7, <1>13, <1>15
<1>19. \A k \in 1 .. b : wire[m + 1 + k] = PackBits(words, w)[k] BY <1>4, <1>7, <1>14
<1>20. \A k \in 1 .. m : wire[k] = CountBytes(a)[k] BY <1>6, <1>12
<1>21. CountBytes(a) = [k \in 1 .. m |-> CountBytes(a)[k]] BY <1>6, <1>16
<1>22. NumberOf(UlebValue(CountBytes(a))) = n BY <1>2, <1>3 DEF n
<1> QED BY <1>3, <1>10, <1>11, <1>17, <1>18, <1>19, <1>20, <1>21, <1>22 DEF n, m, b

-----------------------------------------------------------------------------
(* Reading from the file.                                                   *)

\* The blobs and what lies between and behind them.
InFile ==
  /\ array \in Arrays
  /\ buf = ValuesBlob(array) \o Between \o PresenceBlob(array) \o After
  /\ spans = [values |-> [at |-> 0, size |-> Len(ValuesBlob(array))],
              presence |-> [at |-> Len(ValuesBlob(array) \o Between),
                            size |-> Len(PresenceBlob(array))]]

\* What is at which index of the file.
LEMMA FileIs ==
  ASSUME InFile
  PROVE  LET v == Len(ValuesBlob(array))
             p == Len(PresenceBlob(array))
             at == spans.presence.at IN
         /\ buf \in Seq(Byte) /\ Len(buf) \in Nat /\ v \in Nat /\ p \in Nat /\ at \in Nat /\ v <= at
         /\ spans.values.at = 0 /\ spans.values.size = v
         /\ at + p + Len(After) = Len(buf) /\ Len(After) \in Nat /\ Len(After) >= Window - 1
         /\ \A k \in 1 .. v : buf[k] = ValuesBlob(array)[k]
         /\ \A k \in 1 .. p : buf[at + k] = PresenceBlob(array)[k]
<1>1. ValuesBlob(array) \in Seq(Byte) BY ValuesBlobIs DEF InFile
<1>2. PresenceBlob(array) \in Seq(Byte)
  <2>1. CASE array.kind = "dense" BY <2>1, EmptySeq DEF PresenceBlob
  <2>2. CASE array.kind # "dense" BY <2>2, PresenceBlobIs DEF InFile
  <2> QED BY <2>1, <2>2
<1>3. PICK a \in Seq(Byte) : a = ValuesBlob(array) BY <1>1
<1>4. PICK c \in Seq(Byte) : c = PresenceBlob(array) BY <1>2
<1>5. Between \in Seq(Byte) /\ After \in Seq(Byte) /\ Len(After) >= Window - 1
  BY ArraysAssumption
<1>6. PICK ab \in Seq(Byte) : ab = a \o Between BY <1>5, ConcatProperties
<1>7. PICK abc \in Seq(Byte) : abc = ab \o c BY ConcatProperties
<1>8. abc \o After \in Seq(Byte) /\ Len(abc \o After) = Len(abc) + Len(After)
      /\ \A k \in 1 .. Len(abc) + Len(After) :
           (abc \o After)[k] = IF k <= Len(abc) THEN abc[k] ELSE After[k - Len(abc)]
  BY <1>5, ConcatProperties
<1>9. buf = abc \o After BY <1>3, <1>4, <1>6, <1>7 DEF InFile
<1>10. /\ buf \in Seq(Byte) /\ Len(buf) = Len(abc) + Len(After)
       /\ \A k \in 1 .. Len(abc) + Len(After) :
            buf[k] = IF k <= Len(abc) THEN abc[k] ELSE After[k - Len(abc)]
  BY <1>8, <1>9, Zenon
<1>11. /\ Len(abc) = Len(ab) + Len(c)
       /\ \A k \in 1 .. Len(ab) + Len(c) : abc[k] = IF k <= Len(ab) THEN ab[k] ELSE c[k - Len(ab)]
  BY <1>7, ConcatProperties
<1>12. /\ Len(ab) = Len(a) + Len(Between)
       /\ \A k \in 1 .. Len(a) + Len(Between) :
            ab[k] = IF k <= Len(a) THEN a[k] ELSE Between[k - Len(a)]
  BY <1>5, <1>6, ConcatProperties
<1>13. /\ Len(a) \in Nat /\ Len(ab) \in Nat /\ Len(abc) \in Nat /\ Len(c) \in Nat
       /\ Len(After) \in Nat /\ Len(Between) \in Nat /\ Len(buf) \in Nat
  BY <1>5, <1>10, LenProperties
<1>14. /\ spans.presence.at = Len(ab) /\ spans.values.at = 0 /\ spans.values.size = Len(a)
  BY <1>3, <1>6 DEF InFile
<1>15. \A k \in 1 .. Len(a) : buf[k] = a[k]
  <2> TAKE k \in 1 .. Len(a)
  <2>1. k \in 1 .. Len(a) + Len(Between) /\ k <= Len(a) BY <1>13
  <2>2. k \in 1 .. Len(ab) + Len(c) /\ k <= Len(ab) BY <1>12, <1>13
  <2>3. k \in 1 .. Len(abc) + Len(After) /\ k <= Len(abc) BY <1>11, <1>13, <2>2
  <2> QED BY <1>10, <1>11, <1>12, <2>1, <2>2, <2>3
<1>16. \A k \in 1 .. Len(c) : buf[Len(ab) + k] = c[k]
  <2> TAKE k \in 1 .. Len(c)
  <2>1. PICK x \in Nat : x = Len(ab) + k BY <1>13
  <2>2. x \in 1 .. Len(ab) + Len(c) /\ ~(x <= Len(ab)) /\ x - Len(ab) = k BY <1>13, <2>1
  <2>3. x \in 1 .. Len(abc) + Len(After) /\ x <= Len(abc) BY <1>11, <1>13, <2>2
  <2>4. abc[x] = c[k] BY <1>11, <2>2
  <2> QED BY <1>10, <2>1, <2>3, <2>4
<1>17. Len(a) <= Len(ab) /\ Len(ab) + Len(c) + Len(After) = Len(buf)
  BY <1>10, <1>11, <1>12, <1>13
<1> QED BY <1>3, <1>4, <1>5, <1>10, <1>13, <1>14, <1>15, <1>16, <1>17

\* A window that holds a word is not empty.
LEMMA WindowHolds == Window \in Nat \ {0}
<1>1. /\ ByteBits \in Nat \ {0} /\ Window \in Nat /\ WordBits \in Nat \ {0}
      /\ ByteBits * Window >= WordBits + ByteBits - 1
  BY WidthsAssumption
<1>2. Window # 0
  <2> SUFFICES ASSUME Window = 0 PROVE FALSE OBVIOUS
  <2>1. ByteBits * Window = 0 BY <1>1
  <2>2. 0 >= WordBits + ByteBits - 1 BY <1>1, <2>1
  <2> QED BY <1>1, <2>2
<1> QED BY <1>1, <1>2

\* A packed list in the file reads back and no window leaves the file.
LEMMA ReadAt ==
  ASSUME buf \in Seq(Byte), NEW at \in Nat, NEW s, Len(s) \in Nat, NEW w \in 0 .. WordBits,
         \A k \in 1 .. Len(s) : s[k] \subseteq Low(w), NEW idx \in Low(Len(s)),
         at + BytesFor(Len(s), w) + Window - 1 <= Len(buf),
         \A k \in 1 .. BytesFor(Len(s), w) : buf[at + k] = PackBits(s, w)[k]
  PROVE  /\ BitsAt(at, idx, w) = s[idx + 1]
         /\ LastByte(at, idx, w) \in Nat /\ LastByte(at, idx, w) <= Len(buf)
<1>1. /\ ByteBits \in Nat \ {0} /\ Window \in Nat \ {0} /\ WordBits \in Nat \ {0}
      /\ Len(buf) \in Nat /\ w \in Nat /\ idx \in Nat
  <2>1. ByteBits \in Nat \ {0} /\ WordBits \in Nat \ {0} BY WidthsAssumption
  <2>2. Window \in Nat \ {0} BY WindowHolds
  <2> QED BY <2>1, <2>2, LenProperties DEF Low
<1> DEFINE b == BytesFor(Len(s), w)
           data == [k \in 1 .. LastByte(at, idx, w) - at |-> ByteAt(at + k - 1)]
<1>2. b \in Nat BY <1>1, BytesCover
<1>3. BitsAt(at, idx, w) = ExtractBits(data, idx, w) BY DEF BitsAt
<1>4. CASE w = 0
  <2>1. LastByte(at, idx, w) = at BY <1>4 DEF LastByte
  <2>2. at <= Len(buf)
    <3> HIDE DEF b
    <3>1. at + b + Window - 1 <= Len(buf) BY DEF b
    <3> QED BY <1>1, <1>2, <3>1
  <2> HIDE DEF data
  <2>3. ExtractBits(data, idx, w) = s[idx + 1] BY <1>4, ReadPacked
  <2> QED BY <1>3, <2>1, <2>2, <2>3
<1>5. CASE w # 0
  <2> DEFINE fb == (w * idx) \div ByteBits
  <2>1. fb \in 0 .. b - 1
    <3>1. w \in 1 .. WordBits BY <1>5
    <3> QED BY <3>1, FirstPacked
  <2>2. LastByte(at, idx, w) = at + fb + Window BY <1>5 DEF LastByte
  <2> HIDE DEF fb, b
  <2>3. at + b + Window - 1 <= Len(buf) BY DEF b
  <2>4. /\ LastByte(at, idx, w) \in Nat /\ LastByte(at, idx, w) <= Len(buf)
        /\ LastByte(at, idx, w) - at = fb + Window
    BY <1>1, <1>2, <2>1, <2>2, <2>3
  <2>5. \A k \in 1 .. fb + Window :
          /\ data[k] \subseteq Low(ByteBits)
          /\ k <= b => data[k] = PackBits(s, w)[k]
    <3> TAKE k \in 1 .. fb + Window
    <3>1. data[k] = ByteAt(at + k - 1) BY <2>4
    <3>2. /\ at + k - 1 < Len(buf) /\ (at + k - 1) + 1 = at + k /\ at + k \in 1 .. Len(buf)
          /\ k <= b => k \in 1 .. b
      BY <1>1, <1>2, <2>1, <2>2, <2>4
    <3>3. data[k] = buf[at + k] BY <3>1, <3>2 DEF ByteAt
    <3>4. buf[at + k] \in Byte BY <3>2, ElementOfSeq
    <3> QED BY <3>2, <3>3, <3>4 DEF b, Byte
  <2> HIDE DEF data
  <2>6. ExtractBits(data, idx, w) = s[idx + 1] BY <2>5, ReadPacked DEF fb, b
  <2> QED BY <1>3, <2>4, <2>6
<1> QED BY <1>4, <1>5

\* The list of the values blob, in the file.
LEMMA WordsInFile ==
  ASSUME InFile
  PROVE  LET n == BytesFor(Len(Words(array)), WordWidth(array)) IN
         /\ n \in Nat /\ APWidth = WordWidth(array) /\ APData = 1 /\ buf \in Seq(Byte)
         /\ 1 + n + Len(Strings(array)) + Window - 1 <= Len(buf)
         /\ Window \in Nat /\ Len(buf) \in Nat /\ Len(Strings(array)) \in Nat
         /\ \A k \in 1 .. n : buf[1 + k] = PackBits(Words(array), WordWidth(array))[k]
         /\ \A k \in 1 .. Len(Strings(array)) : buf[1 + n + k] = Strings(array)[k]
<1> DEFINE w == WordWidth(array)
           n == BytesFor(Len(Words(array)), w)
           v == Len(ValuesBlob(array))
           p == Len(PresenceBlob(array))
           l == Len(Strings(array))
           wire == ValuesBlob(array)
<1>1. /\ n \in Nat /\ l \in Nat /\ v = 1 + n + l /\ wire[1] = BitsOf(w)
      /\ \A k \in 1 .. n : wire[1 + k] = PackBits(Words(array), w)[k]
      /\ \A k \in 1 .. l : wire[1 + n + k] = Strings(array)[k]
  BY ValuesBlobIs DEF InFile
<1>2. /\ buf \in Seq(Byte) /\ Len(buf) \in Nat /\ p \in Nat /\ spans.presence.at \in Nat
      /\ v <= spans.presence.at /\ spans.values.at = 0 /\ spans.values.size = v
      /\ spans.presence.at + p + Len(After) = Len(buf) /\ Len(After) \in Nat
      /\ Len(After) >= Window - 1
      /\ \A k \in 1 .. v : buf[k] = wire[k]
  BY FileIs
<1>3. w \in 0 .. WordBits /\ Window \in Nat BY WordsFit, WidthsAssumption DEF InFile
<1> HIDE DEF w, n, v, p, l, wire
<1>4. 1 + n + l + Window - 1 <= Len(buf) /\ 0 < Len(buf) /\ v > 0 /\ 1 \in 1 .. v
  BY <1>1, <1>2, <1>3
<1>5. ByteAt(0) = BitsOf(w)
  <2>1. buf[1] = BitsOf(w) BY <1>1, <1>2, <1>4
  <2> QED BY <1>4, <2>1 DEF ByteAt
<1>6. APWidth = w BY <1>2, <1>3, <1>4, <1>5, WidthByte DEF APWidth
<1>7. APData = 1 BY <1>2 DEF APData
<1>8. \A k \in 1 .. n : 1 + k \in 1 .. v BY <1>1
<1>9. \A k \in 1 .. l : 1 + n + k \in 1 .. v BY <1>1
<1>10. /\ \A k \in 1 .. n : buf[1 + k] = PackBits(Words(array), w)[k]
       /\ \A k \in 1 .. l : buf[1 + n + k] = Strings(array)[k]
  BY <1>1, <1>2, <1>8, <1>9
<1> QED BY <1>1, <1>2, <1>3, <1>4, <1>6, <1>7, <1>10 DEF w, n, l

\* Any value of that list reads back, inside the file.
LEMMA ReadsWords ==
  ASSUME InFile, NEW idx \in Low(Len(Words(array)))
  PROVE  /\ BitsAt(APData, idx, APWidth) = Words(array)[idx + 1]
         /\ LastByte(APData, idx, APWidth) \in Nat /\ LastByte(APData, idx, APWidth) <= Len(buf)
<1> DEFINE w == WordWidth(array)
           s == Words(array)
           n == BytesFor(Len(s), w)
<1>1. /\ n \in Nat /\ APWidth = w /\ APData = 1 /\ buf \in Seq(Byte)
      /\ 1 + n + Len(Strings(array)) + Window - 1 <= Len(buf)
      /\ Window \in Nat /\ Len(buf) \in Nat /\ Len(Strings(array)) \in Nat
      /\ \A k \in 1 .. n : buf[1 + k] = PackBits(s, w)[k]
  BY WordsInFile
<1>2. w \in 0 .. WordBits /\ Len(s) \in Nat /\ \A k \in 1 .. Len(s) : s[k] \subseteq Low(w)
  BY WordsFit DEF InFile
<1>3. 1 + n + Window - 1 <= Len(buf)
  <2> HIDE DEF n
  <2> QED BY <1>1
<1> HIDE DEF w, s
<1>4. idx \in Low(Len(s)) BY DEF s
<1>5. /\ BitsAt(1, idx, w) = s[idx + 1]
      /\ LastByte(1, idx, w) \in Nat /\ LastByte(1, idx, w) <= Len(buf)
  BY <1>1, <1>2, <1>3, <1>4, ReadAt
<1> QED BY <1>1, <1>5 DEF s

\* The count of the positions, the byte of their width, and where they begin.
CountSize == UlebSize(BitsOf(Len(array.positions)))
PositionsAt == spans.presence.at + CountSize + 1

\* Each of them in the file.
LEMMA PresenceInFile ==
  ASSUME InFile, array.kind # "dense"
  PROVE  LET n == Len(array.positions)
             b == BytesFor(n, PositionWidth(array))
             at == spans.presence.at
             m == CountSize IN
         /\ m \in Nat \ {0} /\ b \in Nat /\ at \in Nat /\ Len(buf) \in Nat /\ buf \in Seq(Byte)
         /\ at + m + 1 + b + Window - 1 <= Len(buf) /\ at + m + 1 + b <= Len(buf) /\ Window \in Nat
         /\ \A k \in 1 .. m : ByteAt(at + k - 1) = CountBytes(array)[k]
         /\ ByteAt(at + m) = BitsOf(PositionWidth(array))
         /\ \A k \in 1 .. b : buf[PositionsAt + k] = PackBits(Numbers(array.positions), PositionWidth(array))[k]
<1> DEFINE n == Len(array.positions)
           w == PositionWidth(array)
           b == BytesFor(n, w)
           at == spans.presence.at
           m == CountSize
           v == Len(ValuesBlob(array))
           p == Len(PresenceBlob(array))
           wire == PresenceBlob(array)
           words == Numbers(array.positions)
<1>1. /\ m \in Nat \ {0} /\ b \in Nat /\ p = m + 1 + b
      /\ \A k \in 1 .. m : wire[k] = CountBytes(array)[k]
      /\ wire[m + 1] = BitsOf(w)
      /\ \A k \in 1 .. b : wire[m + 1 + k] = PackBits(words, w)[k]
  BY PresenceBlobIs DEF InFile, CountSize
<1>2. /\ buf \in Seq(Byte) /\ Len(buf) \in Nat /\ p \in Nat /\ at \in Nat
      /\ at + p + Len(After) = Len(buf) /\ Len(After) \in Nat
      /\ Len(After) >= Window - 1
      /\ \A k \in 1 .. p : buf[at + k] = wire[k]
  BY FileIs
<1>3. Window \in Nat BY WidthsAssumption
<1>4. PositionsAt = at + m + 1 BY DEF PositionsAt
<1> HIDE DEF n, w, b, m, v, p, wire, words, at
<1>5. at + m + 1 + b + Window - 1 <= Len(buf) /\ at + m + 1 + b <= Len(buf)
  BY <1>1, <1>2, <1>3
<1>6. \A k \in 1 .. p : ByteAt(at + k - 1) = wire[k]
  <2> TAKE k \in 1 .. p
  <2>1. at + k - 1 < Len(buf) /\ (at + k - 1) + 1 = at + k BY <1>2
  <2> QED BY <1>2, <2>1 DEF ByteAt
<1>7. \A k \in 1 .. m : k \in 1 .. p BY <1>1
<1>8. ByteAt(at + m) = BitsOf(w)
  <2>1. m + 1 \in 1 .. p /\ at + (m + 1) - 1 = at + m BY <1>1, <1>2
  <2> QED BY <1>1, <1>6, <2>1
<1>9. \A k \in 1 .. b : buf[PositionsAt + k] = PackBits(words, w)[k]
  <2> TAKE k \in 1 .. b
  <2>1. m + 1 + k \in 1 .. p /\ at + (m + 1 + k) = PositionsAt + k BY <1>1, <1>2, <1>4
  <2> QED BY <1>1, <1>2, <2>1
<1> QED BY <1>1, <1>2, <1>3, <1>5, <1>6, <1>7, <1>8, <1>9 DEF n, w, b, m, words, at

\* The varint ends where it was written to end.
LEMMA ReadsCount ==
  ASSUME InFile, array.kind # "dense"
  PROVE  LET at == spans.presence.at
             n == CHOOSE k \in 1 .. Len(buf) :
                    /\ More \notin ByteAt(at + k - 1)
                    /\ \A j \in 1 .. k - 1 : More \in ByteAt(at + j - 1) IN
         /\ n = CountSize /\ at + n + 1 \in Nat /\ at + n + 1 <= Len(buf)
         /\ NumberOf(UlebValue([k \in 1 .. n |-> ByteAt(at + k - 1)])) = Len(array.positions)
         /\ NumberOf(ByteAt(at + n)) = PositionWidth(array)
<1> DEFINE at == spans.presence.at
           m == CountSize
           b == BytesFor(Len(array.positions), PositionWidth(array))
           bytes == CountBytes(array)
           Ends(k) == /\ More \notin ByteAt(at + k - 1)
                      /\ \A j \in 1 .. k - 1 : More \in ByteAt(at + j - 1)
           n == CHOOSE k \in 1 .. Len(buf) : Ends(k)
<1>1. /\ m \in Nat \ {0} /\ b \in Nat /\ at \in Nat /\ Len(buf) \in Nat
      /\ at + m + 1 + b <= Len(buf)
      /\ \A k \in 1 .. m : ByteAt(at + k - 1) = bytes[k]
      /\ ByteAt(at + m) = BitsOf(PositionWidth(array))
  BY PresenceInFile
<1>2. /\ bytes = [k \in 1 .. m |-> bytes[k]]
      /\ \A k \in 1 .. m : More \in bytes[k] <=> k < m
      /\ NumberOf(UlebValue(bytes)) = Len(array.positions)
  BY PresenceBlobIs DEF InFile, CountSize
<1> HIDE DEF at, m, b, bytes
<1>3. m \in 1 .. Len(buf) /\ at + m + 1 \in Nat /\ at + m + 1 <= Len(buf) BY <1>1
<1>4. \A k \in 1 .. m : More \in ByteAt(at + k - 1) <=> k < m BY <1>1, <1>2
<1>5. Ends(m)
  <2>1. \A j \in 1 .. m - 1 : j \in 1 .. m /\ j < m BY <1>1
  <2>2. m \in 1 .. m /\ ~(m < m) BY <1>1
  <2> QED BY <1>4, <2>1, <2>2
<1>6. \A k \in 1 .. Len(buf) : Ends(k) => k = m
  <2> TAKE k \in 1 .. Len(buf)
  <2> HAVE Ends(k)
  <2>1. CASE k < m
    <3>1. k \in 1 .. m BY <1>1, <2>1
    <3> QED BY <1>4, <2>1, <3>1
  <2>2. CASE m < k
    <3>1. m \in 1 .. k - 1 /\ m \in 1 .. m /\ ~(m < m) BY <1>1, <2>2
    <3> QED BY <1>4, <3>1
  <2> QED BY <1>1, <2>1, <2>2
<1>7. n = m
  <2> HIDE DEF Ends
  <2> QED BY <1>3, <1>5, <1>6
<1>8. [k \in 1 .. m |-> ByteAt(at + k - 1)] = bytes
  <2>1. [k \in 1 .. m |-> ByteAt(at + k - 1)] = [k \in 1 .. m |-> bytes[k]] BY <1>1
  <2> QED BY <1>2, <2>1
<1>9. NumberOf(BitsOf(PositionWidth(array))) = PositionWidth(array)
  BY PositionsFit, WidthByte DEF InFile
<1>10. n = CHOOSE k \in 1 .. Len(buf) :
                    /\ More \notin ByteAt(at + k - 1)
                    /\ \A j \in 1 .. k - 1 : More \in ByteAt(at + j - 1)
  OBVIOUS
<1> HIDE DEF n
<1> QED BY <1>1, <1>2, <1>3, <1>7, <1>8, <1>9, <1>10 DEF at, m

\* Any position reads back, inside the file.
LEMMA ReadsPositions ==
  ASSUME InFile, array.kind # "dense", NEW idx \in Low(Len(array.positions))
  PROVE  /\ NumberOf(BitsAt(PositionsAt, idx, PositionWidth(array))) = array.positions[idx + 1]
         /\ LastByte(PositionsAt, idx, PositionWidth(array)) \in Nat
         /\ LastByte(PositionsAt, idx, PositionWidth(array)) <= Len(buf)
<1> DEFINE n == Len(array.positions)
           w == PositionWidth(array)
           s == Numbers(array.positions)
           b == BytesFor(n, w)
           at == spans.presence.at
           m == CountSize
<1>1. /\ m \in Nat \ {0} /\ b \in Nat /\ at \in Nat /\ Len(buf) \in Nat /\ buf \in Seq(Byte)
      /\ at + m + 1 + b + Window - 1 <= Len(buf)
      /\ \A k \in 1 .. b : buf[PositionsAt + k] = PackBits(s, w)[k]
  BY PresenceInFile
<1>2. /\ n \in Nat /\ w \in 0 .. WordBits /\ Len(s) = n
      /\ \A k \in 1 .. n : s[k] \subseteq Low(w) /\ NumberOf(s[k]) = array.positions[k]
  BY PositionsFit DEF InFile
<1>3. PositionsAt = at + m + 1 BY DEF PositionsAt
<1>4. idx \in Low(n) OBVIOUS
<1> HIDE DEF n, w, s, at, m
<1>5. PositionsAt \in Nat
  <2> HIDE DEF b
  <2> QED BY <1>1, <1>3
<1>6. PositionsAt + b + Window - 1 <= Len(buf) BY <1>1, <1>3
<1>7. /\ BitsAt(PositionsAt, idx, w) = s[idx + 1]
      /\ LastByte(PositionsAt, idx, w) \in Nat /\ LastByte(PositionsAt, idx, w) <= Len(buf)
  BY <1>1, <1>2, <1>4, <1>5, <1>6, ReadAt
<1>8. idx + 1 \in 1 .. n BY <1>2, <1>4 DEF Low
<1> QED BY <1>2, <1>7, <1>8 DEF w

\* The span of a byte string: its ends are two words of the list.
LEMMA ReadsStrings ==
  ASSUME InFile, array.kind = "bytes", NEW idx \in Low(Len(array.positions))
  PROVE  LET c0 == NumberOf(BitsAt(APData, idx, APWidth))
             c1 == NumberOf(BitsAt(APData, idx + 1, APWidth))
             bytes == APData + BytesFor(Len(array.positions) + 1, APWidth) IN
         /\ idx \in Low(Len(Words(array))) /\ idx + 1 \in Low(Len(Words(array)))
         /\ bytes + c1 \in Nat /\ bytes + c1 <= Len(buf)
         /\ [k \in 1 .. c1 - c0 |-> ByteAt(bytes + c0 + k - 1)] = array.values[idx + 1]
<1> DEFINE n == Len(array.values)
           cum == Cum(array.values)
           words == Words(array)
           c0 == NumberOf(BitsAt(APData, idx, APWidth))
           c1 == NumberOf(BitsAt(APData, idx + 1, APWidth))
           b == BytesFor(Len(words), WordWidth(array))
           bytes == APData + BytesFor(Len(array.positions) + 1, APWidth)
           string == array.values[idx + 1]
           all == Strings(array)
<1>1. array \in Arrays /\ Len(array.values) = Len(array.positions)
  BY ArraysAssumption DEF InFile
<1>2. /\ n \in Nat /\ Len(cum) = n + 1 /\ cum = [k \in 1 .. n + 1 |-> cum[k]]
      /\ \A k \in 1 .. n + 1 : cum[k] \in Nat /\ cum[k] <= cum[n + 1]
      /\ cum[n + 1] = Len(all) /\ cum[n + 1] < 2 ^ WordBits /\ all \in Seq(Byte)
      /\ \A k \in 1 .. n :
           /\ array.values[k] \in Seq(Byte) /\ cum[k + 1] = cum[k] + Len(array.values[k])
           /\ \A j \in 1 .. Len(array.values[k]) : all[cum[k] + j] = array.values[k][j]
  BY <1>1, CumFacts DEF Strings
<1>3. /\ b \in Nat /\ APWidth = WordWidth(array) /\ APData = 1
      /\ 1 + b + Len(all) + Window - 1 <= Len(buf) /\ Window \in Nat /\ Len(buf) \in Nat
      /\ Len(all) \in Nat /\ \A k \in 1 .. Len(all) : buf[1 + b + k] = all[k]
  BY WordsInFile
<1>4. words = [k \in 1 .. n + 1 |-> BitsOf(cum[k])] BY <1>2 DEF Words, Numbers
<1>5. Len(words) = n + 1 /\ \A k \in 1 .. n + 1 : words[k] = BitsOf(cum[k])
  <2> HIDE DEF n, words, cum
  <2> QED BY <1>2, <1>4
<1>6. bytes = 1 + b BY <1>1, <1>3, <1>5
<1>7. Window # 0 BY WindowHolds
<1>8. \A x \in Low(n + 1) : BitsAt(APData, x, APWidth) = BitsOf(cum[x + 1])
  <2> TAKE x \in Low(n + 1)
  <2>1. x + 1 \in 1 .. n + 1 BY <1>2 DEF Low
  <2>2. BitsAt(APData, x, APWidth) = words[x + 1] BY <1>5, ReadsWords
  <2> HIDE DEF words, cum, n
  <2> QED BY <1>5, <2>1, <2>2
<1>9. idx \in Nat /\ idx + 1 \in 1 .. n /\ idx \in Low(n + 1) /\ idx + 1 \in Low(n + 1)
  BY <1>1, <1>2 DEF Low
<1> HIDE DEF n, cum, words, bytes, b, all
<1>10. PICK top \in Nat : top = 2 ^ WordBits BY WidthsAssumption, Powers
<1>11. \A k \in 1 .. n + 1 : NumberOf(BitsOf(cum[k])) = cum[k]
  <2> TAKE k \in 1 .. n + 1
  <2>1. n + 1 \in 1 .. n + 1 BY <1>2
  <2>2. cum[k] \in Nat /\ cum[k] < top BY <1>2, <1>10, <2>1
  <2> QED BY <1>10, <2>2, NumberIs
<1>12. c0 = cum[idx + 1] /\ c1 = cum[(idx + 1) + 1]
  <2>1. idx + 1 \in 1 .. n + 1 /\ (idx + 1) + 1 \in 1 .. n + 1 BY <1>2, <1>9
  <2> QED BY <1>8, <1>9, <1>11, <2>1
<1> HIDE DEF c0, c1, string
<1>13. /\ string \in Seq(Byte) /\ c1 = c0 + Len(string) /\ c0 \in Nat /\ c1 <= Len(all)
       /\ \A j \in 1 .. Len(string) : all[c0 + j] = string[j]
  <2>1. idx + 1 \in 1 .. n + 1 /\ (idx + 1) + 1 \in 1 .. n + 1 BY <1>2, <1>9
  <2> QED BY <1>2, <1>9, <1>12, <2>1 DEF string
<1>14. Len(string) \in Nat /\ string = [k \in 1 .. Len(string) |-> string[k]]
  BY <1>13, LenProperties
<1>15. /\ c1 - c0 = Len(string) /\ bytes + c1 \in Nat /\ bytes + c1 <= Len(buf)
  <2>1. PICK m \in Nat : m = Len(string) BY <1>14
  <2>2. PICK l \in Nat : l = Len(all) BY <1>3
  <2>3. PICK e \in Nat : e = Len(buf) BY <1>3
  <2>4. c1 = c0 + m /\ c0 \in Nat /\ c1 <= l BY <1>13, <2>1, <2>2
  <2>5. 1 + b + l + Window - 1 <= e /\ b \in Nat /\ Window \in Nat \ {0}
    BY <1>3, <1>7, <2>2, <2>3
  <2>6. c1 - c0 = m /\ (1 + b) + c1 \in Nat /\ (1 + b) + c1 <= e BY <2>4, <2>5
  <2> QED BY <1>6, <2>1, <2>3, <2>6
<1>16. \A k \in 1 .. Len(string) : ByteAt(bytes + c0 + k - 1) = string[k]
  <2> TAKE k \in 1 .. Len(string)
  <2>1. PICK x \in Nat : x = c0 + k BY <1>13, <1>14
  <2>2. x \in 1 .. Len(all) /\ all[x] = string[k] BY <1>3, <1>13, <1>14, <2>1
  <2>3. PICK y \in Nat : y = 1 + b + x BY <1>3
  <2>4. buf[y] = string[k] BY <1>3, <2>2, <2>3
  <2>5. bytes + c0 + k - 1 = y - 1 /\ y - 1 < Len(buf) /\ (y - 1) + 1 = y
    BY <1>3, <1>6, <1>7, <1>13, <2>1, <2>2, <2>3
  <2> QED BY <2>4, <2>5 DEF ByteAt
<1>17. [k \in 1 .. c1 - c0 |-> ByteAt(bytes + c0 + k - 1)] = string
  <2>1. [k \in 1 .. c1 - c0 |-> ByteAt(bytes + c0 + k - 1)] = [k \in 1 .. Len(string) |-> string[k]]
    BY <1>15, <1>16
  <2> QED BY <1>14, <2>1
<1> QED BY <1>5, <1>9, <1>15, <1>17 DEF c0, c1, bytes, string, words

-----------------------------------------------------------------------------
(* The reader of an EncodedArray.                                           *)

\* Each position the reader has is one that was written, with its own value.
Recovered ==
  /\ has \subseteq Range(array.positions)
  /\ \A k \in DOMAIN array.positions :
       array.positions[k] \in has => Found(array.positions[k]) = array.values[k]

\* What each stage leaves for the next: the file as written, then what
\* ParsePresence read of it, then the positions in the order they are listed.
StageInv ==
  \/ stage = "write" /\ buf = <<>> /\ has = {} /\ entry = 0
  \/ stage = "parse" /\ InFile /\ entry = 0 /\ (array.kind # "dense" => has = {})
  \/ /\ stage \in {"fill", "done"} /\ InFile /\ array.kind # "dense"
     /\ pr = [np |-> Len(array.positions), wpos |-> PositionWidth(array), pos |-> PositionsAt]
     /\ entry \in 0 .. Len(array.positions)
     /\ has = {array.positions[k] : k \in 1 .. entry}
     /\ stage = "done" => entry = Len(array.positions)
ArrayInv ==
  /\ array \in Arrays /\ StageInv /\ Recovered
  /\ reach \in Nat /\ reach <= Len(buf) /\ Len(buf) \in Nat

\* The highest index read so far is one of those read.
LEMMA MaxOfTwo ==
  ASSUME NEW a \in Nat, NEW b \in Nat
  PROVE  Max({a, b}) \in {a, b}
<1>1. \E x \in {a, b} : \A y \in {a, b} : x >= y
  <2>1. CASE a >= b BY <2>1
  <2>2. CASE ~(a >= b)
    <3>1. b >= a /\ b >= b BY <2>2
    <3> QED BY <3>1
  <2> QED BY <2>1, <2>2
<1> QED BY <1>1 DEF Max
\* The same of three.
LEMMA MaxOfThree ==
  ASSUME NEW a \in Nat, NEW b \in Nat, NEW c \in Nat
  PROVE  Max({a, b, c}) \in {a, b, c}
<1>1. \E x \in {a, b, c} : \A y \in {a, b, c} : x >= y
  <2>1. CASE a >= b /\ a >= c BY <2>1
  <2>2. CASE ~(a >= b) /\ b >= c
    <3>1. b >= a /\ b >= b BY <2>2
    <3> QED BY <2>2, <3>1
  <2>3. CASE ~(a >= b /\ a >= c) /\ ~(~(a >= b) /\ b >= c)
    <3>1. c >= a /\ c >= b /\ c >= c BY <2>3
    <3> QED BY <3>1
  <2> QED BY <2>1, <2>2, <2>3
<1> QED BY <1>1 DEF Max

\* One more position read with its own value.
LEMMA OneMoreRead ==
  ASSUME array \in Arrays, Recovered, NEW j \in 1 .. Len(array.positions), NEW value,
         has' = has \cup {array.positions[j]},
         val' = [p \in has' |-> IF p = array.positions[j] THEN value ELSE val[p]],
         UNCHANGED <<array, buf>>,
         IF array.kind = "bytes" THEN [k \in 1 .. value.size |-> ByteAt(value.at + k - 1)] = array.values[j]
         ELSE value = array.values[j]
  PROVE  Recovered'
<1> DEFINE P == array.positions
<1>1. DOMAIN P = 1 .. Len(P) /\ IsInjective(P) BY PositionsFit, ArraysAssumption
<1>2. has' \subseteq Range(P) BY <1>1 DEF Recovered, Range
<1>3. ASSUME NEW k \in DOMAIN P, P[k] \in has'
      PROVE  Found(P[k])' = array.values[k]
  <2>1. CASE k = j
    <3>1. val'[P[k]] = value BY <1>3, <2>1
    <3>2. CASE array.kind = "bytes" BY <2>1, <3>1, <3>2 DEF Found, ByteAt
    <3>3. CASE array.kind # "bytes" BY <2>1, <3>1, <3>3 DEF Found
    <3> QED BY <3>2, <3>3
  <2>2. CASE k # j
    <3>1. P[k] # P[j] BY <1>1, <2>2 DEF IsInjective
    <3>2. P[k] \in has /\ val'[P[k]] = val[P[k]] BY <1>3, <3>1
    <3>3. Found(P[k]) = array.values[k] BY <3>2 DEF Recovered
    <3>4. Found(P[k])' = Found(P[k]) BY <3>2 DEF Found, ByteAt
    <3> QED BY <3>3, <3>4
  <2> QED BY <2>1, <2>2
<1> QED BY <1>2, <1>3 DEF Recovered

\* The file has a length.
LEMMA FileOfBytes ==
  ASSUME NEW a \in Arrays
  PROVE  Len(ValuesBlob(a) \o Between \o PresenceBlob(a) \o After) \in Nat
<1>1. ValuesBlob(a) \in Seq(Byte) BY ValuesBlobIs
<1>2. PresenceBlob(a) \in Seq(Byte)
  <2>1. CASE a.kind = "dense" BY <2>1, EmptySeq DEF PresenceBlob
  <2>2. CASE a.kind # "dense" BY <2>2, PresenceBlobIs
  <2> QED BY <2>1, <2>2
<1>3. PICK b \in Seq(Byte) : b = ValuesBlob(a) BY <1>1
<1>4. PICK c \in Seq(Byte) : c = PresenceBlob(a) BY <1>2
<1>5. Between \in Seq(Byte) /\ After \in Seq(Byte) BY ArraysAssumption
<1>6. b \o Between \in Seq(Byte) BY <1>5, ConcatProperties
<1>7. b \o Between \o c \in Seq(Byte) BY <1>6, ConcatProperties
<1>8. b \o Between \o c \o After \in Seq(Byte) BY <1>5, <1>7, ConcatProperties
<1>9. Len(b \o Between \o c \o After) \in Nat BY <1>8, LenProperties
<1> QED BY <1>3, <1>4, <1>9, Zenon

\* Each step keeps the invariant.  What is written lies where it was put.
LEMMA PutKeeps == ArrayInv /\ Put => ArrayInv'
<1> SUFFICES ASSUME ArrayInv, Put PROVE ArrayInv' OBVIOUS
<1>1. /\ array \in Arrays /\ array' = array /\ has = {} /\ has' = has /\ entry = 0 /\ entry' = entry
      /\ reach' = reach /\ reach \in Nat /\ reach <= 0 /\ stage' = "parse"
  <2>1. Len(<<>>) = 0 OBVIOUS
  <2> QED BY <2>1 DEF ArrayInv, StageInv, Put
<1>2. buf' = ValuesBlob(array) \o Between \o PresenceBlob(array) \o After BY DEF Put
<1>3. InFile' BY <1>1, <1>2 DEF InFile, Put
<1>4. Len(buf') \in Nat BY <1>1, <1>2, FileOfBytes
<1>5. reach' <= Len(buf') BY <1>1, <1>4
<1>6. StageInv' BY <1>1, <1>3 DEF StageInv
<1>7. Recovered' BY <1>1 DEF Recovered
<1> QED BY <1>1, <1>4, <1>5, <1>6, <1>7 DEF ArrayInv

\* ParsePresence answers the count, the width and the start that were written.
LEMMA ParseKeeps == ArrayInv /\ ParsePresence => ArrayInv'
<1> SUFFICES ASSUME ArrayInv, ParsePresence PROVE ArrayInv' OBVIOUS
<1> DEFINE at == spans.presence.at
           n == CHOOSE k \in 1 .. Len(buf) :
                  /\ More \notin ByteAt(at + k - 1)
                  /\ \A j \in 1 .. k - 1 : More \in ByteAt(at + j - 1)
<1>1. /\ array \in Arrays /\ InFile /\ array.kind # "dense" /\ has = {} /\ entry = 0
      /\ reach \in Nat /\ reach <= Len(buf) /\ Len(buf) \in Nat
  BY DEF ArrayInv, StageInv, ParsePresence
<1>2. /\ UNCHANGED <<array, buf, spans, entry, has, val>> /\ stage' = "fill"
      /\ pr' = [np |-> NumberOf(UlebValue([k \in 1 .. n |-> ByteAt(at + k - 1)])),
                wpos |-> NumberOf(ByteAt(at + n)), pos |-> at + n + 1]
      /\ reach' = Max({reach, at + n + 1})
  BY DEF ParsePresence
<1>3. /\ n = CountSize /\ at + n + 1 \in Nat /\ at + n + 1 <= Len(buf)
      /\ NumberOf(UlebValue([k \in 1 .. n |-> ByteAt(at + k - 1)])) = Len(array.positions)
      /\ NumberOf(ByteAt(at + n)) = PositionWidth(array)
  BY <1>1, ReadsCount
<1> HIDE DEF n
<1>4. pr' = [np |-> Len(array.positions), wpos |-> PositionWidth(array), pos |-> PositionsAt]
  BY <1>2, <1>3 DEF PositionsAt
<1>5. PositionsAt' = PositionsAt BY <1>2 DEF PositionsAt, CountSize
<1>6. InFile' BY <1>1, <1>2 DEF InFile
<1>7. has' = {array.positions[k] : k \in 1 .. entry} BY <1>1, <1>2
<1>8. entry' \in 0 .. Len(array.positions) BY <1>1, <1>2, PositionsFit
<1>9. StageInv' BY <1>1, <1>2, <1>4, <1>5, <1>6, <1>7, <1>8 DEF StageInv
<1>10. reach' \in Nat /\ reach' <= Len(buf)
  <2>1. PICK x \in Nat : x = at + n + 1 BY <1>3
  <2>2. Max({reach, x}) \in {reach, x} /\ x <= Len(buf) BY <1>1, <1>3, <2>1, MaxOfTwo
  <2> QED BY <1>1, <1>2, <2>1, <2>2
<1>11. Recovered' BY <1>1, <1>2 DEF Recovered
<1> QED BY <1>1, <1>2, <1>9, <1>10, <1>11 DEF ArrayInv

\* A round of either loop finds the next position, and keeps what was read.
LEMMA RoundKeeps ==
  ASSUME ArrayInv, stage = "fill", entry < pr.np, NEW value, NEW upto \in Nat, upto <= Len(buf),
         Keep(value, upto),
         IF array.kind = "bytes"
         THEN [k \in 1 .. value.size |-> ByteAt(value.at + k - 1)] = array.values[entry + 1]
         ELSE value = array.values[entry + 1]
  PROVE  ArrayInv'
<1> DEFINE np == Len(array.positions)
           p == array.positions[entry + 1]
           last == LastByte(PositionsAt, entry, PositionWidth(array))
<1>1. /\ array \in Arrays /\ InFile /\ array.kind # "dense" /\ Recovered
      /\ pr = [np |-> np, wpos |-> PositionWidth(array), pos |-> PositionsAt]
      /\ entry \in 0 .. np /\ has = {array.positions[k] : k \in 1 .. entry}
      /\ reach \in Nat /\ reach <= Len(buf) /\ Len(buf) \in Nat
  BY DEF ArrayInv, StageInv
<1>2. np \in Nat /\ \A k \in 1 .. np : array.positions[k] \in Low(array.domain)
  BY <1>1, PositionsFit
<1>3. array.domain \in Nat BY <1>1, ArraysAssumption
<1> HIDE DEF np
<1>4. entry \in Low(np) /\ entry + 1 \in 1 .. np /\ entry + 1 \in 0 .. np /\ entry \in Nat
  BY <1>1, <1>2 DEF Low
<1>5. Position = p /\ last \in Nat /\ last <= Len(buf) /\ LastByte(pr.pos, entry, pr.wpos) = last
  BY <1>1, <1>4, ReadsPositions DEF Position, np
<1>6. p < array.domain
  <2>1. p \in Low(array.domain) BY <1>2, <1>4
  <2> HIDE DEF p
  <2> QED BY <1>3, <2>1 DEF Low
<1> HIDE DEF last
<1>7. /\ has' = has \cup {p}
      /\ val' = [q \in has' |-> IF q = p THEN value ELSE val[q]]
      /\ reach' = Max({reach, last, upto})
      /\ entry' = entry + 1
      /\ UNCHANGED <<array, buf, spans, pr, stage>>
  BY <1>5, <1>6 DEF Keep
<1>8. Recovered' BY <1>1, <1>4, <1>7, OneMoreRead DEF np
<1>9. has' = {array.positions[k] : k \in 1 .. entry + 1}
  <2>1. 1 .. entry + 1 = (1 .. entry) \cup {entry + 1} BY <1>4
  <2> QED BY <1>1, <1>7, <2>1
<1>10. reach' \in Nat /\ reach' <= Len(buf) BY <1>1, <1>5, <1>7, MaxOfThree
<1>11. InFile' /\ PositionsAt' = PositionsAt
  BY <1>1, <1>7 DEF InFile, PositionsAt, CountSize
<1>12. StageInv' BY <1>1, <1>4, <1>7, <1>9, <1>11 DEF StageInv, np
<1> QED BY <1>1, <1>7, <1>8, <1>10, <1>12 DEF ArrayInv

\* PresentInt: the value is a word of the list.
LEMMA IntKeeps == ArrayInv /\ PresentInt => ArrayInv'
<1> SUFFICES ASSUME ArrayInv, PresentInt PROVE ArrayInv' OBVIOUS
<1>1. /\ array \in Arrays /\ InFile /\ array.kind = "ints" /\ stage = "fill" /\ entry < pr.np
      /\ pr.np = Len(array.positions) /\ entry \in 0 .. Len(array.positions)
      /\ Keep(BitsAt(APData, entry, APWidth), LastByte(APData, entry, APWidth))
  BY DEF ArrayInv, StageInv, PresentInt
<1>2. Words(array) = array.values /\ Len(array.values) = Len(array.positions) /\ Len(array.positions) \in Nat
  BY <1>1, ArraysAssumption, PositionsFit DEF Words
<1>3. entry \in Low(Len(Words(array))) BY <1>1, <1>2 DEF Low
<1>4. /\ BitsAt(APData, entry, APWidth) = array.values[entry + 1]
      /\ LastByte(APData, entry, APWidth) \in Nat /\ LastByte(APData, entry, APWidth) <= Len(buf)
  BY <1>1, <1>2, <1>3, ReadsWords
<1> QED BY <1>1, <1>4, RoundKeeps

\* PresentBytes: the span between two ends is a string.
LEMMA BytesKeeps == ArrayInv /\ PresentBytes => ArrayInv'
<1> SUFFICES ASSUME ArrayInv, PresentBytes PROVE ArrayInv' OBVIOUS
<1> DEFINE c0 == NumberOf(BitsAt(APData, entry, APWidth))
           c1 == NumberOf(BitsAt(APData, entry + 1, APWidth))
           bytes == APData + CumBytes
           span == [at |-> bytes + c0, size |-> c1 - c0]
           upto == Max({LastByte(APData, entry + 1, APWidth), bytes + c1})
<1>1. /\ array \in Arrays /\ InFile /\ array.kind = "bytes" /\ stage = "fill" /\ entry < pr.np
      /\ pr.np = Len(array.positions) /\ entry \in 0 .. Len(array.positions)
      /\ Keep(span, upto)
  BY DEF ArrayInv, StageInv, PresentBytes
<1>2. entry \in Low(Len(array.positions))
  <2>1. Len(array.positions) \in Nat BY <1>1, PositionsFit
  <2> QED BY <1>1, <2>1 DEF Low
<1>3. bytes = APData + BytesFor(Len(array.positions) + 1, APWidth) BY <1>1 DEF CumBytes
<1>4. /\ entry \in Low(Len(Words(array))) /\ entry + 1 \in Low(Len(Words(array)))
      /\ bytes + c1 \in Nat /\ bytes + c1 <= Len(buf)
      /\ [k \in 1 .. c1 - c0 |-> ByteAt(bytes + c0 + k - 1)] = array.values[entry + 1]
  BY <1>1, <1>2, <1>3, ReadsStrings
<1>5. LastByte(APData, entry + 1, APWidth) \in Nat /\ LastByte(APData, entry + 1, APWidth) <= Len(buf)
  BY <1>1, <1>4, ReadsWords
<1>6. upto \in Nat /\ upto <= Len(buf)
  <2>1. PICK x \in Nat : x = bytes + c1 BY <1>4
  <2>2. PICK y \in Nat : y = LastByte(APData, entry + 1, APWidth) BY <1>5
  <2>3. Max({y, x}) \in {y, x} BY MaxOfTwo
  <2>4. x <= Len(buf) /\ y <= Len(buf) BY <1>4, <1>5, <2>1, <2>2
  <2>5. upto = Max({y, x}) BY <2>1, <2>2
  <2> HIDE DEF upto, bytes, c1
  <2> QED BY <2>3, <2>4, <2>5
<1>7. span.size = c1 - c0 /\ span.at = bytes + c0 OBVIOUS
<1> HIDE DEF span, upto, c0, c1, bytes
<1>8. [k \in 1 .. span.size |-> ByteAt(span.at + k - 1)] = array.values[entry + 1]
  BY <1>4, <1>7
<1> QED BY <1>1, <1>6, <1>8, RoundKeeps

\* The loop ends when every position has been read.
LEMMA EndKeeps == ArrayInv /\ EndFill => ArrayInv'
<1> SUFFICES ASSUME ArrayInv, EndFill PROVE ArrayInv' OBVIOUS
<1>1. /\ array \in Arrays /\ InFile /\ array.kind # "dense" /\ Recovered
      /\ pr = [np |-> Len(array.positions), wpos |-> PositionWidth(array), pos |-> PositionsAt]
      /\ entry \in 0 .. Len(array.positions) /\ has = {array.positions[k] : k \in 1 .. entry}
      /\ entry >= pr.np /\ stage' = "done"
      /\ UNCHANGED <<array, buf, spans, pr, entry, has, val, reach>>
  BY DEF ArrayInv, StageInv, EndFill
<1>2. Len(array.positions) \in Nat BY <1>1, PositionsFit
<1>3. entry = Len(array.positions) BY <1>1, <1>2
<1>4. InFile' /\ PositionsAt' = PositionsAt BY <1>1 DEF InFile, PositionsAt, CountSize
<1>5. StageInv' BY <1>1, <1>3, <1>4 DEF StageInv
<1>6. Recovered' BY <1>1 DEF Recovered, Found, ByteAt
<1> QED BY <1>1, <1>5, <1>6 DEF ArrayInv

\* BitsetAt: the value at a position is the word of that index.
LEMMA DenseKeeps == ArrayInv /\ BitsetAt => ArrayInv'
<1> SUFFICES ASSUME ArrayInv, BitsetAt PROVE ArrayInv' OBVIOUS
<1>1. /\ array \in Arrays /\ InFile /\ array.kind = "dense" /\ Recovered /\ stage = "parse" /\ entry = 0
      /\ reach \in Nat /\ reach <= Len(buf) /\ Len(buf) \in Nat
  BY DEF ArrayInv, StageInv, BitsetAt
<1>2. PICK p \in Low(array.domain) :
        /\ has' = has \cup {p}
        /\ val' = [q \in has' |-> IF q = p THEN BitsAt(APData, p, APWidth) ELSE val[q]]
        /\ reach' = Max({reach, LastByte(APData, p, APWidth)})
        /\ UNCHANGED <<array, buf, spans, pr, stage, entry>>
  BY DEF BitsetAt
<1>3. /\ array.domain \in Nat /\ array.positions = [k \in 1 .. array.domain |-> k - 1]
      /\ Len(array.values) = Len(array.positions)
  BY <1>1, ArraysAssumption
<1>4. PICK d \in Nat : d = array.domain BY <1>3
<1>5. Len(array.positions) = d BY <1>3, <1>4
<1>6. p \in Nat /\ p + 1 \in 1 .. d BY <1>4 DEF Low
<1>7. array.positions[p + 1] = p BY <1>3, <1>4, <1>6
<1>8. Words(array) = array.values /\ p \in Low(Len(Words(array)))
  BY <1>1, <1>3, <1>4, <1>5 DEF Words
<1>9. /\ BitsAt(APData, p, APWidth) = array.values[p + 1]
      /\ LastByte(APData, p, APWidth) \in Nat /\ LastByte(APData, p, APWidth) <= Len(buf)
  BY <1>1, <1>8, ReadsWords
<1>10. Recovered' BY <1>1, <1>2, <1>5, <1>6, <1>7, <1>9, OneMoreRead
<1>11. reach' \in Nat /\ reach' <= Len(buf) BY <1>1, <1>2, <1>9, MaxOfTwo
<1>12. InFile' BY <1>1, <1>2 DEF InFile
<1>13. StageInv' BY <1>1, <1>2, <1>12 DEF StageInv
<1> QED BY <1>1, <1>2, <1>10, <1>11, <1>13 DEF ArrayInv

\* At every stage the file, the parsed header and what was read are as written.
THEOREM ArrayKeepsInv == ArraySpec => []ArrayInv
<1>1. ArrayInit => ArrayInv
  <2> SUFFICES ASSUME ArrayInit PROVE ArrayInv OBVIOUS
  <2>1. StageInv /\ array \in Arrays BY DEF ArrayInit, StageInv
  <2>2. Recovered BY DEF ArrayInit, Recovered
  <2>3. Len(<<>>) = 0 /\ buf = <<>> /\ reach = 0 BY DEF ArrayInit
  <2> QED BY <2>1, <2>2, <2>3 DEF ArrayInv
<1>2. ArrayInv /\ [ArrayNext]_arrayVars => ArrayInv'
  <2> SUFFICES ASSUME ArrayInv, [ArrayNext]_arrayVars PROVE ArrayInv' OBVIOUS
  <2>1. CASE UNCHANGED arrayVars
    <3>1. UNCHANGED <<array, buf, spans, pr, stage, entry, has, val, reach>>
      BY <2>1 DEF arrayVars
    <3> QED BY <3>1 DEF ArrayInv, StageInv, InFile, PositionsAt, CountSize, Recovered, Found, ByteAt
  <2> QED BY <2>1, PutKeeps, ParseKeeps, IntKeeps, BytesKeeps, EndKeeps, DenseKeeps DEF ArrayNext
<1> QED BY <1>1, <1>2, PTL DEF ArraySpec

\* RoundTrip, for every array: exactly the positions that were written come
\* back, each with its own value, whatever the widths are and wherever the
\* varint and the packed lists end inside the blobs.
THEOREM ArrayRoundTrips == ArraySpec => []RoundTrip
<1>1. ArrayInv => RoundTrip
  <2> SUFFICES ASSUME ArrayInv PROVE RoundTrip OBVIOUS
  <2>1. ASSUME stage = "done" PROVE has = Range(array.positions)
    <3>1. /\ array \in Arrays /\ entry = Len(array.positions)
          /\ has = {array.positions[k] : k \in 1 .. entry}
      BY <2>1 DEF ArrayInv, StageInv
    <3>2. DOMAIN array.positions = 1 .. Len(array.positions) BY <3>1, PositionsFit
    <3> QED BY <3>1, <3>2 DEF Range
  <2> QED BY <2>1 DEF ArrayInv, Recovered, RoundTrip
<1> QED BY <1>1, ArrayKeepsInv, PTL

\* No window the reader loads leaves the file, although it may reach past the
\* blob it starts in: the trailer is long enough.
THEOREM ArrayReadsInside == ArraySpec => []ReadsInside
<1>1. ArrayInv => ReadsInside BY DEF ArrayInv, ReadsInside
<1> QED BY <1>1, ArrayKeepsInv, PTL

-----------------------------------------------------------------------------
(* Sums over intervals.                                                    *)

\* The last term of a sum.
LEMMA LastTerm ==
  ASSUME NEW a \in Int, NEW b \in Int, a <= b, NEW f, \A k \in a .. b : f[k] \in Int
  PROVE  /\ Total(f, a, b) \in Int /\ Total(f, a, b - 1) \in Int
         /\ Total(f, a, b) = Total(f, a, b - 1) + f[b]
<1>1. b \in a .. b /\ (a .. b) \ {b} = a .. b - 1 OBVIOUS
<1>2. IsFiniteSet(a .. b) /\ IsFiniteSet(a .. b - 1) BY FS_Interval
<1>3. SumFunctionOnSet(f, a .. b) = f[b] + SumFunctionOnSet(f, a .. b - 1)
  BY <1>1, <1>2, SumSplits
<1>4. \A k \in a .. b - 1 : f[k] \in Int OBVIOUS
<1>5. SumFunctionOnSet(f, a .. b) \in Int /\ SumFunctionOnSet(f, a .. b - 1) \in Int
  BY <1>2, <1>4, SumIsInt
<1>6. f[b] \in Int BY <1>1
<1> QED BY <1>3, <1>5, <1>6 DEF Total

\* Nothing to add up.
LEMMA NoTerms == ASSUME NEW f, NEW a \in Int, NEW b \in Int, b < a PROVE Total(f, a, b) = 0
<1>1. a .. b = {} OBVIOUS
<1> QED BY <1>1, EmptySum DEF Total

\* Sums of natural numbers over adjacent intervals add up.
LEMMA SumsMeet ==
  ASSUME NEW a \in Nat, NEW b \in Nat, a <= b, NEW f, \A k \in 1 .. b : f[k] \in Nat
  PROVE  /\ Total(f, 1, a) \in Nat /\ Total(f, 1, b) \in Nat /\ Total(f, a + 1, b) \in Nat
         /\ Total(f, 1, b) = Total(f, 1, a) + Total(f, a + 1, b)
<1>1. ASSUME NEW c \in Nat, c <= b PROVE Total(f, 1, c) \in Nat
  <2>1. \A k \in 1 .. b : f[k] \in Nat OBVIOUS
  <2>2. c \in 0 .. b BY <1>1
  <2> QED BY <2>1, <2>2, SumsGrow DEF Total
<1> DEFINE Meet(c) == /\ Total(f, a + 1, c) \in Nat
                      /\ Total(f, 1, c) = Total(f, 1, a) + Total(f, a + 1, c)
           wrong == {c \in Nat : a <= c /\ c <= b /\ ~Meet(c)}
<1>2. wrong = {}
  <2> SUFFICES ASSUME wrong # {} PROVE FALSE OBVIOUS
  <2>1. PICK c \in wrong : \A d \in wrong : c <= d
    <3>1. wrong \subseteq Nat OBVIOUS
    <3> HIDE DEF wrong
    <3> QED BY <3>1, LeastNatural
  <2>2. c \in Nat /\ a <= c /\ c <= b /\ ~Meet(c) BY <2>1
  <2>3. c # a
    <3>1. Total(f, a + 1, a) = 0 BY NoTerms
    <3> QED BY <1>1, <2>2, <3>1
  <2>4. c - 1 \in Nat /\ a <= c - 1 /\ c - 1 <= b /\ ~(c <= c - 1) BY <2>2, <2>3
  <2>5. Meet(c - 1) BY <2>1, <2>4
  <2>6. Total(f, 1, c) = Total(f, 1, c - 1) + f[c] /\ f[c] \in Nat
    <3>1. 1 <= c /\ \A k \in 1 .. c : f[k] \in Nat BY <2>2, <2>4
    <3>2. c \in 1 .. c BY <2>2, <2>4
    <3> QED BY <2>2, <3>1, <3>2, LastTerm
  <2>7. Total(f, a + 1, c) = Total(f, a + 1, c - 1) + f[c]
    <3>1. a + 1 <= c /\ a + 1 \in Int /\ c \in Int BY <2>2, <2>4
    <3>2. \A k \in a + 1 .. c : f[k] \in Int
      <4>1. \A k \in a + 1 .. c : k \in 1 .. b BY <2>2
      <4> QED BY <4>1
    <3> QED BY <3>1, <3>2, LastTerm
  <2>8. Total(f, 1, a) \in Nat BY <1>1
  <2>9. Total(f, 1, c - 1) = Total(f, 1, a) + Total(f, a + 1, c - 1) /\ Total(f, a + 1, c - 1) \in Nat
    BY <2>5
  <2>10. Meet(c) BY <2>6, <2>7, <2>8, <2>9
  <2> QED BY <2>2, <2>10
<1>3. Meet(b) BY <1>2
<1>4. b <= b /\ b \in Nat OBVIOUS
<1> QED BY <1>1, <1>3, <1>4

\* Equal terms.
LEMMA EqualTerms ==
  ASSUME NEW a \in Int, NEW n \in Nat, NEW v \in Int, NEW f, \A k \in a + 1 .. a + n : f[k] = v
  PROVE  Total(f, a + 1, a + n) = v * n
<1> DEFINE Holds(c) == Total(f, a + 1, a + c) = v * c
           wrong == {c \in Nat : c <= n /\ ~Holds(c)}
<1> SUFFICES ASSUME wrong # {} PROVE FALSE
  <2>1. n \in Nat /\ n <= n OBVIOUS
  <2> HIDE DEF Holds
  <2>2. wrong = {} => Holds(n) BY <2>1
  <2> QED BY <2>2 DEF Holds
<1>1. PICK c \in wrong : \A d \in wrong : c <= d
  <2>1. wrong \subseteq Nat OBVIOUS
  <2> HIDE DEF wrong
  <2> QED BY <2>1, LeastNatural
<1>2. c \in Nat /\ c <= n /\ Total(f, a + 1, a + c) # v * c BY <1>1
<1>3. c # 0
  <2>1. Total(f, a + 1, a + 0) = 0 BY NoTerms
  <2>2. v * 0 = 0 OBVIOUS
  <2> QED BY <1>2, <2>1, <2>2
<1>4. c - 1 \in Nat /\ c - 1 <= n /\ ~(c <= c - 1) BY <1>2, <1>3
<1>5. Total(f, a + 1, a + (c - 1)) = v * (c - 1) BY <1>1, <1>4
<1>6. Total(f, a + 1, a + c) = Total(f, a + 1, (a + c) - 1) + f[a + c]
  <2>1. a + 1 <= a + c /\ a + 1 \in Int /\ a + c \in Int BY <1>2, <1>3
  <2>2. \A k \in a + 1 .. a + c : f[k] \in Int
    <3>1. \A k \in a + 1 .. a + c : k \in a + 1 .. a + n BY <1>2
    <3> QED BY <3>1
  <2> QED BY <2>1, <2>2, LastTerm
<1>7. f[a + c] = v
  <2>1. a + c \in a + 1 .. a + n BY <1>2, <1>3
  <2> QED BY <2>1
<1>8. (a + c) - 1 = a + (c - 1) BY <1>2
<1>9. v * c = v * (c - 1) + v BY <1>2
<1>10. PICK x \in Int : x = v * (c - 1) BY <1>2
<1> QED BY <1>2, <1>5, <1>6, <1>7, <1>8, <1>9, <1>10

-----------------------------------------------------------------------------
(* The model.                                                              *)

\* What BuildModel guarantees.
ModelFacts(m) ==
  LET n == Chunks(m) * Per(m) IN
  /\ m.columns \in Nat \ {0} /\ m.row_groups \in Nat \ {0} /\ m.pages \in Nat
  /\ m.rows \in Nat /\ m.rows < 2 ^ WordBits
  /\ m.window.first \in Int /\ m.window.num \in Nat
  /\ Chunks(m) \in Nat \ {0} /\ Per(m) \in Nat \ {0} /\ n \in Nat
  /\ m.block_len \in [1 .. n -> Nat]
  /\ m.block_rows = [k \in 1 .. n |-> PageRows(m, (k - 1) % Per(m))]
  /\ m.chunk_off = [k \in 1 .. Chunks(m) |-> Base + Total(m.block_len, 1, Per(m) * (k - 1))]
  /\ m.chunk_size = [k \in 1 .. Chunks(m) |->
                       Total(m.block_len, FirstBlock(m, k - 1), Per(m) * k)]
  /\ 2 * (Base + Total(m.block_len, 1, n)) < 2 ^ WordBits
  /\ \E c \in Nat : Ordered(m.selected, c, Range(m.selected))
  /\ Range(m.selected) \subseteq 0 .. m.columns - 1

\* The smaller of two numbers.
LEMMA MinOfTwo ==
  ASSUME NEW a \in Nat, NEW b \in Nat
  PROVE  Min({a, b}) \in Nat /\ Min({a, b}) = IF a <= b THEN a ELSE b
<1>1. \E x \in {a, b} : \A y \in {a, b} : x <= y
  <2>1. CASE a <= b BY <2>1
  <2>2. CASE ~(a <= b) BY <2>2
  <2> QED BY <2>1, <2>2
<1>2. Min({a, b}) \in {a, b} /\ \A y \in {a, b} : Min({a, b}) <= y BY <1>1 DEF Min
<1> QED BY <1>2

LEMMA ModelIs ==
  ASSUME NEW m, IsModel(m)
  PROVE  ModelFacts(m)
<1>1. PICK s \in Shapes : \E lens \in BlockLens(s),
                      chosen \in kSubset(Min({s.projected, s.columns}), 0 .. s.columns - 1),
                      window \in {DefaultWindow(s)} \cup Windows :
                        m = BuildModel(s, lens, chosen, window)
  BY DEF IsModel
<1>2. PICK lens \in BlockLens(s),
           chosen \in kSubset(Min({s.projected, s.columns}), 0 .. s.columns - 1),
           window \in {DefaultWindow(s)} \cup Windows :
             m = BuildModel(s, lens, chosen, window)
  BY <1>1
<1>3. /\ s.columns \in Nat \ {0} /\ s.row_groups \in Nat \ {0}
      /\ s.pages \in Nat /\ s.projected \in Nat /\ s.rows \in Nat /\ s.rows < 2 ^ WordBits
      /\ 2 * (Base + Total(lens, 1, Chunks(s) * Per(s))) < 2 ^ WordBits
      /\ DictLens \cup PageLens \subseteq Nat /\ RowLimit \in Nat
  BY LayoutsAssumption
<1>4. /\ m.columns = s.columns /\ m.row_groups = s.row_groups /\ m.pages = s.pages
      /\ m.rows = s.rows /\ m.window = window /\ m.selected = InOrder(chosen)
      /\ m.block_len = lens
      /\ m.block_rows = [k \in DOMAIN lens |-> PageRows(s, (k - 1) % Per(s))]
      /\ m.chunk_off = [k \in 1 .. Chunks(s) |-> Base + Total(lens, 1, Per(s) * (k - 1))]
      /\ m.chunk_size = [k \in 1 .. Chunks(s) |-> Total(lens, FirstBlock(s, k - 1), Per(s) * k)]
  BY <1>2 DEF BuildModel
<1>5. Chunks(m) = Chunks(s) /\ Per(m) = Per(s) BY <1>4 DEF Chunks, Per
<1>6. Chunks(s) \in Nat \ {0} /\ Per(s) \in Nat \ {0}
  <2>1. PICK x \in Nat \ {0} : x = s.columns BY <1>3
  <2>2. PICK y \in Nat \ {0} : y = s.row_groups BY <1>3
  <2>3. x * y \in Nat \ {0} OBVIOUS
  <2> QED BY <1>3, <2>1, <2>2, <2>3, SMTT(30) DEF Chunks, Per
<1>7. PICK n \in Nat : n = Chunks(s) * Per(s)
  <2>1. PICK x \in Nat : x = Chunks(s) BY <1>6
  <2>2. PICK y \in Nat : y = Per(s) BY <1>6
  <2> QED BY <2>1, <2>2
<1>8. lens \in [1 .. n -> Nat] /\ DOMAIN lens = 1 .. n BY <1>2, <1>3, <1>7 DEF BlockLens
<1>9. \A x : PageRows(s, x) = PageRows(m, x) BY <1>4 DEF PageRows, RowsPerPage
<1>10. m.block_rows = [k \in 1 .. n |-> PageRows(m, (k - 1) % Per(m))]
  BY <1>4, <1>5, <1>8, <1>9
<1>11. \A x : FirstBlock(m, x) = FirstBlock(s, x) BY <1>5 DEF FirstBlock
<1>12. window.first \in Int /\ window.num \in Nat
  <2>1. CASE window \in Windows BY <2>1, LayoutsAssumption
  <2>2. CASE window = DefaultWindow(s)
    <3>1. s.rows \div 2 \in Int BY <1>3
    <3>2. Min({s.rows, RowLimit}) \in Nat BY <1>3, MinOfTwo
    <3> QED BY <2>2, <3>1, <3>2 DEF DefaultWindow
  <2> QED BY <2>1, <2>2
<1>13. /\ \E c \in Nat : Ordered(m.selected, c, Range(m.selected))
       /\ Range(m.selected) \subseteq 0 .. m.columns - 1
  <2>1. chosen \subseteq 0 .. s.columns - 1 BY DEF kSubset
  <2>2. PICK c \in Nat : Ordered(InOrder(chosen), c, chosen) BY <1>3, <2>1, InOrderLast
  <2>3. Range(InOrder(chosen)) = chosen BY <2>2 DEF Ordered, Range
  <2> QED BY <1>4, <2>1, <2>2, <2>3
<1>14. m.chunk_size = [k \in 1 .. Chunks(m) |->
                       Total(m.block_len, FirstBlock(m, k - 1), Per(m) * k)]
  BY <1>4, <1>5, <1>11
<1>15. m.chunk_off = [k \in 1 .. Chunks(m) |-> Base + Total(m.block_len, 1, Per(m) * (k - 1))]
  BY <1>4, <1>5
<1>16. 2 * (Base + Total(m.block_len, 1, n)) < 2 ^ WordBits BY <1>3, <1>4, <1>7
<1>17. n = Chunks(m) * Per(m) BY <1>5, <1>7
<1>18. m.columns \in Nat \ {0} /\ m.row_groups \in Nat \ {0} /\ m.pages \in Nat
       /\ m.rows \in Nat /\ m.rows < 2 ^ WordBits /\ m.block_len \in [1 .. n -> Nat]
       /\ m.window.first \in Int /\ m.window.num \in Nat
       /\ Chunks(m) \in Nat \ {0} /\ Per(m) \in Nat \ {0}
  BY <1>3, <1>4, <1>5, <1>6, <1>8, <1>12
<1> QED BY <1>7, <1>10, <1>13, <1>14, <1>15, <1>16, <1>17, <1>18 DEF ModelFacts

\* The blocks of a chunk are some of the blocks of the file.
LEMMA BlocksOf ==
  ASSUME NEW m, ModelFacts(m), NEW cc \in ChunkIds(m)
  PROVE  /\ cc \in Nat /\ cc + 1 \in 1 .. Chunks(m)
         /\ Per(m) * cc \in Nat /\ Per(m) * (cc + 1) \in Nat
         /\ Per(m) * (cc + 1) = Per(m) * cc + Per(m)
         /\ Per(m) * (cc + 1) <= Chunks(m) * Per(m)
         /\ FirstBlock(m, cc) = Per(m) * cc + 1
         /\ \A p \in 0 .. m.pages : FirstBlock(m, cc) + p \in 1 .. Chunks(m) * Per(m)
<1>1. PICK C \in Nat \ {0} : C = Chunks(m) BY DEF ModelFacts
<1>2. PICK P \in Nat \ {0} : P = Per(m) BY DEF ModelFacts
<1>3. cc \in Nat /\ cc + 1 \in 1 .. C /\ cc < C BY <1>1 DEF ChunkIds
<1>4. P * cc + P <= P * C BY <1>3, QuotientGap
<1>5. P * (cc + 1) = P * cc + P /\ P * C = C * P /\ P * cc \in Nat /\ P * C \in Nat BY <1>3
<1>6. m.pages \in Nat /\ P = m.pages + 1 BY <1>2 DEF ModelFacts, Per
<1>7. PICK x \in Nat : x = P * cc BY <1>5
<1>8. PICK y \in Nat : y = C * P BY <1>5
<1>9. x + P <= y BY <1>4, <1>5, <1>7, <1>8
<1>10. P * (cc + 1) = x + P BY <1>5, <1>7
<1>11. FirstBlock(m, cc) = x + 1 BY <1>2, <1>7 DEF FirstBlock
<1>12. \A p \in 0 .. m.pages : (x + 1) + p \in 1 .. y BY <1>6, <1>9
<1> QED BY <1>1, <1>2, <1>3, <1>7, <1>8, <1>9, <1>10, <1>11, <1>12

\* Where a chunk begins, how long it is, and that both fit an i64.
LEMMA ChunkIs ==
  ASSUME NEW m, ModelFacts(m), NEW cc \in ChunkIds(m)
  PROVE  /\ m.chunk_off[cc + 1] = Base + Total(m.block_len, 1, Per(m) * cc)
         /\ m.chunk_size[cc + 1] = Total(m.block_len, Per(m) * cc + 1, Per(m) * (cc + 1))
         /\ m.chunk_off[cc + 1] \in Nat /\ m.chunk_size[cc + 1] \in Nat
         /\ m.chunk_off[cc + 1] + m.chunk_size[cc + 1]
              = Base + Total(m.block_len, 1, Per(m) * (cc + 1))
         /\ 2 * (m.chunk_off[cc + 1] + m.chunk_size[cc + 1]) < 2 ^ WordBits
         /\ m.chunk_off[cc + 1] >= Base
<1>1. PICK a \in Nat : a = Per(m) * cc BY BlocksOf
<1>2. PICK b \in Nat : b = Per(m) * (cc + 1) BY BlocksOf
<1>3. PICK n \in Nat : n = Chunks(m) * Per(m) BY DEF ModelFacts
<1>4. a <= b /\ b <= n
  <2>1. b = a + Per(m) /\ b <= n BY <1>1, <1>2, <1>3, BlocksOf
  <2>2. Per(m) \in Nat BY DEF ModelFacts
  <2> QED BY <2>1, <2>2
<1>5. \A k \in 1 .. n : m.block_len[k] \in Nat BY <1>3 DEF ModelFacts
<1>6. /\ Total(m.block_len, 1, a) \in Nat /\ Total(m.block_len, 1, b) \in Nat
      /\ Total(m.block_len, a + 1, b) \in Nat
      /\ Total(m.block_len, 1, b) = Total(m.block_len, 1, a) + Total(m.block_len, a + 1, b)
  <2>1. \A k \in 1 .. b : m.block_len[k] \in Nat BY <1>4, <1>5
  <2> QED BY <1>4, <2>1, SumsMeet
<1>7. Total(m.block_len, 1, n) \in Nat /\ Total(m.block_len, 1, b) <= Total(m.block_len, 1, n)
  <2>1. /\ Total(m.block_len, 1, n) \in Nat /\ Total(m.block_len, b + 1, n) \in Nat
        /\ Total(m.block_len, 1, n) = Total(m.block_len, 1, b) + Total(m.block_len, b + 1, n)
    BY <1>4, <1>5, SumsMeet
  <2> QED BY <1>6, <2>1
<1>8. cc + 1 \in 1 .. Chunks(m) /\ cc \in Nat /\ (cc + 1) - 1 = cc /\ FirstBlock(m, cc) = a + 1
  BY <1>1, BlocksOf
<1>9. /\ m.chunk_off = [k \in 1 .. Chunks(m) |-> Base + Total(m.block_len, 1, Per(m) * (k - 1))]
      /\ m.chunk_size = [k \in 1 .. Chunks(m) |->
                          Total(m.block_len, FirstBlock(m, k - 1), Per(m) * k)]
      /\ 2 * (Base + Total(m.block_len, 1, n)) < 2 ^ WordBits /\ Base \in Nat
  BY <1>3, LayoutsAssumption DEF ModelFacts
<1>10. m.chunk_off[cc + 1] = Base + Total(m.block_len, 1, a) BY <1>1, <1>8, <1>9
<1>11. m.chunk_size[cc + 1] = Total(m.block_len, a + 1, b) BY <1>2, <1>8, <1>9
<1>12. 2 ^ WordBits \in Nat BY Powers, WidthsAssumption
<1>13. PICK off \in Nat : off = m.chunk_off[cc + 1] /\ off = Base + Total(m.block_len, 1, a)
  <2>1. PICK t \in Nat : t = Total(m.block_len, 1, a) BY <1>6
  <2>2. Base + t \in Nat BY LayoutsAssumption
  <2> QED BY <1>10, <2>1, <2>2
<1>14. PICK size \in Nat : size = m.chunk_size[cc + 1] /\ size = Total(m.block_len, a + 1, b)
  BY <1>6, <1>11
<1>15. off + size = Base + Total(m.block_len, 1, b) /\ off >= Base
  BY <1>6, <1>9, <1>13, <1>14, SMTT(30)
<1>16. 2 * (off + size) < 2 ^ WordBits
  <2>1. PICK t \in Nat : t = 2 ^ WordBits BY <1>12
  <2>2. off + size <= Base + Total(m.block_len, 1, n) BY <1>6, <1>7, <1>9, <1>15
  <2>3. PICK u \in Nat : u = Base + Total(m.block_len, 1, n) BY <1>7, <1>9
  <2>4. PICK v \in Nat : v = off + size OBVIOUS
  <2>5. 2 * u < t /\ v <= u BY <1>9, <2>1, <2>2, <2>3, <2>4
  <2>6. 2 * v < t BY <2>5
  <2> QED BY <2>1, <2>4, <2>6
<1> QED BY <1>1, <1>2, <1>13, <1>14, <1>15, <1>16

-----------------------------------------------------------------------------
(* The chunks that a query touches.                                        *)

\* A pair of indices in one number.
LEMMA PairIndex ==
  ASSUME NEW R \in Nat \ {0}, NEW N \in Nat, NEW k \in 1 .. N * R
  PROVE  /\ ((k - 1) \div R) + 1 \in 1 .. N /\ (k - 1) \div R \in Nat
         /\ (k - 1) % R \in 0 .. R - 1
         /\ k - 1 = R * ((k - 1) \div R) + ((k - 1) % R)
<1>1. k - 1 \in Nat /\ N * R \in Nat OBVIOUS
<1>2. k - 1 < R * N
  <2>1. R * N = N * R OBVIOUS
  <2>2. PICK x \in Nat : x = N * R OBVIOUS
  <2>3. k - 1 < x BY <2>2
  <2> QED BY <2>1, <2>2, <2>3
<1>3. (k - 1) \div R \in 0 .. N - 1 BY <1>1, <1>2, ByteBefore
<1>4. (k - 1) % R \in 0 .. R - 1 /\ k - 1 = R * ((k - 1) \div R) + ((k - 1) % R)
  BY <1>1, DivMod
<1>5. PICK d \in 0 .. N - 1 : d = (k - 1) \div R BY <1>3
<1>6. d + 1 \in 1 .. N /\ d \in Nat OBVIOUS
<1> QED BY <1>4, <1>5, <1>6

\* They are chunks of the file, from the first to the last.
LEMMA TouchedIs ==
  ASSUME NEW m, ModelFacts(m), NEW q
  PROVE  \E n \in Nat :
           /\ DOMAIN Touched(m, q) = 1 .. n /\ Touched(m, q) \in [1 .. n -> ChunkIds(m)]
           /\ \A k, l \in 1 .. n : k < l => Touched(m, q)[k] < Touched(m, q)[l]
<1>1. PICK C \in Nat \ {0} : C = Chunks(m) BY DEF ModelFacts
<1>2. CASE q = "full"
  <2>1. Touched(m, q) = [k \in 1 .. C |-> k - 1] BY <1>1, <1>2 DEF Touched
  <2>2. \A k \in 1 .. C : k - 1 \in ChunkIds(m) BY <1>1 DEF ChunkIds
  <2>3. Touched(m, q) \in [1 .. C -> ChunkIds(m)] BY <2>1, <2>2
  <2>4. \A k, l \in 1 .. C : k < l => Touched(m, q)[k] < Touched(m, q)[l] BY <2>1
  <2> QED BY <2>3, <2>4
<1>3. CASE q # "full"
  <2>1. PICK R \in Nat \ {0} : R = m.row_groups BY DEF ModelFacts
  <2>2. PICK D \in Nat \ {0} : D = m.columns BY DEF ModelFacts
  <2>3. PICK c \in Nat : Ordered(m.selected, c, Range(m.selected)) BY DEF ModelFacts
  <2> DEFINE sel == m.selected
             N == c * R
             At(k) == sel[((k - 1) \div R) + 1] * R + ((k - 1) % R)
  <2>4. /\ sel \in [1 .. c -> 0 .. D - 1] /\ Len(sel) = c
        /\ \A k, l \in 1 .. c : k < l => sel[k] < sel[l]
    <3>1. Range(sel) \subseteq 0 .. D - 1 BY <2>2 DEF ModelFacts
    <3>2. sel \in [1 .. c -> Range(sel)] /\ \A k, l \in 1 .. c : k < l => sel[k] < sel[l]
      BY <2>3 DEF Ordered
    <3> HIDE DEF sel
    <3>3. sel \in [1 .. c -> 0 .. D - 1] BY <3>1, <3>2
    <3> QED BY <3>2, <3>3
  <2>5. C = D * R BY <1>1, <2>1, <2>2 DEF Chunks
  <2>6. N \in Nat OBVIOUS
  <2>7. Touched(m, q) = [k \in 1 .. N |-> At(k)] BY <1>3, <2>1, <2>4 DEF Touched
  <2> HIDE DEF sel
  <2>8. ASSUME NEW k \in 1 .. N
        PROVE  \E s \in 0 .. D - 1, b \in 0 .. R - 1, a \in 0 .. c - 1 :
                 k - 1 = R * a + b /\ s = sel[a + 1] /\ At(k) = R * s + b
    <3>1. PICK a \in 0 .. c - 1 : a = (k - 1) \div R
      <4>1. (k - 1) \div R \in Nat /\ ((k - 1) \div R) + 1 \in 1 .. c BY PairIndex
      <4> QED BY <4>1
    <3>2. PICK b \in 0 .. R - 1 : b = (k - 1) % R BY PairIndex
    <3>3. k - 1 = R * a + b BY <3>1, <3>2, PairIndex
    <3>4. a + 1 \in 1 .. c OBVIOUS
    <3>5. PICK s \in 0 .. D - 1 : s = sel[a + 1] BY <2>4, <3>4
    <3>6. At(k) = s * R + b BY <3>1, <3>2, <3>5
    <3>7. s * R = R * s OBVIOUS
    <3> QED BY <3>3, <3>5, <3>6, <3>7
  <2> HIDE DEF At, N
  <2>9. ASSUME NEW s \in 0 .. D - 1, NEW b \in 0 .. R - 1
        PROVE  R * s + b \in 0 .. C - 1
    <3>1. s \in Int /\ D \in Int /\ s < D OBVIOUS
    <3>2. R * s + R <= R * D BY <3>1, QuotientGap
    <3>3. R * D = C BY <2>5
    <3>4. PICK x \in Nat : x = R * s OBVIOUS
    <3> QED BY <3>2, <3>3, <3>4
  <2>10. \A k \in 1 .. N : At(k) \in ChunkIds(m)
    <3> TAKE k \in 1 .. N
    <3>1. \E s \in 0 .. D - 1, b \in 0 .. R - 1 : At(k) = R * s + b BY <2>8
    <3> QED BY <1>1, <2>9, <3>1 DEF ChunkIds
  <2>11. ASSUME NEW k \in 1 .. N, NEW l \in 1 .. N, k < l PROVE At(k) < At(l)
    <3>1. PICK s \in 0 .. D - 1, b \in 0 .. R - 1, a \in 0 .. c - 1 :
            k - 1 = R * a + b /\ s = sel[a + 1] /\ At(k) = R * s + b
      BY <2>8
    <3>2. PICK t \in 0 .. D - 1, e \in 0 .. R - 1, d \in 0 .. c - 1 :
            l - 1 = R * d + e /\ t = sel[d + 1] /\ At(l) = R * t + e
      BY <2>8
    <3>3. k \in Nat /\ l \in Nat BY <2>6
    <3>4. ~(d < a)
      <4> SUFFICES ASSUME d < a PROVE FALSE OBVIOUS
      <4>1. R * d + R <= R * a BY QuotientGap
      <4>2. PICK x \in Nat : x = R * d OBVIOUS
      <4>3. PICK y \in Nat : y = R * a OBVIOUS
      <4> QED BY <2>11, <3>1, <3>2, <3>3, <4>1, <4>2, <4>3
    <3>5. CASE a = d
      <4>1. PICK x \in Nat : x = R * a OBVIOUS
      <4>2. b < e BY <2>11, <3>1, <3>2, <3>3, <3>5, <4>1
      <4>3. PICK y \in Nat : y = R * s OBVIOUS
      <4>4. s = t BY <3>1, <3>2, <3>5
      <4> QED BY <3>1, <3>2, <4>2, <4>3, <4>4
    <3>6. CASE a < d
      <4>1. a + 1 \in 1 .. c /\ d + 1 \in 1 .. c /\ a + 1 < d + 1 BY <3>6
      <4>2. s < t BY <2>4, <3>1, <3>2, <4>1
      <4>3. R * s + R <= R * t BY <4>2, QuotientGap
      <4>4. PICK x \in Nat : x = R * s OBVIOUS
      <4>5. PICK y \in Nat : y = R * t OBVIOUS
      <4> QED BY <3>1, <3>2, <4>3, <4>4, <4>5
    <3> QED BY <3>4, <3>5, <3>6
  <2>12. Touched(m, q) \in [1 .. N -> ChunkIds(m)] BY <2>7, <2>10
  <2>13. \A k, l \in 1 .. N : k < l => Touched(m, q)[k] < Touched(m, q)[l] BY <2>7, <2>11
  <2>14. N \in Nat BY <2>6 DEF N
  <2> QED BY <2>12, <2>13, <2>14
<1> QED BY <1>2, <1>3

\* Two answers are the same when they are the same for every chunk.
LEMMA SameAnswers ==
  ASSUME NEW m, ModelFacts(m), NEW q, NEW e, NEW f, \A cc \in ChunkIds(m) : e[cc] = f[cc]
  PROVE  ForEachSelected(m, q, e) = ForEachSelected(m, q, f)
<1>1. PICK n \in Nat : Touched(m, q) \in [1 .. n -> ChunkIds(m)] BY TouchedIs
<1>2. \A k \in DOMAIN Touched(m, q) : Touched(m, q)[k] \in ChunkIds(m) BY <1>1
<1>3. \A k \in DOMAIN Touched(m, q) : e[Touched(m, q)[k]] = f[Touched(m, q)[k]] BY <1>2
<1> QED BY <1>3 DEF ForEachSelected

\* What a query that fetches whole chunks is answered.
LEMMA ChunkAnswers ==
  ASSUME NEW m, ModelFacts(m), NEW q, NEW e,
         \A cc \in ChunkIds(m) : e[cc] = Locator(m.chunk_off[cc + 1], m.chunk_size[cc + 1])
  PROVE  ForEachSelected(m, q, e) = Expected(m, q)
<1> DEFINE f == [cc \in ChunkIds(m) |-> Locator(m.chunk_off[cc + 1], m.chunk_size[cc + 1])]
<1>1. \A cc \in ChunkIds(m) : e[cc] = f[cc] OBVIOUS
<1> HIDE DEF f
<1>2. ForEachSelected(m, q, e) = ForEachSelected(m, q, f) BY <1>1, SameAnswers
<1> QED BY <1>2 DEF f, Expected

\* A row range touches the chunks of the projection.
LEMMA RowsLikeProject ==
  ASSUME NEW m PROVE Expected(m, "rows") = Expected(m, "project")
<1>1. "rows" # "full" /\ "project" # "full" OBVIOUS
<1> QED BY <1>1 DEF Expected, ForEachSelected, Touched

-----------------------------------------------------------------------------
(* Packed lists.                                                           *)

\* A list of numbers that fit a word.
NumberList(list, n) ==
  /\ list \in [1 .. n -> Nat]
  /\ \A k \in 1 .. n : list[k] < 2 ^ WordBits

\* It is a list of words, and its width holds all of them.
LEMMA NumbersFit ==
  ASSUME NEW n \in Nat, NEW list, NumberList(list, n)
  PROVE  LET w == WidthFor(Numbers(list)) IN
         /\ Numbers(list) \in Seq(Word) /\ Len(Numbers(list)) = n
         /\ w \in 0 .. WordBits
         /\ \A k \in 1 .. n : Numbers(list)[k] = BitsOf(list[k]) /\ Numbers(list)[k] \subseteq Low(w)
<1>1. Numbers(list) = [k \in 1 .. n |-> BitsOf(list[k])] BY DEF Numbers, NumberList
<1>2. \A k \in 1 .. n : BitsOf(list[k]) \in Word BY DEF BitsOf, Word
<1>3. Numbers(list) \in [1 .. n -> Word] BY <1>1, <1>2
<1>4. Numbers(list) \in Seq(Word) /\ Len(Numbers(list)) = n BY <1>3
<1>5. \A k \in 1 .. n : Numbers(list)[k] = BitsOf(list[k]) BY <1>1
<1> QED BY <1>4, <1>5, WidthForHolds

\* Any of its numbers is read from bytes that begin with the packed list.
LEMMA ListReadsBack ==
  ASSUME NEW n \in Nat, NEW list, NumberList(list, n), NEW idx \in Low(n),
         NEW w, w = WidthFor(Numbers(list)), NEW bytes \in Seq(Byte),
         BytesFor(n, w) <= Len(bytes),
         \A k \in 1 .. BytesFor(n, w) : bytes[k] = PackBits(Numbers(list), w)[k]
  PROVE  Extracted(bytes, idx, w) = list[idx + 1]
<1> DEFINE s == Numbers(list)
           pad == [k \in 1 .. Pad |-> {}]
           data == bytes \o pad
<1>1. /\ Len(s) = n /\ w \in 0 .. WordBits
      /\ \A k \in 1 .. Len(s) : s[k] = BitsOf(list[k]) /\ s[k] \subseteq Low(w)
  BY NumbersFit
<1>2. idx + 1 \in 1 .. n /\ list[idx + 1] \in Nat /\ list[idx + 1] < 2 ^ WordBits
  BY DEF Low, NumberList
<1>3. Pad \in Nat /\ Window \in Nat /\ Pad >= Window - 1 /\ Len(bytes) \in Nat
  BY LayoutsAssumption, WidthsAssumption, LenProperties
<1>4. pad \in Seq(Byte) /\ Len(pad) = Pad
  <2>1. pad \in [1 .. Pad -> Byte] BY DEF Byte
  <2> HIDE DEF pad
  <2> QED BY <1>3, <2>1
<1> HIDE DEF s, pad
<1>5. data \in Seq(Byte) /\ Len(data) = Len(bytes) + Pad
      /\ \A k \in 1 .. Len(bytes) : data[k] = bytes[k]
  <2>1. /\ data \in Seq(Byte) /\ Len(data) = Len(bytes) + Pad
        /\ \A k \in 1 .. Len(bytes) + Len(pad) :
             data[k] = IF k <= Len(bytes) THEN bytes[k] ELSE pad[k - Len(bytes)]
    BY <1>4, ConcatProperties
  <2>2. \A k \in 1 .. Len(bytes) : k \in 1 .. Len(bytes) + Len(pad) /\ k <= Len(bytes)
    BY <1>3, <1>4
  <2> QED BY <2>1, <2>2
<1>6. PICK b \in Nat : b = BytesFor(n, w)
  <2>1. w \in Nat BY <1>1, WidthsAssumption
  <2> QED BY <2>1, BytesCover
<1>7. w # 0 =>
        \A k \in 1 .. ((w * idx) \div ByteBits) + Window :
          /\ data[k] \subseteq Low(ByteBits)
          /\ k <= BytesFor(Len(s), w) => data[k] = PackBits(s, w)[k]
  <2> SUFFICES ASSUME w # 0, NEW k \in 1 .. ((w * idx) \div ByteBits) + Window
               PROVE  /\ data[k] \subseteq Low(ByteBits)
                      /\ k <= BytesFor(Len(s), w) => data[k] = PackBits(s, w)[k]
    OBVIOUS
  <2>1. w \in 1 .. WordBits BY <1>1
  <2>2. (w * idx) \div ByteBits \in 0 .. b - 1 BY <1>6, <2>1, FirstPacked
  <2>3. PICK d \in 0 .. b - 1 : d = (w * idx) \div ByteBits BY <2>2
  <2>4. k \in 1 .. d + Window BY <2>3
  <2>5. k \in 1 .. Len(data) BY <1>3, <1>5, <1>6, <2>4
  <2>6. data[k] \in Byte BY <1>5, <2>5, ElementOfSeq
  <2>7. k <= b => data[k] = PackBits(s, w)[k]
    <3> SUFFICES ASSUME k <= b PROVE data[k] = PackBits(s, w)[k] OBVIOUS
    <3>1. k \in 1 .. b /\ k \in 1 .. Len(bytes) BY <1>3, <1>6, <2>4
    <3> QED BY <1>5, <1>6, <3>1 DEF s
  <2> QED BY <1>1, <1>6, <2>6, <2>7 DEF Byte
<1>8. ExtractBits(data, idx, w) = s[idx + 1]
  <2> HIDE DEF data
  <2>1. Len(s) \in Nat /\ idx \in Low(Len(s)) BY <1>1
  <2> QED BY <1>1, <1>7, <2>1, ReadPacked
<1>9. Extracted(bytes, idx, w) = NumberOf(s[idx + 1])
  BY <1>8 DEF Extracted, ReadPaddedByteList, pad
<1>10. NumberOf(BitsOf(list[idx + 1])) = list[idx + 1] BY <1>2, NumberIs
<1> QED BY <1>1, <1>2, <1>9, <1>10

\* What WriteByteList wrote, ExtractBits reads.
LEMMA ByteListReadsBack ==
  ASSUME NEW n \in Nat, NEW list, NumberList(list, n), NEW idx \in Low(n)
  PROVE  Unpacked(ByteList(list), idx) = list[idx + 1]
<1> DEFINE w == WidthFor(Numbers(list))
           bytes == PackBits(Numbers(list), w)
<1>1. Len(Numbers(list)) = n /\ w \in 0 .. WordBits BY NumbersFit
<1>2. w \in Nat BY <1>1, WidthsAssumption
<1>3. bytes \in Seq(Byte) /\ Len(bytes) = BytesFor(n, w) BY <1>1, <1>2, PackedBytes
<1>4. BytesFor(n, w) <= Len(bytes) BY <1>2, <1>3, BytesCover
<1>5. ByteList(list).width = w /\ ByteList(list).bytes = bytes BY DEF ByteList
<1> HIDE DEF w
<1>6. Extracted(bytes, idx, w) = list[idx + 1] BY <1>3, <1>4, ListReadsBack DEF w
<1> QED BY <1>5, <1>6 DEF Unpacked

-----------------------------------------------------------------------------
(* The lists of the model fit a word.                                      *)

\* A chunk begins where the one before it ends, the first at Base.
LEMMA ChunksAdjoin ==
  ASSUME NEW m, ModelFacts(m)
  PROVE  /\ m.chunk_off[1] = Base
         /\ \A k \in 1 .. Chunks(m) : k > 1 => m.chunk_off[k] = m.chunk_off[k - 1] + m.chunk_size[k - 1]
<1>1. PICK C \in Nat \ {0} : C = Chunks(m) BY DEF ModelFacts
<1>2. m.chunk_off[1] = Base
  <2>1. 0 \in ChunkIds(m) /\ 0 + 1 = 1 BY <1>1 DEF ChunkIds
  <2>2. Per(m) * 0 = 0
    <3>1. Per(m) \in Nat BY DEF ModelFacts
    <3> QED BY <3>1
  <2>3. m.chunk_off[0 + 1] = Base + Total(m.block_len, 1, Per(m) * 0) BY <2>1, ChunkIs
  <2>4. Total(m.block_len, 1, 0) = 0 BY NoTerms
  <2> QED BY <2>1, <2>2, <2>3, <2>4, LayoutsAssumption
<1>3. ASSUME NEW k \in 1 .. C, k > 1
      PROVE  m.chunk_off[k] = m.chunk_off[k - 1] + m.chunk_size[k - 1]
  <2>1. PICK a \in ChunkIds(m) : a = k - 2 BY <1>1, <1>3 DEF ChunkIds
  <2>2. PICK b \in ChunkIds(m) : b = k - 1 BY <1>1, <1>3 DEF ChunkIds
  <2>3. a + 1 = b /\ b = k - 1 /\ b + 1 = k BY <1>3, <2>1, <2>2
  <2>4. m.chunk_off[a + 1] + m.chunk_size[a + 1] = Base + Total(m.block_len, 1, Per(m) * (a + 1))
    BY ChunkIs
  <2>5. m.chunk_off[b + 1] = Base + Total(m.block_len, 1, Per(m) * b) BY ChunkIs
  <2> QED BY <2>3, <2>4, <2>5
<1> QED BY <1>1, <1>2, <1>3

\* A page has no more rows than the group.
LEMMA PageRowsFit ==
  ASSUME NEW m, m.rows \in Nat, m.pages \in Nat, NEW p \in 0 .. m.pages
  PROVE  PageRows(m, p) \in Nat /\ PageRows(m, p) <= m.rows
<1>1. PICK N \in Nat : N = m.rows OBVIOUS
<1>2. PICK G \in Nat : G = m.pages OBVIOUS
<1>3. CASE p = 0 BY <1>1, <1>3 DEF PageRows
<1>4. CASE p # 0
  <2>1. G > 0 /\ G \in Nat \ {0} /\ p > 0 BY <1>2, <1>4
  <2>2. PICK R \in Nat : R = N \div G BY <2>1, DivMod
  <2>3. N = G * R + (N % G) /\ N % G \in 0 .. G - 1 BY <2>1, <2>2, DivMod
  <2>4. PICK y \in Nat : y = (G - 1) * R BY <2>1
  <2>5. G * R = y + R BY <2>1, <2>4
  <2>6. y + R <= N BY <2>3, <2>5
  <2>7. RowsPerPage(m) = R BY <1>1, <1>2, <2>1, <2>2 DEF RowsPerPage
  <2>8. PageRows(m, p) = IF p = G THEN N - y ELSE R
    BY <1>1, <1>2, <1>4, <2>1, <2>4, <2>7 DEF PageRows
  <2>9. CASE p = G
    <3>1. PageRows(m, p) = N - y BY <2>8, <2>9
    <3> QED BY <1>1, <2>6, <3>1
  <2>10. CASE p # G
    <3>1. PageRows(m, p) = R BY <2>8, <2>10
    <3> QED BY <1>1, <2>6, <3>1
  <2> QED BY <2>9, <2>10
<1> QED BY <1>3, <1>4

LEMMA ListsFit ==
  ASSUME NEW m, ModelFacts(m)
  PROVE  LET n == Chunks(m) * Per(m) IN
         /\ NumberList(m.chunk_off, Chunks(m)) /\ NumberList(m.chunk_size, Chunks(m))
         /\ NumberList(m.block_len, n) /\ NumberList(m.block_rows, n)
<1>1. PICK C \in Nat \ {0} : C = Chunks(m) BY DEF ModelFacts
<1>2. PICK P \in Nat \ {0} : P = Per(m) BY DEF ModelFacts
<1>3. PICK n \in Nat : n = Chunks(m) * Per(m) BY DEF ModelFacts
<1>4. PICK t \in Nat : t = 2 ^ WordBits BY Powers, WidthsAssumption
<1>5. ASSUME NEW k \in 1 .. C
      PROVE  m.chunk_off[k] \in Nat /\ m.chunk_size[k] \in Nat /\ m.chunk_off[k] < t /\ m.chunk_size[k] < t
  <2>1. PICK cc \in ChunkIds(m) : cc = k - 1 BY <1>1 DEF ChunkIds
  <2>2. cc + 1 = k BY <2>1
  <2>3. /\ m.chunk_off[k] \in Nat /\ m.chunk_size[k] \in Nat
        /\ 2 * (m.chunk_off[k] + m.chunk_size[k]) < t
    BY <1>4, <2>2, ChunkIs
  <2> QED BY <2>3
<1>6. m.chunk_off \in [1 .. C -> Nat] /\ m.chunk_size \in [1 .. C -> Nat]
  <2>1. /\ m.chunk_off = [k \in 1 .. C |-> m.chunk_off[k]]
        /\ m.chunk_size = [k \in 1 .. C |-> m.chunk_size[k]]
    BY <1>1 DEF ModelFacts
  <2> QED BY <1>5, <2>1
<1>7. m.block_len \in [1 .. n -> Nat] BY <1>3 DEF ModelFacts
<1>8. ASSUME NEW k \in 1 .. n PROVE m.block_len[k] < t
  <2>1. \A j \in 1 .. n : m.block_len[j] \in Nat BY <1>7
  <2>2. k \in Nat /\ k <= n /\ 1 <= k BY <1>3
  <2>3. /\ Total(m.block_len, 1, k) \in Nat /\ Total(m.block_len, k + 1, n) \in Nat
        /\ Total(m.block_len, 1, n) = Total(m.block_len, 1, k) + Total(m.block_len, k + 1, n)
    BY <1>3, <2>1, <2>2, SumsMeet
  <2>4. Total(m.block_len, 1, k) = Total(m.block_len, 1, k - 1) + m.block_len[k]
    <3>1. \A j \in 1 .. k : m.block_len[j] \in Int BY <2>1, <2>2
    <3>2. 1 \in Int /\ k \in Int BY <2>2
    <3>3. PICK f : f = m.block_len OBVIOUS
    <3> QED BY <2>2, <3>1, <3>2, <3>3, LastTerm, ZenonT(30)
  <2>5. Total(m.block_len, 1, k - 1) \in Nat
    <3>1. k - 1 \in Nat /\ k - 1 <= n BY <2>2
    <3> QED BY <1>3, <2>1, <3>1, SumsMeet
  <2>6. m.block_len[k] \in Nat BY <2>1
  <2>7. 2 * (Base + Total(m.block_len, 1, n)) < t BY <1>3, <1>4 DEF ModelFacts
  <2>8. Base \in Nat BY LayoutsAssumption
  <2> QED BY <2>3, <2>4, <2>5, <2>6, <2>7, <2>8
<1>9. ASSUME NEW k \in 1 .. n PROVE m.block_rows[k] \in Nat /\ m.block_rows[k] < t
  <2>1. m.block_rows[k] = PageRows(m, (k - 1) % P) BY <1>2, <1>3 DEF ModelFacts
  <2>2. k - 1 \in Nat BY <1>3
  <2>3. (k - 1) % P \in 0 .. P - 1 BY <2>2, DivMod
  <2>4. P - 1 = m.pages /\ m.pages \in Nat /\ m.rows \in Nat /\ m.rows < t
    BY <1>2, <1>4 DEF ModelFacts, Per
  <2>5. PICK p \in 0 .. m.pages : p = (k - 1) % P BY <2>3, <2>4
  <2>6. PageRows(m, p) \in Nat /\ PageRows(m, p) <= m.rows BY <2>4, PageRowsFit
  <2> QED BY <2>1, <2>4, <2>5, <2>6
<1>10. m.block_rows \in [1 .. n -> Nat]
  <2>1. m.block_rows = [k \in 1 .. n |-> m.block_rows[k]] BY <1>3 DEF ModelFacts
  <2> QED BY <1>9, <2>1
<1> QED BY <1>1, <1>3, <1>4, <1>5, <1>6, <1>7, <1>8, <1>9, <1>10 DEF NumberList

-----------------------------------------------------------------------------
(* The layouts, for the queries that fetch whole chunks.                   *)

LEMMA SoaAnswers ==
  ASSUME NEW m, ModelFacts(m), NEW q
  PROVE  ResolveSoa(BuildSoa(m), m, q) = Expected(m, q)
<1> DEFINE e == [cc \in ChunkIds(m) |-> Locator(BuildSoa(m).offsets[cc + 1], BuildSoa(m).sizes[cc + 1])]
<1>1. \A cc \in ChunkIds(m) : e[cc] = Locator(m.chunk_off[cc + 1], m.chunk_size[cc + 1])
  BY DEF BuildSoa
<1> HIDE DEF e
<1>2. ForEachSelected(m, q, e) = Expected(m, q) BY <1>1, ChunkAnswers
<1> QED BY <1>2 DEF ResolveSoa, e

\* Pair cc is at 2 * cc + 1 and 2 * cc + 2.
LEMMA AosAnswers ==
  ASSUME NEW m, ModelFacts(m), NEW q
  PROVE  ResolveAos(BuildAos(m), m, q) = Expected(m, q)
<1>1. PICK C \in Nat \ {0} : C = Chunks(m) BY DEF ModelFacts
<1> DEFINE seqs == [k \in 1 .. C |-> <<m.chunk_off[k], m.chunk_size[k]>>]
           pairs == FlattenSeq(seqs)
           e == [cc \in ChunkIds(m) |-> Locator(pairs[cc * 2 + 1], pairs[cc * 2 + 2])]
<1>2. BuildAos(m).pairs = pairs BY <1>1 DEF BuildAos
<1>3. \A k \in 1 .. C : m.chunk_off[k] \in Nat /\ m.chunk_size[k] \in Nat
  BY <1>1, ListsFit DEF NumberList
<1>4. seqs \in Seq(Seq(Nat)) /\ Len(seqs) = C
  <2>1. \A k \in 1 .. C : <<m.chunk_off[k], m.chunk_size[k]>> \in Seq(Nat) BY <1>3
  <2>2. seqs \in [1 .. C -> Seq(Nat)] BY <2>1
  <2> QED BY <2>2
<1>5. \A k \in 1 .. C : /\ Len(seqs[k]) = 2 /\ Lens(seqs)[k] = 2
                        /\ seqs[k][1] = m.chunk_off[k] /\ seqs[k][2] = m.chunk_size[k]
  BY DEF Lens
<1> HIDE DEF seqs, pairs
<1>6. \A k \in 1 .. C : \A j \in 1 .. 2 :
        pairs[SumFunctionOnSet(Lens(seqs), 1 .. k - 1) + j] = seqs[k][j]
  <2> TAKE k \in 1 .. C
  <2> TAKE j \in 1 .. 2
  <2>1. k \in 1 .. Len(seqs) /\ j \in 1 .. Len(seqs[k]) BY <1>4, <1>5
  <2> QED BY <1>4, <2>1, FlattenedParts DEF pairs
<1>7. ASSUME NEW cc \in ChunkIds(m)
      PROVE  e[cc] = Locator(m.chunk_off[cc + 1], m.chunk_size[cc + 1])
  <2>1. cc \in Nat /\ cc + 1 \in 1 .. C /\ (cc + 1) - 1 = cc BY <1>1 DEF ChunkIds
  <2>2. SumFunctionOnSet(Lens(seqs), 1 .. cc) = 2 * cc
    <3>1. \A k \in 0 + 1 .. 0 + cc : Lens(seqs)[k] = 2
      <4>1. \A k \in 0 + 1 .. 0 + cc : k \in 1 .. C BY <2>1
      <4> QED BY <1>5, <4>1
    <3>2. 0 \in Int /\ 2 \in Int OBVIOUS
    <3>3. Total(Lens(seqs), 0 + 1, 0 + cc) = 2 * cc BY <2>1, <3>1, <3>2, EqualTerms, ZenonT(30)
    <3> QED BY <2>1, <3>3 DEF Total
  <2>3. /\ pairs[2 * cc + 1] = m.chunk_off[cc + 1]
        /\ pairs[2 * cc + 2] = m.chunk_size[cc + 1]
    <3>1. 1 \in 1 .. 2 /\ 2 \in 1 .. 2 OBVIOUS
    <3> QED BY <1>5, <1>6, <2>1, <2>2, <3>1
  <2>4. 2 * cc = cc * 2 BY <2>1
  <2> QED BY <2>3, <2>4
<1> HIDE DEF e
<1>8. ForEachSelected(m, q, e) = Expected(m, q) BY <1>7, ChunkAnswers
<1> QED BY <1>2, <1>8 DEF ResolveAos, e

LEMMA SoaBitpackAnswers ==
  ASSUME NEW m, ModelFacts(m), NEW q, NEW b,
         b.offsets = ByteList(m.chunk_off), b.sizes = ByteList(m.chunk_size)
  PROVE  ResolveSoaBitpack(b, m, q) = Expected(m, q)
<1> DEFINE e == [cc \in ChunkIds(m) |-> Locator(Unpacked(b.offsets, cc), Unpacked(b.sizes, cc))]
<1>1. ASSUME NEW cc \in ChunkIds(m)
      PROVE  e[cc] = Locator(m.chunk_off[cc + 1], m.chunk_size[cc + 1])
  <2>1. Chunks(m) \in Nat /\ cc \in Low(Chunks(m)) BY DEF ModelFacts, ChunkIds, Low
  <2>2. NumberList(m.chunk_off, Chunks(m)) /\ NumberList(m.chunk_size, Chunks(m)) BY ListsFit
  <2>3. /\ Unpacked(b.offsets, cc) = m.chunk_off[cc + 1]
        /\ Unpacked(b.sizes, cc) = m.chunk_size[cc + 1]
    BY <2>1, <2>2, ByteListReadsBack
  <2> QED BY <2>3
<1> HIDE DEF e
<1>2. ForEachSelected(m, q, e) = Expected(m, q) BY <1>1, ChunkAnswers
<1> QED BY <1>2 DEF ResolveSoaBitpack, e

\* Differences add up to what they are differences of.
Differences(d, off, base, n) ==
  \A k \in 1 .. n : d[k] = off[k] - IF k = 1 THEN base ELSE off[k - 1]

LEMMA Telescopes ==
  ASSUME NEW n \in Nat, NEW off \in [1 .. n -> Int], NEW base \in Int, NEW d,
         Differences(d, off, base, n)
  PROVE  \A k \in 1 .. n : base + Total(d, 1, k) = off[k]
<1> DEFINE Holds(k) == base + Total(d, 1, k) = off[k]
           wrong == {k \in 1 .. n : ~Holds(k)}
<1>0. wrong = {}
  <2> SUFFICES ASSUME wrong # {} PROVE FALSE OBVIOUS
  <2>1. PICK k \in wrong : \A l \in wrong : k <= l
    <3>1. wrong \subseteq Nat OBVIOUS
    <3> HIDE DEF wrong
    <3> QED BY <3>1, LeastNatural
  <2>2. k \in 1 .. n /\ ~Holds(k) BY <2>1
  <2>3. \A j \in 1 .. k : d[j] \in Int
    <3> TAKE j \in 1 .. k
    <3>1. j \in 1 .. n /\ (j # 1 => j - 1 \in 1 .. n) BY <2>2
    <3> QED BY <3>1 DEF Differences
  <2>4. Total(d, 1, k) = Total(d, 1, k - 1) + d[k] /\ Total(d, 1, k - 1) \in Int
    BY <2>2, <2>3, LastTerm
  <2>5. d[k] \in Int /\ off[k] \in Int BY <2>2, <2>3
  <2>6. CASE k = 1
    <3>1. Total(d, 1, 0) = 0 BY NoTerms
    <3>2. d[k] = off[k] - base BY <2>2, <2>6 DEF Differences
    <3>3. k - 1 = 0 BY <2>6
    <3> QED BY <2>2, <2>4, <2>5, <3>1, <3>2, <3>3
  <2>7. CASE k # 1
    <3>1. k - 1 \in 1 .. n /\ ~(k <= k - 1) BY <2>2, <2>7
    <3>2. base + Total(d, 1, k - 1) = off[k - 1] /\ off[k - 1] \in Int BY <2>1, <3>1
    <3>3. d[k] = off[k] - off[k - 1] BY <2>2, <2>7 DEF Differences
    <3> QED BY <2>2, <2>4, <2>5, <3>2, <3>3
  <2> QED BY <2>6, <2>7
<1> QED BY <1>0

LEMMA DeltaAnswers ==
  ASSUME NEW m, ModelFacts(m), NEW q
  PROVE  ResolveSoaDeltaBitpack(BuildSoaDeltaBitpack(m), m, q) = Expected(m, q)
<1>1. PICK C \in Nat \ {0} : C = Chunks(m) BY DEF ModelFacts
<1> DEFINE b == BuildSoaDeltaBitpack(m)
           d == [k \in 1 .. C |-> m.chunk_off[k] - IF k = 1 THEN Base ELSE m.chunk_off[k - 1]]
           delta == [k \in 1 .. C |-> Unpacked(b.deltas, k - 1)]
           off == [k \in 1 .. C |-> b.base + Total(delta, 1, k)]
           e == [cc \in ChunkIds(m) |-> Locator(off[cc + 1], Unpacked(b.sizes, cc))]
<1>2. b.base = Base /\ b.deltas = ByteList(d) /\ b.sizes = ByteList(m.chunk_size)
  BY <1>1 DEF BuildSoaDeltaBitpack
<1>3. NumberList(m.chunk_off, C) /\ NumberList(m.chunk_size, C) BY <1>1, ListsFit
<1>4. PICK t \in Nat : t = 2 ^ WordBits BY Powers, WidthsAssumption
<1>5. NumberList(d, C)
  <2>1. ASSUME NEW k \in 1 .. C PROVE d[k] \in Nat /\ d[k] < t
    <3>1. m.chunk_off[k] \in Nat /\ m.chunk_off[k] < t BY <1>3, <1>4 DEF NumberList
    <3>2. CASE k = 1
      <4>1. m.chunk_off[1] = Base BY ChunksAdjoin
      <4>2. d[k] = m.chunk_off[k] - Base BY <3>2
      <4>3. d[k] = 0 BY <3>1, <3>2, <4>1, <4>2
      <4> QED BY <3>1, <4>3
    <3>3. CASE k # 1
      <4>1. k > 1 /\ k - 1 \in 1 .. C BY <3>3
      <4>2. m.chunk_off[k] = m.chunk_off[k - 1] + m.chunk_size[k - 1] BY <1>1, <4>1, ChunksAdjoin
      <4>3. m.chunk_off[k - 1] \in Nat /\ m.chunk_size[k - 1] \in Nat /\ m.chunk_size[k - 1] < t
        BY <1>3, <1>4, <4>1 DEF NumberList
      <4>4. d[k] = m.chunk_off[k] - m.chunk_off[k - 1] BY <3>3
      <4> QED BY <4>2, <4>3, <4>4
    <3> QED BY <3>2, <3>3
  <2>2. d \in [1 .. C -> Nat]
    <3>1. d = [k \in 1 .. C |-> d[k]] OBVIOUS
    <3> HIDE DEF d
    <3> QED BY <2>1, <3>1
  <2> HIDE DEF d
  <2> QED BY <1>4, <2>1, <2>2 DEF NumberList
<1>6. \A k \in 1 .. C : d[k] = m.chunk_off[k] - IF k = 1 THEN Base ELSE m.chunk_off[k - 1]
  OBVIOUS
<1> HIDE DEF d, b
<1>7. \A k \in 1 .. C : delta[k] = d[k]
  <2> TAKE k \in 1 .. C
  <2>1. k - 1 \in Low(C) /\ (k - 1) + 1 = k BY DEF Low
  <2> QED BY <1>2, <1>5, <2>1, ByteListReadsBack
<1> HIDE DEF delta
<1>8. \A k \in 1 .. C : off[k] = m.chunk_off[k]
  <2>1. \A k \in 1 .. C : delta[k] = m.chunk_off[k] - IF k = 1 THEN Base ELSE m.chunk_off[k - 1]
    BY <1>6, <1>7
  <2>2. Base \in Int /\ m.chunk_off \in [1 .. C -> Int]
    BY <1>3, LayoutsAssumption DEF NumberList
  <2>3. \A k \in 1 .. C : Base + Total(delta, 1, k) = m.chunk_off[k]
    <3>1. PICK n \in Nat : n = C OBVIOUS
    <3>2. PICK o \in [1 .. n -> Int] : o = m.chunk_off BY <2>2, <3>1
    <3>3. Differences(delta, o, Base, n) BY <2>1, <3>1, <3>2 DEF Differences
    <3>4. Base \in Int BY <2>2
    <3>5. \A k \in 1 .. n : Base + Total(delta, 1, k) = o[k] BY <3>3, <3>4, Telescopes
    <3> QED BY <3>1, <3>2, <3>5
  <2> QED BY <1>2, <2>3
<1> HIDE DEF off
<1>9. ASSUME NEW cc \in ChunkIds(m)
      PROVE  e[cc] = Locator(m.chunk_off[cc + 1], m.chunk_size[cc + 1])
  <2>1. cc \in Low(C) /\ cc + 1 \in 1 .. C BY <1>1 DEF ChunkIds, Low
  <2>2. Unpacked(b.sizes, cc) = m.chunk_size[cc + 1] BY <1>2, <1>3, <2>1, ByteListReadsBack
  <2> QED BY <1>8, <2>1, <2>2
<1> HIDE DEF e
<1>10. ForEachSelected(m, q, e) = Expected(m, q) BY <1>9, ChunkAnswers
<1> QED BY <1>1, <1>10 DEF ResolveSoaDeltaBitpack, e, off, delta, b

-----------------------------------------------------------------------------
(* One struct for each chunk.                                              *)

\* The bytes that follow the first "at" bytes of a buffer.
Lies(part, at, bytes) ==
  /\ at + Len(part) <= Len(bytes)
  /\ \A k \in 1 .. Len(part) : bytes[at + k] = part[k]

\* So do the parts that they are made of.
LEMMA PartsLie ==
  ASSUME NEW p \in Seq(Byte), NEW q \in Seq(Byte), NEW bytes \in Seq(Byte), NEW at \in Nat,
         Lies(p \o q, at, bytes)
  PROVE  Lies(p, at, bytes) /\ Lies(q, at + Len(p), bytes) /\ p \o q \in Seq(Byte)
         /\ Len(p \o q) = Len(p) + Len(q)
<1>1. PICK r \in Seq(Byte) : r = p \o q BY ConcatProperties
<1>2. /\ Len(r) = Len(p) + Len(q)
      /\ \A k \in 1 .. Len(p) + Len(q) : r[k] = IF k <= Len(p) THEN p[k] ELSE q[k - Len(p)]
  BY <1>1, ConcatProperties
<1>3. PICK l \in Nat : l = Len(p) BY LenProperties
<1>4. PICK n \in Nat : n = Len(q) BY LenProperties
<1>5. PICK t \in Nat : t = Len(bytes) BY LenProperties
<1>6. at + (l + n) <= t /\ \A k \in 1 .. l + n : bytes[at + k] = r[k]
  BY <1>1, <1>2, <1>3, <1>4, <1>5 DEF Lies
<1>7. Lies(p, at, bytes)
  <2>1. \A k \in 1 .. l : k \in 1 .. l + n /\ k <= l OBVIOUS
  <2>2. \A k \in 1 .. l : bytes[at + k] = p[k] BY <1>2, <1>3, <1>4, <1>6, <2>1
  <2>3. at + l <= t BY <1>6
  <2> QED BY <1>3, <1>5, <2>2, <2>3 DEF Lies
<1>8. Lies(q, at + l, bytes)
  <2>1. ASSUME NEW k \in 1 .. n PROVE bytes[(at + l) + k] = q[k]
    <3>1. l + k \in 1 .. l + n /\ ~(l + k <= l) /\ (l + k) - l = k /\ at + (l + k) = (at + l) + k
      OBVIOUS
    <3>2. bytes[at + (l + k)] = r[l + k] BY <1>6, <3>1
    <3>3. r[l + k] = q[(l + k) - l] BY <1>2, <1>3, <1>4, <3>1
    <3> QED BY <3>1, <3>2, <3>3
  <2>2. (at + l) + n <= t BY <1>6
  <2> QED BY <1>4, <1>5, <2>1, <2>2 DEF Lies
<1> QED BY <1>1, <1>2, <1>3, <1>7, <1>8

\* A varint is found to end where it ends, and holds the word.
LEMMA VarintReads ==
  ASSUME NEW word, word \subseteq Low(WordBits), NEW bytes \in Seq(Byte), NEW at \in Nat,
         Lies(UlebOf(word), at, bytes)
  PROVE  LET n == UlebLen(bytes, at + 1) IN
         /\ n = UlebSize(word) /\ n \in Nat
         /\ UlebValue(SubSeq(bytes, at + 1, at + n)) = word
<1> DEFINE uleb == UlebOf(word)
           Ends(k) == /\ More \notin bytes[(at + 1) + k - 1]
                      /\ \A j \in 1 .. k - 1 : More \in bytes[(at + 1) + j - 1]
           n == CHOOSE k \in 1 .. Len(bytes) : Ends(k)
<1>1. PICK m \in Nat \ {0} : m = UlebSize(word) BY UlebKeepsWord
<1>2. /\ uleb \in Seq(Byte) /\ Len(uleb) = m
      /\ \A k \in 1 .. m : More \in uleb[k] <=> k < m
      /\ UlebValue(uleb) = word
  BY <1>1, UlebKeepsWord
<1> HIDE DEF uleb
<1>3. PICK t \in Nat : t = Len(bytes) BY LenProperties
<1>4. at + m <= t /\ \A k \in 1 .. m : bytes[at + k] = uleb[k]
  BY <1>2, <1>3 DEF Lies, uleb
<1>5. \A k \in 1 .. m : (at + 1) + k - 1 = at + k OBVIOUS
<1>6. \A k \in 1 .. m : More \in bytes[(at + 1) + k - 1] <=> k < m BY <1>2, <1>4, <1>5
<1>7. Ends(m)
  <2>1. \A j \in 1 .. m - 1 : j \in 1 .. m /\ j < m BY <1>1
  <2>2. m \in 1 .. m /\ ~(m < m) BY <1>1
  <2> QED BY <1>6, <2>1, <2>2
<1>8. \A k \in 1 .. t : Ends(k) => k = m
  <2> TAKE k \in 1 .. t
  <2> HAVE Ends(k)
  <2>1. CASE k < m
    <3>1. k \in 1 .. m BY <1>1, <2>1
    <3> QED BY <1>6, <2>1, <3>1
  <2>2. CASE m < k
    <3>1. m \in 1 .. k - 1 /\ m \in 1 .. m /\ ~(m < m) BY <1>1, <2>2
    <3> QED BY <1>6, <3>1
  <2> QED BY <1>1, <2>1, <2>2
<1>9. n = m
  <2>1. m \in 1 .. t BY <1>4
  <2> HIDE DEF Ends
  <2> QED BY <1>3, <1>7, <1>8, <2>1
<1>10. UlebLen(bytes, at + 1) = m BY <1>9 DEF UlebLen
<1>11. SubSeq(bytes, at + 1, at + m) = uleb
  <2> DEFINE sub == SubSeq(bytes, at + 1, at + m)
  <2>1. \A ix \in at + 1 .. at + m : bytes[ix] \in Byte
    <3>1. \A ix \in at + 1 .. at + m : ix \in 1 .. Len(bytes) BY <1>3, <1>4
    <3> QED BY <3>1, ElementOfSeq
  <2>2. at + 1 \in Int /\ at + m \in Int /\ at + 1 <= at + m /\ (at + m) - (at + 1) + 1 = m BY <1>1
  <2>3. /\ sub \in Seq(Byte) /\ Len(sub) = m
        /\ \A ix \in 1 .. m : sub[ix] = bytes[(at + 1) + ix - 1]
    BY <2>1, <2>2, SubSeqProperties
  <2> HIDE DEF sub
  <2>4. \A ix \in 1 .. m : sub[ix] = uleb[ix] BY <1>4, <1>5, <2>3
  <2>5. sub = [ix \in 1 .. m |-> sub[ix]] /\ uleb = [ix \in 1 .. m |-> uleb[ix]]
    BY <1>2, <2>3, LenProperties
  <2>6. [ix \in 1 .. m |-> sub[ix]] = [ix \in 1 .. m |-> uleb[ix]] BY <2>4
  <2> QED BY <2>5, <2>6 DEF sub
<1> QED BY <1>1, <1>2, <1>10, <1>11

\* A field's value, behind its header.
LEMMA FieldReads ==
  ASSUME NEW x \in Nat, 2 * x < 2 ^ WordBits, NEW bytes \in Seq(Byte), NEW at \in Nat,
         NEW f, f.at = at + 1, bytes[at + 1] = {0}, Lies(I64(x), at + 1, bytes)
  PROVE  NextField(bytes, f) =
           [at |-> (at + 1 + Len(I64(x))) + 1, id |-> f.id + 1,
            off |-> IF f.id + 1 = 1 THEN x ELSE f.off, sz |-> IF f.id + 1 = 1 THEN f.sz ELSE x]
<1> DEFINE word == BitsOf(2 * x)
           n == UlebLen(bytes, (at + 1) + 1)
<1>1. 2 * x \in Nat /\ (2 * x) \div 2 = x OBVIOUS
<1>2. word \subseteq Low(WordBits) /\ NumberOf(word) = 2 * x BY <1>1, NumberIs DEF BitsOf
<1>3. I64(x) = UlebOf(word) BY DEF I64
<1> HIDE DEF word
<1>4. n = Len(I64(x)) /\ n \in Nat /\ UlebValue(SubSeq(bytes, (at + 1) + 1, (at + 1) + n)) = word
  <2>1. at + 1 \in Nat OBVIOUS
  <2>2. Lies(UlebOf(word), at + 1, bytes) BY <1>3
  <2>3. Len(UlebOf(word)) = UlebSize(word) BY <1>2, UlebKeepsWord
  <2> QED BY <1>2, <1>3, <2>1, <2>2, <2>3, VarintReads
<1> HIDE DEF n
<1>5. bytes[f.at] # {} OBVIOUS
<1>6. (at + 1) + 1 + n = (at + 1 + n) + 1 BY <1>4
<1>7. UlebLen(bytes, f.at + 1) = n /\ f.at + n = (at + 1) + n /\ f.at + 1 = (at + 1) + 1 BY DEF n
<1>8. NumberOf(UlebValue(SubSeq(bytes, f.at + 1, f.at + n))) \div 2 = x BY <1>1, <1>2, <1>4, <1>7
<1>9. f.at + 1 + n = (at + 1 + n) + 1 BY <1>6
<1> QED BY <1>4, <1>5, <1>7, <1>8, <1>9 DEF NextField

\* Where the parts of a struct are.
LEMMA StructParts ==
  ASSUME NEW off \in Nat, 2 * off < 2 ^ WordBits, NEW size \in Nat, 2 * size < 2 ^ WordBits,
         NEW bytes \in Seq(Byte), NEW at \in Nat, Lies(Struct(off, size), at, bytes)
  PROVE  LET a == Len(I64(off))
             b == Len(I64(size))
         IN  /\ a \in Nat /\ b \in Nat /\ at + a + b + 3 <= Len(bytes)
             /\ bytes[at + 1] = {0} /\ Lies(I64(off), at + 1, bytes)
             /\ bytes[(at + 1 + a) + 1] = {0} /\ Lies(I64(size), (at + 1 + a) + 1, bytes)
             /\ bytes[(at + 1 + a + 1 + b) + 1] = {}
<1>1. {0} \in Byte /\ {} \in Byte BY WidthsAssumption, NumbersAssumption DEF Byte, Low
<1>2. PICK h \in Seq(Byte) : h = <<{0}>>
  <2>1. <<{0}>> \in Seq(Byte) BY <1>1
  <2> QED BY <2>1
<1>3. PICK e \in Seq(Byte) : e = <<{}>>
  <2>1. <<{}>> \in Seq(Byte) BY <1>1
  <2> QED BY <2>1
<1>4. Len(h) = 1 /\ h[1] = {0} /\ Len(e) = 1 /\ e[1] = {} BY <1>2, <1>3
<1>5. \A x : I64(x) \in Seq(Byte)
  <2> TAKE x
  <2>1. BitsOf(2 * x) \subseteq Low(WordBits) BY DEF BitsOf
  <2> QED BY <2>1, UlebKeepsWord DEF I64
<1>6. PICK p \in Seq(Byte) : p = I64(off) BY <1>5
<1>7. PICK q \in Seq(Byte) : q = I64(size) BY <1>5
<1>8. PICK a \in Nat : a = Len(p) BY LenProperties
<1>9. PICK b \in Nat : b = Len(q) BY LenProperties
<1> DEFINE Join(s, t) == s \o t \in Seq(Byte) /\ Len(s \o t) = Len(s) + Len(t)
<1>join. \A s, t \in Seq(Byte) : Join(s, t) BY ConcatProperties
<1>10. h \o p \in Seq(Byte) /\ Len(h \o p) = 1 + a
  <2>1. Join(h, p) BY <1>join
  <2> QED BY <1>4, <1>8, <2>1
<1>11. (h \o p) \o h \in Seq(Byte) /\ Len((h \o p) \o h) = 1 + a + 1
  <2>1. Join(h \o p, h) BY <1>join, <1>10
  <2> QED BY <1>4, <1>10, <2>1
<1>12. ((h \o p) \o h) \o q \in Seq(Byte) /\ Len(((h \o p) \o h) \o q) = 1 + a + 1 + b
  <2>1. Join((h \o p) \o h, q) BY <1>join, <1>11
  <2> QED BY <1>9, <1>11, <2>1
<1>13. Lies((((h \o p) \o h) \o q) \o e, at, bytes)
  BY <1>2, <1>3, <1>6, <1>7 DEF Struct
<1>14. Lies(((h \o p) \o h) \o q, at, bytes) /\ Lies(e, at + (1 + a + 1 + b), bytes)
  BY <1>12, <1>13, PartsLie
<1>15. Lies((h \o p) \o h, at, bytes) /\ Lies(q, at + (1 + a + 1), bytes)
  BY <1>11, <1>14, PartsLie
<1>16. Lies(h \o p, at, bytes) /\ Lies(h, at + (1 + a), bytes) BY <1>10, <1>15, PartsLie
<1>17. Lies(h, at, bytes) /\ Lies(p, at + 1, bytes) BY <1>4, <1>16, PartsLie
<1>18. PICK t \in Nat : t = Len(bytes) BY LenProperties
<1>19. \A x \in Nat : Lies(h, x, bytes) => bytes[x + 1] = {0}
  <2>1. 1 \in 1 .. 1 OBVIOUS
  <2> QED BY <1>4, <2>1 DEF Lies
<1>20. (at + (1 + a + 1 + b)) + 1 <= t /\ bytes[(at + (1 + a + 1 + b)) + 1] = {}
  <2>1. 1 \in 1 .. 1 OBVIOUS
  <2> QED BY <1>4, <1>14, <1>18, <2>1 DEF Lies
<1>21. /\ at + (1 + a + 1 + b) = at + 1 + a + 1 + b /\ at + (1 + a + 1) = (at + 1 + a) + 1
       /\ at + (1 + a) = at + 1 + a /\ at + (1 + a) \in Nat
       /\ (at + (1 + a + 1 + b)) + 1 = at + a + b + 3
  OBVIOUS
<1>22. /\ at + a + b + 3 <= t /\ bytes[at + 1] = {0} /\ bytes[(at + 1 + a) + 1] = {0}
       /\ bytes[(at + 1 + a + 1 + b) + 1] = {} /\ Lies(q, (at + 1 + a) + 1, bytes)
  BY <1>15, <1>16, <1>17, <1>19, <1>20, <1>21
<1> QED BY <1>6, <1>7, <1>8, <1>9, <1>17, <1>18, <1>22

\* A reader that starts at a struct finds its two fields and its end.
LEMMA StructReads ==
  ASSUME NEW off \in Nat, 2 * off < 2 ^ WordBits, NEW size \in Nat, 2 * size < 2 ^ WordBits,
         NEW bytes \in Seq(Byte), NEW at \in Nat, Lies(Struct(off, size), at, bytes)
  PROVE  Fields(bytes, at).off = off /\ Fields(bytes, at).sz = size
<1> DEFINE a == Len(I64(off))
           b == Len(I64(size))
           f0 == FirstField(bytes, at)
           f1 == [at |-> (at + 1 + a) + 1, id |-> 1, off |-> off, sz |-> 0]
           f2 == [at |-> (at + 1 + a + 1 + b) + 1, id |-> 2, off |-> off, sz |-> size]
           n == Len(bytes)
           Holds(f) == f = [k \in 0 .. n |->
                             IF k = 0 THEN f0 ELSE NextField(bytes, f[k - 1])]
           g == [k \in 0 .. n |-> IF k = 0 THEN f0 ELSE IF k = 1 THEN f1 ELSE f2]
           h == CHOOSE f : Holds(f)
<1>1. /\ a \in Nat /\ b \in Nat /\ at + a + b + 3 <= n /\ n \in Nat
      /\ bytes[at + 1] = {0} /\ Lies(I64(off), at + 1, bytes)
      /\ bytes[(at + 1 + a) + 1] = {0} /\ Lies(I64(size), (at + 1 + a) + 1, bytes)
      /\ bytes[(at + 1 + a + 1 + b) + 1] = {}
  BY StructParts, LenProperties
<1>2. f0 = [at |-> at + 1, id |-> 0, off |-> 0, sz |-> 0] BY DEF FirstField
<1> HIDE DEF a, b
<1>3. NextField(bytes, f0) = f1
  <2>1. f0.at = at + 1 /\ f0.id = 0 /\ f0.off = 0 /\ f0.sz = 0 BY <1>2
  <2> HIDE DEF f0
  <2>2. NextField(bytes, f0) =
           [at |-> (at + 1 + Len(I64(off))) + 1, id |-> f0.id + 1,
            off |-> IF f0.id + 1 = 1 THEN off ELSE f0.off,
            sz |-> IF f0.id + 1 = 1 THEN f0.sz ELSE off]
    BY <1>1, <2>1, FieldReads
  <2>3. f0.id + 1 = 1 BY <2>1
  <2> QED BY <2>1, <2>2, <2>3 DEF a
<1>4. NextField(bytes, f1) = f2
  <2>1. f1.at = (at + 1 + a) + 1 /\ f1.id = 1 /\ f1.off = off /\ f1.sz = 0 OBVIOUS
  <2> HIDE DEF f1
  <2>2. PICK x \in Nat : x = at + 1 + a BY <1>1
  <2>3. f1.at = x + 1 /\ bytes[x + 1] = {0} BY <1>1, <2>1, <2>2
  <2>4. Lies(I64(size), x + 1, bytes) BY <1>1, <2>2
  <2>5. 2 * size < 2 ^ WordBits OBVIOUS
  <2>6. ASSUME NEW f, f.at = x + 1
        PROVE  NextField(bytes, f) =
                 [at |-> (x + 1 + Len(I64(size))) + 1, id |-> f.id + 1,
                  off |-> IF f.id + 1 = 1 THEN size ELSE f.off,
                  sz |-> IF f.id + 1 = 1 THEN f.sz ELSE size]
    BY <2>3, <2>4, <2>5, <2>6, FieldReads
  <2>7. NextField(bytes, f1) =
           [at |-> (x + 1 + Len(I64(size))) + 1, id |-> f1.id + 1,
            off |-> IF f1.id + 1 = 1 THEN size ELSE f1.off,
            sz |-> IF f1.id + 1 = 1 THEN f1.sz ELSE size]
    BY <2>3, <2>6
  <2>8. f1.id + 1 = 2 /\ 2 # 1 BY <2>1
  <2> QED BY <2>1, <2>2, <2>7, <2>8 DEF b
<1>5. NextField(bytes, f2) = f2
  <2>1. f2.at = (at + 1 + a + 1 + b) + 1 OBVIOUS
  <2> HIDE DEF f2
  <2> QED BY <1>1, <2>1 DEF NextField
<1> HIDE DEF f0, f1, f2, n
<1>6. Holds(g)
  <2> SUFFICES ASSUME NEW k \in 0 .. n, k # 0 PROVE g[k] = NextField(bytes, g[k - 1]) OBVIOUS
  <2>1. k - 1 \in 0 .. n BY <1>1
  <2>2. CASE k = 1 BY <1>3, <2>1, <2>2
  <2>3. CASE k = 2 BY <1>4, <2>1, <2>3
  <2>4. CASE k # 1 /\ k # 2
    <3>1. k - 1 # 0 /\ k - 1 # 1 BY <1>1, <2>4
    <3> QED BY <1>5, <2>1, <2>4, <3>1
  <2> QED BY <2>2, <2>3, <2>4
<1>7. Holds(h)
  <2> HIDE DEF g, Holds
  <2> QED BY <1>6
<1>8. Fields(bytes, at) = h[n] BY DEF Fields, f0, n
<1>9. \A k \in 0 .. n : h[k] = IF k = 0 THEN f0 ELSE NextField(bytes, h[k - 1]) BY <1>7
<1> HIDE DEF h
<1> DEFINE wrong == {k \in 0 .. n : k > 1 /\ h[k] # f2}
<1>10. wrong = {}
  <2> SUFFICES ASSUME wrong # {} PROVE FALSE OBVIOUS
  <2>1. PICK k \in wrong : \A l \in wrong : k <= l
    <3>1. wrong \subseteq Nat BY <1>1
    <3> HIDE DEF wrong
    <3> QED BY <3>1, LeastNatural
  <2>2. k \in 0 .. n /\ k > 1 /\ h[k] # f2 BY <2>1
  <2>3. k - 1 \in 0 .. n /\ k # 0 /\ ~(k <= k - 1) BY <1>1, <2>2
  <2>4. h[k] = NextField(bytes, h[k - 1]) BY <1>9, <2>2, <2>3
  <2>5. CASE k = 2
    <3>1. 0 \in 0 .. n /\ 1 \in 0 .. n /\ 1 - 1 = 0 BY <1>1
    <3>2. h[0] = f0 BY <1>9, <3>1
    <3>3. h[1] = f1 BY <1>3, <1>9, <3>1, <3>2
    <3> QED BY <1>4, <2>2, <2>4, <2>5, <3>3
  <2>6. CASE k # 2
    <3>1. k - 1 > 1 BY <2>2, <2>6
    <3>2. h[k - 1] = f2 BY <2>1, <2>3, <3>1
    <3> QED BY <1>5, <2>2, <2>4, <3>2
  <2> QED BY <2>5, <2>6
<1>11. n \in 0 .. n /\ n > 1 BY <1>1
<1>12. Fields(bytes, at) = f2 BY <1>8, <1>10, <1>11
<1> QED BY <1>12 DEF f2

LEMMA IndexedAnswers ==
  ASSUME NEW m, ModelFacts(m), NEW q
  PROVE  ResolveIndexed(BuildIndexed(m), m, q) = Expected(m, q)
<1>1. PICK C \in Nat \ {0} : C = Chunks(m) BY DEF ModelFacts
<1> DEFINE structs == [k \in 1 .. C |-> Struct(m.chunk_off[k], m.chunk_size[k])]
           directory == [k \in 1 .. C |-> Total(Lens(structs), 1, k - 1)]
           bytes == FlattenSeq(structs)
           e == [cc \in ChunkIds(m) |-> LET f == Fields(bytes, directory[cc + 1])
                                        IN  Locator(f.off, f.sz)]
<1>2. BuildIndexed(m).directory = directory /\ BuildIndexed(m).structs = bytes
  BY <1>1 DEF BuildIndexed
<1>3. \A x, y : Struct(x, y) \in Seq(Byte)
  <2> TAKE x, y
  <2>1. <<{0}>> \in Seq(Byte) /\ <<{}>> \in Seq(Byte)
    <3>1. {0} \in Byte /\ {} \in Byte BY WidthsAssumption, NumbersAssumption DEF Byte, Low
    <3> QED BY <3>1
  <2>2. \A z : I64(z) \in Seq(Byte)
    <3> TAKE z
    <3>1. BitsOf(2 * z) \subseteq Low(WordBits) BY DEF BitsOf
    <3> QED BY <3>1, UlebKeepsWord DEF I64
  <2>3. \A s, t \in Seq(Byte) : s \o t \in Seq(Byte) BY ConcatProperties
  <2> QED BY <2>1, <2>2, <2>3 DEF Struct
<1>4. structs \in Seq(Seq(Byte)) /\ Len(structs) = C
  <2>1. structs \in [1 .. C -> Seq(Byte)] BY <1>3
  <2> QED BY <2>1
<1>5. ASSUME NEW cc \in ChunkIds(m)
      PROVE  e[cc] = Locator(m.chunk_off[cc + 1], m.chunk_size[cc + 1])
  <2>1. cc \in Nat /\ cc + 1 \in 1 .. C /\ (cc + 1) - 1 = cc BY <1>1 DEF ChunkIds
  <2>2. PICK off \in Nat : off = m.chunk_off[cc + 1] BY ChunkIs
  <2>3. PICK size \in Nat : size = m.chunk_size[cc + 1] BY ChunkIs
  <2>4. 2 * off < 2 ^ WordBits /\ 2 * size < 2 ^ WordBits
    <3>1. PICK t \in Nat : t = 2 ^ WordBits BY Powers, WidthsAssumption
    <3>2. 2 * (off + size) < t BY <2>2, <2>3, <3>1, ChunkIs
    <3> QED BY <3>1, <3>2
  <2>5. structs[cc + 1] = Struct(off, size) BY <2>1, <2>2, <2>3
  <2> HIDE DEF structs
  <2>6. bytes \in Seq(Byte) BY <1>4, FlattenedParts
  <2>7. PICK at \in Nat : at = directory[cc + 1] /\ at = SumFunctionOnSet(Lens(structs), 1 .. cc)
    <3>1. cc \in 0 .. Len(structs) BY <1>4, <2>1
    <3>2. SumFunctionOnSet(Lens(structs), 1 .. cc) \in Nat BY <1>4, <3>1, FlattenedParts
    <3>3. directory[cc + 1] = Total(Lens(structs), 1, cc) BY <2>1
    <3> QED BY <3>2, <3>3 DEF Total
  <2>8. Lies(structs[cc + 1], at, bytes)
    <3>1. cc + 1 \in 1 .. Len(structs) BY <1>4, <2>1
    <3>2. /\ SumFunctionOnSet(Lens(structs), 1 .. cc + 1) = at + Len(structs[cc + 1])
          /\ \A j \in 1 .. Len(structs[cc + 1]) : bytes[at + j] = structs[cc + 1][j]
      <4> DEFINE End(k) == SumFunctionOnSet(Lens(structs), 1 .. k)
                 Begins(k) == /\ End(k) = End(k - 1) + Len(structs[k])
                              /\ \A j \in 1 .. Len(structs[k]) :
                                   FlattenSeq(structs)[End(k - 1) + j] = structs[k][j]
      <4>1. \A k \in 1 .. Len(structs) : Begins(k) BY <1>4, FlattenedParts
      <4>2. Begins(cc + 1) BY <3>1, <4>1
      <4>3. End((cc + 1) - 1) = at BY <2>1, <2>7
      <4> HIDE DEF End
      <4>4. End(cc + 1) = at + Len(structs[cc + 1]) BY <4>2, <4>3
      <4>5. \A j \in 1 .. Len(structs[cc + 1]) : FlattenSeq(structs)[at + j] = structs[cc + 1][j]
        BY <4>2, <4>3
      <4> QED BY <4>4, <4>5 DEF End
    <3>3. cc + 1 \in 0 .. Len(structs) BY <1>4, <2>1
    <3>4. SumFunctionOnSet(Lens(structs), 1 .. cc + 1) <= Len(bytes)
      BY <1>4, <3>3, FlattenedParts
    <3> QED BY <3>2, <3>4 DEF Lies
  <2> HIDE DEF directory, bytes
  <2>9. Fields(bytes, at).off = off /\ Fields(bytes, at).sz = size
    BY <2>4, <2>5, <2>6, <2>8, StructReads
  <2> QED BY <2>2, <2>3, <2>7, <2>9
<1> HIDE DEF e
<1>6. ForEachSelected(m, q, e) = Expected(m, q) BY <1>5, ChunkAnswers
<1> HIDE DEF directory, bytes
<1> QED BY <1>2, <1>6 DEF ResolveIndexed, e

-----------------------------------------------------------------------------
(* The layouts that know the pages.                                        *)

\* Where a list is packed behind other bytes.
LEMMA TailReads ==
  ASSUME NEW n \in Nat, NEW list, NumberList(list, n), NEW w, w = WidthFor(Numbers(list)),
         NEW bytes \in Seq(Byte), NEW at \in Nat, Lies(PackBits(Numbers(list), w), at, bytes)
  PROVE  [k \in 1 .. n |-> Extracted(SubSeq(bytes, at + 1, Len(bytes)), k - 1, w)] = list
<1> DEFINE packed == PackBits(Numbers(list), w)
<1>1. Len(Numbers(list)) = n /\ w \in 0 .. WordBits BY NumbersFit
<1>2. w \in Nat BY <1>1, WidthsAssumption
<1>3. PICK c \in Nat : c = BytesFor(n, w) BY <1>2, BytesCover
<1>4. packed \in Seq(Byte) /\ Len(packed) = c BY <1>1, <1>2, <1>3, PackedBytes
<1>5. PICK t \in Nat : t = Len(bytes) BY LenProperties
<1> HIDE DEF packed
<1>6. at + c <= t /\ \A k \in 1 .. c : bytes[at + k] = packed[k] BY <1>4, <1>5 DEF Lies, packed
<1>7. PICK after : after = SubSeq(bytes, at + 1, t) OBVIOUS
<1>8. after \in Seq(Byte) /\ c <= Len(after) /\ \A k \in 1 .. c : after[k] = packed[k]
  <2>1. \A ix \in at + 1 .. t : bytes[ix] \in Byte
    <3>1. \A ix \in at + 1 .. t : ix \in 1 .. Len(bytes) BY <1>5
    <3> QED BY <3>1, ElementOfSeq
  <2>2. at + 1 \in Int /\ t \in Int /\ t - (at + 1) + 1 = t - at OBVIOUS
  <2>3. /\ after \in Seq(Byte) /\ Len(after) = IF at + 1 <= t THEN t - at ELSE 0
        /\ \A ix \in 1 .. t - at : after[ix] = bytes[(at + 1) + ix - 1]
    BY <1>7, <2>1, <2>2, SubSeqProperties
  <2>4. c <= Len(after) BY <1>6, <2>3
  <2>5. \A k \in 1 .. c : k \in 1 .. t - at /\ (at + 1) + k - 1 = at + k BY <1>6
  <2>6. \A k \in 1 .. c : after[k] = packed[k] BY <1>6, <2>3, <2>5
  <2> QED BY <2>3, <2>4, <2>6
<1>9. \A k \in 1 .. n : Extracted(after, k - 1, w) = list[k]
  <2> TAKE k \in 1 .. n
  <2>1. k - 1 \in Low(n) /\ (k - 1) + 1 = k BY DEF Low
  <2>2. BytesFor(n, w) <= Len(after) /\ \A j \in 1 .. BytesFor(n, w) : after[j] = PackBits(Numbers(list), w)[j]
    BY <1>3, <1>8 DEF packed
  <2> QED BY <1>8, <2>1, <2>2, ListReadsBack
<1>10. list = [k \in 1 .. n |-> list[k]] BY DEF NumberList
<1> QED BY <1>5, <1>7, <1>9, <1>10

LEMMA OffsetIndexAnswers ==
  ASSUME NEW m, ModelFacts(m), NEW q
  PROVE  ResolveOffsetIndex(BuildOffsetIndex(m), m, q) =
           IF q = "rows" THEN ExpectedRowsPages(m) ELSE Expected(m, q)
<1>1. PICK n \in Nat : n = Chunks(m) * Per(m) BY DEF ModelFacts
<1> DEFINE b == BuildOffsetIndex(m)
           block_off == [k \in 1 .. Len(b.block_lengths) + 1 |-> b.base + Total(b.block_lengths, 1, k - 1)]
           Start(cc) == block_off[b.first_block[cc + 1] + 1]
           Size(cc) == Total(b.block_lengths, b.first_block[cc + 1] + 1, b.first_block[cc + 1] + Per(m))
           pages == [cc \in ChunkIds(m) |-> EmitRowRangePages(m, cc, Start(cc), b.block_lengths, b.page_rows)]
           wanted == [cc \in ChunkIds(m) |->
                        EmitRowRangePages(m, cc, m.chunk_off[cc + 1], m.block_len, m.block_rows)]
           chunks == [cc \in ChunkIds(m) |-> Locator(Start(cc), Size(cc))]
<1>2. /\ b.base = Base /\ b.block_lengths = m.block_len /\ b.page_rows = m.block_rows
      /\ b.first_block = [k \in 1 .. Chunks(m) |-> (k - 1) * Per(m)]
  BY DEF BuildOffsetIndex
<1> HIDE DEF b
<1>3. Len(m.block_len) = n BY <1>1 DEF ModelFacts
<1>4. ASSUME NEW cc \in ChunkIds(m)
      PROVE  Start(cc) = m.chunk_off[cc + 1] /\ Size(cc) = m.chunk_size[cc + 1]
  <2>1. PICK a \in Nat : a = Per(m) * cc BY BlocksOf
  <2>2. /\ cc + 1 \in 1 .. Chunks(m) /\ cc \in Nat /\ (cc + 1) - 1 = cc
        /\ Per(m) * (cc + 1) = a + Per(m) /\ a + Per(m) <= n
    BY <1>1, <2>1, BlocksOf
  <2>3. Per(m) \in Nat BY DEF ModelFacts
  <2>4. b.first_block[cc + 1] = a
    <3>1. b.first_block[cc + 1] = cc * Per(m) BY <1>2, <2>2
    <3>2. cc * Per(m) = Per(m) * cc BY <2>2, <2>3
    <3> QED BY <2>1, <3>1, <3>2
  <2>5. Start(cc) = Base + Total(m.block_len, 1, a)
    <3>1. a + 1 \in 1 .. n + 1 /\ (a + 1) - 1 = a BY <2>2, <2>3
    <3> QED BY <1>2, <1>3, <2>4, <3>1
  <2>6. Size(cc) = Total(m.block_len, a + 1, a + Per(m)) BY <1>2, <2>4
  <2> HIDE DEF Start, Size
  <2> QED BY <2>1, <2>2, <2>5, <2>6, ChunkIs
<1> HIDE DEF Start, Size
<1>5. ForEachSelected(m, q, pages) = ForEachSelected(m, q, wanted)
  <2>1. \A cc \in ChunkIds(m) : pages[cc] = wanted[cc] BY <1>2, <1>4
  <2> HIDE DEF pages, wanted
  <2> QED BY <2>1, SameAnswers
<1>6. ForEachSelected(m, q, chunks) = Expected(m, q)
  <2>1. \A cc \in ChunkIds(m) : chunks[cc] = Locator(m.chunk_off[cc + 1], m.chunk_size[cc + 1])
    BY <1>4
  <2> HIDE DEF chunks
  <2> QED BY <2>1, ChunkAnswers
<1>7. ResolveOffsetIndex(b, m, q) = IF q = "rows" THEN FlattenSeq(ForEachSelected(m, q, pages))
                                    ELSE ForEachSelected(m, q, chunks)
  BY DEF ResolveOffsetIndex, Start, Size
<1>8. q = "rows" => FlattenSeq(ForEachSelected(m, q, wanted)) = ExpectedRowsPages(m)
  BY DEF ExpectedRowsPages
<1> HIDE DEF pages, wanted, chunks
<1> QED BY <1>5, <1>6, <1>7, <1>8 DEF b

LEMMA PageIndexAnswers ==
  ASSUME NEW m, ModelFacts(m), NEW q
  PROVE  ResolvePlacementPlusPageIndex(BuildPlacementPlusPageIndex(m), m, q) =
           IF q = "rows" THEN ExpectedRowsPages(m) ELSE Expected(m, q)
<1>1. PICK n \in Nat : n = Chunks(m) * Per(m) BY DEF ModelFacts
<1>2. NumberList(m.block_len, n) /\ NumberList(m.block_rows, n) BY <1>1, ListsFit
<1> DEFINE lw == WidthFor(Numbers(m.block_len))
           rw == WidthFor(Numbers(m.block_rows))
           lens == PackBits(Numbers(m.block_len), lw)
           rows == PackBits(Numbers(m.block_rows), rw)
           b == BuildPlacementPlusPageIndex(m)
           index == b.page_index
<1>3. lw \in 0 .. WordBits /\ rw \in 0 .. WordBits BY <1>2, NumbersFit
<1>4. PICK head \in Seq(Byte) : head = <<BitsOf(lw), BitsOf(rw)>>
  <2>1. BitsOf(lw) \in Byte /\ BitsOf(rw) \in Byte BY <1>3, WidthByte
  <2> HIDE DEF lw, rw
  <2>2. <<BitsOf(lw), BitsOf(rw)>> \in Seq(Byte) BY <2>1
  <2> QED BY <2>2
<1>5. /\ b.offsets = ByteList(m.chunk_off) /\ b.sizes = ByteList(m.chunk_size)
      /\ index = (head \o lens) \o rows
  BY <1>4 DEF BuildPlacementPlusPageIndex, BuildPageIndexBlob, ByteList
<1> HIDE DEF b, index
<1>6. /\ lens \in Seq(Byte) /\ Len(lens) = BytesFor(n, lw) /\ rows \in Seq(Byte)
      /\ BytesFor(n, lw) \in Nat
  <2>1. lw \in Nat /\ rw \in Nat BY <1>3, WidthsAssumption
  <2>2. Len(Numbers(m.block_len)) = n /\ Len(Numbers(m.block_rows)) = n BY <1>2, NumbersFit
  <2> QED BY <2>1, <2>2, PackedBytes, BytesCover
<1> HIDE DEF lw, rw, lens, rows
<1>7. Len(head) = 2 /\ head[1] = BitsOf(lw) /\ head[2] = BitsOf(rw) BY <1>4
<1>8. index \in Seq(Byte) /\ head \o lens \in Seq(Byte) /\ Len(head \o lens) = 2 + BytesFor(n, lw)
  <2>1. head \o lens \in Seq(Byte) /\ Len(head \o lens) = Len(head) + Len(lens)
    BY <1>6, ConcatProperties
  <2>2. (head \o lens) \o rows \in Seq(Byte) BY <1>6, <2>1, ConcatProperties
  <2> QED BY <1>5, <1>6, <1>7, <2>1, <2>2
<1>9. Lies(index, 0, index)
  <2>1. PICK t \in Nat : t = Len(index) BY <1>8, LenProperties
  <2>2. 0 + t <= t /\ \A k \in 1 .. t : index[0 + k] = index[k] OBVIOUS
  <2> QED BY <2>1, <2>2 DEF Lies
<1>10. Lies(head \o lens, 0, index) /\ Lies(rows, 0 + Len(head \o lens), index)
  <2>1. Lies((head \o lens) \o rows, 0, index) BY <1>5, <1>9
  <2> QED BY <1>6, <1>8, <2>1, PartsLie
<1>11. Lies(head, 0, index) /\ Lies(lens, 0 + Len(head), index) BY <1>6, <1>8, <1>10, PartsLie
<1>12. index[1] = BitsOf(lw) /\ index[2] = BitsOf(rw)
  <2>1. \A k \in 1 .. 2 : index[0 + k] = head[k] BY <1>7, <1>11 DEF Lies
  <2>2. 1 \in 1 .. 2 /\ 2 \in 1 .. 2 /\ 0 + 1 = 1 /\ 0 + 2 = 2 OBVIOUS
  <2>3. index[0 + 1] = head[1] /\ index[0 + 2] = head[2] BY <2>1, <2>2
  <2> QED BY <1>7, <2>2, <2>3
<1> DEFINE size == Len(index)
           at == RowBufAt(n, lw)
           blen == [k \in 1 .. n |-> Extracted(SubSeq(index, 3, size), k - 1, lw)]
           brows == [k \in 1 .. n |-> Extracted(SubSeq(index, at + 1, size), k - 1, rw)]
           pages == [cc \in ChunkIds(m) |-> EmitRowRangePages(m, cc, Unpacked(b.offsets, cc), blen, brows)]
           wanted == [cc \in ChunkIds(m) |->
                        EmitRowRangePages(m, cc, m.chunk_off[cc + 1], m.block_len, m.block_rows)]
<1>13. NumberOf(index[1]) = lw /\ NumberOf(index[2]) = rw BY <1>3, <1>12, WidthByte
<1>14. blen = m.block_len
  <2>1. Lies(PackBits(Numbers(m.block_len), lw), 2, index) BY <1>7, <1>11 DEF lens
  <2>2. lw = WidthFor(Numbers(m.block_len)) BY DEF lw
  <2>3. [k \in 1 .. n |-> Extracted(SubSeq(index, 2 + 1, Len(index)), k - 1, lw)] = m.block_len
    BY <1>2, <1>8, <2>1, <2>2, TailReads
  <2> QED BY <2>3
<1>15. brows = m.block_rows
  <2>1. at \in Nat /\ Lies(PackBits(Numbers(m.block_rows), rw), at, index)
    BY <1>6, <1>8, <1>10 DEF rows, RowBufAt
  <2>2. rw = WidthFor(Numbers(m.block_rows)) BY DEF rw
  <2> HIDE DEF at
  <2> QED BY <1>2, <1>8, <2>1, <2>2, TailReads
<1>16. \A cc \in ChunkIds(m) : Unpacked(b.offsets, cc) = m.chunk_off[cc + 1]
  <2> TAKE cc \in ChunkIds(m)
  <2>1. Chunks(m) \in Nat /\ cc \in Low(Chunks(m)) BY DEF ModelFacts, ChunkIds, Low
  <2>2. NumberList(m.chunk_off, Chunks(m)) BY ListsFit
  <2> QED BY <1>5, <2>1, <2>2, ByteListReadsBack
<1>17. ForEachSelected(m, q, pages) = ForEachSelected(m, q, wanted)
  <2>1. \A cc \in ChunkIds(m) : pages[cc] = wanted[cc] BY <1>14, <1>15, <1>16
  <2> HIDE DEF pages, wanted
  <2> QED BY <2>1, SameAnswers
<1>18. ResolvePlacementPlusPageIndex(b, m, q) =
         IF q = "rows" THEN FlattenSeq(ForEachSelected(m, q, pages)) ELSE ResolveSoaBitpack(b, m, q)
  BY <1>1, <1>13 DEF ResolvePlacementPlusPageIndex, index
<1>19. q = "rows" => FlattenSeq(ForEachSelected(m, q, wanted)) = ExpectedRowsPages(m)
  BY DEF ExpectedRowsPages
<1>20. ResolveSoaBitpack(b, m, q) = Expected(m, q) BY <1>5, SoaBitpackAnswers
<1> HIDE DEF pages, wanted
<1> QED BY <1>17, <1>18, <1>19, <1>20 DEF b

-----------------------------------------------------------------------------
(* Every layout, every query.                                              *)

\* What a layout should answer.
Answer(name, m, q) ==
  IF q = "rows" THEN IF name \in PageAware THEN ExpectedRowsPages(m) ELSE Expected(m, "project")
  ELSE Expected(m, q)

LEMMA WantIs == \A q : Want(q) = Answer(Current, model, q)
BY DEF Want, Answer

LEMMA LayoutAnswers ==
  ASSUME NEW m, IsModel(m), NEW q, NEW l \in 1 .. 7
  PROVE  Resolve(Layouts[l], Build(Layouts[l], m), m, q) = Answer(Layouts[l], m, q)
<1>1. ModelFacts(m) BY ModelIs
<1>2. Expected(m, q) = IF q = "rows" THEN Expected(m, "project") ELSE Expected(m, q)
  BY RowsLikeProject
<1>3. CASE l = 1
  <2>1. Layouts[l] = "soa_flat" BY <1>3 DEF Layouts
  <2>2. Build("soa_flat", m) = BuildSoa(m) BY DEF Build
  <2>3. \A b : Resolve("soa_flat", b, m, q) = ResolveSoa(b, m, q) BY DEF Resolve
  <2>4. "soa_flat" \notin PageAware BY DEF PageAware
  <2>5. ResolveSoa(BuildSoa(m), m, q) = Expected(m, q) BY <1>1, SoaAnswers
  <2> QED BY <1>2, <2>1, <2>2, <2>3, <2>4, <2>5 DEF Answer
<1>4. CASE l = 2
  <2>1. Layouts[l] = "aos_flat" BY <1>4 DEF Layouts
  <2>2. Build("aos_flat", m) = BuildAos(m) BY DEF Build
  <2>3. \A b : Resolve("aos_flat", b, m, q) = ResolveAos(b, m, q) BY DEF Resolve
  <2>4. "aos_flat" \notin PageAware BY DEF PageAware
  <2>5. ResolveAos(BuildAos(m), m, q) = Expected(m, q) BY <1>1, AosAnswers
  <2> QED BY <1>2, <2>1, <2>2, <2>3, <2>4, <2>5 DEF Answer
<1>5. CASE l = 3
  <2>1. Layouts[l] = "soa_bitpack" BY <1>5 DEF Layouts
  <2>2. Build("soa_bitpack", m) = BuildSoaBitpack(m) BY DEF Build
  <2>3. \A b : Resolve("soa_bitpack", b, m, q) = ResolveSoaBitpack(b, m, q) BY DEF Resolve
  <2>4. "soa_bitpack" \notin PageAware BY DEF PageAware
  <2>5. ResolveSoaBitpack(BuildSoaBitpack(m), m, q) = Expected(m, q)
    <3> DEFINE b == BuildSoaBitpack(m)
    <3>1. b.offsets = ByteList(m.chunk_off) /\ b.sizes = ByteList(m.chunk_size)
      BY DEF BuildSoaBitpack
    <3> HIDE DEF b
    <3>2. ResolveSoaBitpack(b, m, q) = Expected(m, q) BY <1>1, <3>1, SoaBitpackAnswers
    <3> QED BY <3>2 DEF b
  <2> QED BY <1>2, <2>1, <2>2, <2>3, <2>4, <2>5 DEF Answer
<1>6. CASE l = 4
  <2>1. Layouts[l] = "soa_delta_bitpack" BY <1>6 DEF Layouts
  <2>2. Build("soa_delta_bitpack", m) = BuildSoaDeltaBitpack(m) BY DEF Build
  <2>3. \A b : Resolve("soa_delta_bitpack", b, m, q) = ResolveSoaDeltaBitpack(b, m, q)
    BY DEF Resolve
  <2>4. "soa_delta_bitpack" \notin PageAware BY DEF PageAware
  <2>5. ResolveSoaDeltaBitpack(BuildSoaDeltaBitpack(m), m, q) = Expected(m, q)
    BY <1>1, DeltaAnswers
  <2> QED BY <1>2, <2>1, <2>2, <2>3, <2>4, <2>5 DEF Answer
<1>7. CASE l = 5
  <2>1. Layouts[l] = "indexed_struct" BY <1>7 DEF Layouts
  <2>2. Build("indexed_struct", m) = BuildIndexed(m) BY DEF Build
  <2>3. \A b : Resolve("indexed_struct", b, m, q) = ResolveIndexed(b, m, q) BY DEF Resolve
  <2>4. "indexed_struct" \notin PageAware BY DEF PageAware
  <2>5. ResolveIndexed(BuildIndexed(m), m, q) = Expected(m, q) BY <1>1, IndexedAnswers
  <2> QED BY <1>2, <2>1, <2>2, <2>3, <2>4, <2>5 DEF Answer
<1>8. CASE l = 6
  <2>1. Layouts[l] = "offset_index" BY <1>8 DEF Layouts
  <2>2. Build("offset_index", m) = BuildOffsetIndex(m) BY DEF Build
  <2>3. \A b : Resolve("offset_index", b, m, q) = ResolveOffsetIndex(b, m, q) BY DEF Resolve
  <2>4. "offset_index" \in PageAware BY DEF PageAware
  <2>5. ResolveOffsetIndex(BuildOffsetIndex(m), m, q) =
          IF q = "rows" THEN ExpectedRowsPages(m) ELSE Expected(m, q)
    BY <1>1, OffsetIndexAnswers
  <2> QED BY <2>1, <2>2, <2>3, <2>4, <2>5 DEF Answer
<1>9. CASE l = 7
  <2>1. Layouts[l] = "placement_plus_pageindex" BY <1>9 DEF Layouts
  <2>2. Build("placement_plus_pageindex", m) = BuildPlacementPlusPageIndex(m) BY DEF Build
  <2>3. \A b : Resolve("placement_plus_pageindex", b, m, q) = ResolvePlacementPlusPageIndex(b, m, q)
    BY DEF Resolve
  <2>4. "placement_plus_pageindex" \in PageAware BY DEF PageAware
  <2>5. ResolvePlacementPlusPageIndex(BuildPlacementPlusPageIndex(m), m, q) =
          IF q = "rows" THEN ExpectedRowsPages(m) ELSE Expected(m, q)
    BY <1>1, PageIndexAnswers
  <2> QED BY <2>1, <2>2, <2>3, <2>4, <2>5 DEF Answer
<1> QED BY <1>3, <1>4, <1>5, <1>6, <1>7, <1>8, <1>9

-----------------------------------------------------------------------------
(* RunShape.                                                               *)

LEMMA LayoutStarts == LayoutInit => LayoutInv
<1> SUFFICES ASSUME LayoutInit PROVE LayoutInv OBVIOUS
<1>1. IsModel(model) /\ layout = 1 /\ step = "build" /\ ok = TRUE BY DEF LayoutInit
<1>2. DOMAIN resolved = {} BY DEF LayoutInit
<1>3. 1 \in DOMAIN Layouts BY DEF Layouts
<1> QED BY <1>1, <1>2, <1>3 DEF LayoutInv, Queries

LEMMA LayoutSteps == LayoutInv /\ [LayoutNext]_layoutVars => LayoutInv'
<1> SUFFICES ASSUME LayoutInv, [LayoutNext]_layoutVars PROVE LayoutInv' OBVIOUS
<1>1. /\ IsModel(model) /\ layout \in DOMAIN Layouts /\ ok = TRUE
      /\ step \in Queries => blob = Build(Current, model)
      /\ DOMAIN resolved = CASE step = "full" -> {"project"} [] step = "rows" -> {"project", "full"}
                              [] step \in {"compare", "aborted"} -> Queries [] OTHER -> {}
      /\ \A q \in DOMAIN resolved : resolved[q] = Want(q)
  BY DEF LayoutInv
<1>2. CASE BuildStep
  <2>1. /\ step' = "project" /\ blob' = Build(Current, model) /\ model' = model
        /\ layout' = layout /\ resolved' = resolved /\ ok' = ok /\ step = "build"
    BY <1>2 DEF BuildStep
  <2>2. Current' = Current /\ \A q : Want(q)' = Want(q) BY <2>1 DEF Current, Want
  <2>3. DOMAIN resolved = {} BY <1>1, <2>1
  <2> QED BY <1>1, <2>1, <2>2, <2>3 DEF LayoutInv, Queries
<1>3. CASE ResolveStep
  <2>1. /\ step \in Queries /\ model' = model /\ layout' = layout /\ blob' = blob /\ ok' = ok
        /\ resolved' = [q \in DOMAIN resolved \cup {step} |->
               IF q = step THEN Resolve(Current, blob, model, q) ELSE resolved[q]]
        /\ step' = CASE step = "project" -> "full" [] step = "full" -> "rows" [] step = "rows" -> "compare"
    BY <1>3 DEF ResolveStep
  <2>2. Current' = Current /\ \A q : Want(q)' = Want(q) BY <2>1 DEF Current, Want
  <2>3. Resolve(Current, blob, model, step) = Want(step)
    <3>1. layout \in 1 .. 7 BY <1>1 DEF Layouts
    <3>2. blob = Build(Layouts[layout], model) BY <1>1, <2>1 DEF Current
    <3>3. Resolve(Layouts[layout], blob, model, step) = Answer(Layouts[layout], model, step)
      BY <1>1, <3>1, <3>2, LayoutAnswers
    <3> QED BY <3>3, WantIs DEF Current
  <2>4. \A q \in DOMAIN resolved' : resolved'[q] = Want(q)'
    <3> TAKE q \in DOMAIN resolved'
    <3>1. q \in DOMAIN resolved \cup {step} BY <2>1
    <3>2. CASE q = step BY <2>1, <2>2, <2>3, <3>2
    <3>3. CASE q # step
      <4>1. resolved'[q] = resolved[q] BY <2>1, <3>1, <3>3
      <4> QED BY <1>1, <2>2, <3>1, <3>3, <4>1
    <3> QED BY <3>2, <3>3
  <2>5. DOMAIN resolved' = DOMAIN resolved \cup {step} BY <2>1
  <2>6. /\ step' \in {"full", "rows", "compare"}
        /\ DOMAIN resolved' = CASE step' = "full" -> {"project"} [] step' = "rows" -> {"project", "full"}
                                [] step' \in {"compare", "aborted"} -> Queries [] OTHER -> {}
    <3>1. CASE step = "project"
      <4>1. step' = "full" /\ DOMAIN resolved = {} BY <1>1, <2>1, <3>1
      <4> QED BY <2>5, <3>1, <4>1
    <3>2. CASE step = "full"
      <4>1. step' = "rows" /\ DOMAIN resolved = {"project"} BY <1>1, <2>1, <3>2
      <4> QED BY <2>5, <3>2, <4>1
    <3>3. CASE step = "rows"
      <4>1. step' = "compare" /\ DOMAIN resolved = {"project", "full"} BY <1>1, <2>1, <3>3
      <4> QED BY <2>5, <3>3, <4>1 DEF Queries
    <3> QED BY <2>1, <3>1, <3>2, <3>3 DEF Queries
  <2>7. IsModel(model)' /\ (layout \in DOMAIN Layouts)' /\ (blob = Build(Current, model))'
    BY <1>1, <2>1, <2>2
  <2> QED BY <1>1, <2>1, <2>4, <2>6, <2>7 DEF LayoutInv, Queries
<1>4. CASE CompareStep
  <2>1. /\ step = "compare" /\ ok' = (ok /\ Agree)
        /\ DOMAIN resolved' = {} /\ model' = model
        /\ \/ layout < Len(Layouts) /\ layout' = layout + 1 /\ step' = "build"
           \/ layout' = layout /\ step' = "done"
    BY <1>4 DEF CompareStep
  <2>2. DOMAIN resolved = Queries BY <1>1, <2>1
  <2>3. ok' = TRUE BY <1>1, <2>1, <2>2 DEF Agree
  <2>4. layout' \in DOMAIN Layouts
    <3>1. DOMAIN Layouts = 1 .. 7 /\ Len(Layouts) = 7 BY DEF Layouts
    <3> QED BY <1>1, <2>1, <3>1
  <2>5. IsModel(model)' BY <1>1, <2>1
  <2> QED BY <2>1, <2>3, <2>4, <2>5 DEF LayoutInv, Queries
<1>5. CASE AbortStep
  <2>1. /\ step = "compare" /\ step' = "aborted" /\ model' = model /\ layout' = layout
        /\ resolved' = resolved /\ ok' = ok
    BY <1>5 DEF AbortStep
  <2>2. Current' = Current /\ \A q : Want(q)' = Want(q) BY <2>1 DEF Current, Want
  <2>3. DOMAIN resolved' = Queries BY <1>1, <2>1
  <2> QED BY <1>1, <2>1, <2>2, <2>3 DEF LayoutInv, Queries
<1>6. CASE UNCHANGED layoutVars
  <2>1. /\ model' = model /\ layout' = layout /\ step' = step /\ blob' = blob
        /\ resolved' = resolved /\ ok' = ok
    BY <1>6 DEF layoutVars
  <2>2. Current' = Current /\ \A q : Want(q)' = Want(q) BY <2>1 DEF Current, Want
  <2> QED BY <2>1, <2>2 DEF LayoutInv
<1> QED BY <1>2, <1>3, <1>4, <1>5, <1>6 DEF LayoutNext

\* At every step the blob is the one built from the model, and each query
\* answered so far has the answer that Check of fidelity_test.cc looks for.
THEOREM LayoutsKeepAnswers == LayoutSpec => []LayoutInv
<1> QED BY LayoutStarts, LayoutSteps, PTL DEF LayoutSpec

\* The comparison of main.cc:124 and fidelity_test.cc fails for no file that
\* BuildModel makes: the seven layouts of layouts.cc give every query the
\* locators of the model, whatever the widths of the packed lists, the lengths
\* of the varints and the number of pages.
THEOREM EveryLayoutAnswers == LayoutSpec => []Fidelity
<1>1. LayoutInv => Fidelity BY DEF LayoutInv, Fidelity
<1> QED BY <1>1, LayoutsKeepAnswers, PTL

-----------------------------------------------------------------------------
(* Sequences put behind one another, seen from the whole.                  *)

\* Where element j of part k is.
PartAt(seqs, k, j) == SumFunctionOnSet(Lens(seqs), 1 .. k - 1) + j

LEMMA FlattenedAt ==
  ASSUME NEW S, NEW seqs \in Seq(Seq(S))
  PROVE  LET flat == FlattenSeq(seqs) IN
         /\ flat \in Seq(S)
         /\ \A ix \in 1 .. Len(flat) : \E k \in 1 .. Len(seqs) : \E j \in 1 .. Len(seqs[k]) :
              ix = PartAt(seqs, k, j)
         /\ \A k \in 1 .. Len(seqs) : \A j \in 1 .. Len(seqs[k]) :
              PartAt(seqs, k, j) \in 1 .. Len(flat) /\ flat[PartAt(seqs, k, j)] = seqs[k][j]
         /\ \A k, l \in 1 .. Len(seqs) : \A j \in 1 .. Len(seqs[k]), ix \in 1 .. Len(seqs[l]) :
              PartAt(seqs, k, j) < PartAt(seqs, l, ix) => k < l \/ (k = l /\ j < ix)
<1> DEFINE flat == FlattenSeq(seqs)
           End(k) == SumFunctionOnSet(Lens(seqs), 1 .. k)
<1>1. PICK n \in Nat : n = Len(seqs) BY LenProperties
<1>2. /\ flat \in Seq(S) /\ Len(flat) = End(n)
      /\ \A k \in 0 .. n : End(k) \in Nat /\ End(k) <= End(n)
      /\ \A k \in 1 .. n : End(k) = End(k - 1) + Len(seqs[k])
      /\ \A k \in 1 .. n : \A j \in 1 .. Len(seqs[k]) : flat[End(k - 1) + j] = seqs[k][j]
  BY <1>1, FlattenedParts
<1>3. \A k \in 1 .. n : Len(seqs[k]) \in Nat
  <2>1. \A k \in 1 .. n : seqs[k] \in Seq(S) BY <1>1, ElementOfSeq
  <2> QED BY <2>1, LenProperties
<1>4. \A k, l \in 0 .. n : k <= l => End(k) <= End(l)
  <2> TAKE k, l \in 0 .. n
  <2> HAVE k <= l
  <2>1. \A x \in 1 .. l : Lens(seqs)[x] \in Nat
    <3>1. \A x \in 1 .. l : x \in 1 .. n OBVIOUS
    <3>2. \A x \in 1 .. n : Lens(seqs)[x] = Len(seqs[x])
      <4>1. DOMAIN seqs = 1 .. n BY <1>1, LenProperties
      <4> QED BY <4>1 DEF Lens
    <3> QED BY <1>3, <3>1, <3>2
  <2>2. k \in Nat /\ l \in Nat OBVIOUS
  <2>3. /\ Total(Lens(seqs), 1, k) \in Nat /\ Total(Lens(seqs), k + 1, l) \in Nat
        /\ Total(Lens(seqs), 1, l) = Total(Lens(seqs), 1, k) + Total(Lens(seqs), k + 1, l)
    BY <2>1, <2>2, SumsMeet
  <2>4. End(k) = Total(Lens(seqs), 1, k) /\ End(l) = Total(Lens(seqs), 1, l) BY DEF Total
  <2> HIDE DEF End
  <2> QED BY <2>3, <2>4
<1>5. End(0) = 0
  <2>1. 1 .. 0 = {} OBVIOUS
  <2> QED BY <2>1, EmptySum
<1>6. \A k, j : PartAt(seqs, k, j) = End(k - 1) + j BY DEF PartAt
<1> HIDE DEF End, flat
<1>7. ASSUME NEW ix \in 1 .. Len(flat)
      PROVE  \E k \in 1 .. n : \E j \in 1 .. Len(seqs[k]) : ix = PartAt(seqs, k, j)
  <2> DEFINE over == {k \in 0 .. n : ix <= End(k)}
  <2>1. n \in over BY <1>2
  <2>2. PICK k \in over : \A l \in over : k <= l
    <3>1. over \subseteq Nat OBVIOUS
    <3> HIDE DEF over
    <3> QED BY <2>1, <3>1, LeastNatural
  <2>3. k \in 0 .. n /\ ix <= End(k) BY <2>2
  <2>4. ix \in Nat /\ 1 <= ix BY <1>2
  <2>5. k # 0 BY <1>5, <2>3, <2>4
  <2>6. k \in 1 .. n /\ k - 1 \in 0 .. n /\ ~(k <= k - 1) BY <2>3, <2>5
  <2>7. ~(ix <= End(k - 1)) BY <2>2, <2>6
  <2>8. End(k - 1) \in Nat /\ End(k) = End(k - 1) + Len(seqs[k]) /\ Len(seqs[k]) \in Nat
    BY <1>2, <1>3, <2>6
  <2>9. ix - End(k - 1) \in 1 .. Len(seqs[k]) /\ ix = End(k - 1) + (ix - End(k - 1))
    BY <2>3, <2>4, <2>7, <2>8
  <2> QED BY <1>6, <2>6, <2>9
<1>8. ASSUME NEW k \in 1 .. n, NEW j \in 1 .. Len(seqs[k])
      PROVE  PartAt(seqs, k, j) \in 1 .. Len(flat) /\ flat[PartAt(seqs, k, j)] = seqs[k][j]
  <2>1. k - 1 \in 0 .. n /\ k \in 0 .. n OBVIOUS
  <2>2. /\ End(k - 1) \in Nat /\ End(k) = End(k - 1) + Len(seqs[k]) /\ Len(seqs[k]) \in Nat
        /\ End(k) <= Len(flat) /\ Len(flat) \in Nat
    <3>1. n \in 0 .. n OBVIOUS
    <3> QED BY <1>2, <1>3, <2>1, <3>1
  <2>3. End(k - 1) + j \in 1 .. Len(flat) BY <2>2
  <2>4. flat[End(k - 1) + j] = seqs[k][j] BY <1>2
  <2> QED BY <1>6, <2>3, <2>4
<1>9. ASSUME NEW k \in 1 .. n, NEW l \in 1 .. n, NEW j \in 1 .. Len(seqs[k]), NEW ix \in 1 .. Len(seqs[l]),
             PartAt(seqs, k, j) < PartAt(seqs, l, ix)
      PROVE  k < l \/ (k = l /\ j < ix)
  <2>1. End(k - 1) + j < End(l - 1) + ix BY <1>6, <1>9
  <2>2. k - 1 \in 0 .. n /\ l - 1 \in 0 .. n /\ l \in 0 .. n OBVIOUS
  <2>3. End(k - 1) \in Nat /\ End(l - 1) \in Nat /\ End(l) = End(l - 1) + Len(seqs[l]) BY <1>2, <2>2
  <2>4. j \in Nat /\ ix \in Nat /\ ix <= Len(seqs[l]) /\ Len(seqs[l]) \in Nat BY <1>3
  <2>5. CASE l < k
    <3>1. l <= k - 1 BY <2>5
    <3>2. End(l) <= End(k - 1) BY <1>4, <2>2, <3>1
    <3> QED BY <2>1, <2>3, <2>4, <3>2
  <2>6. CASE l = k BY <2>1, <2>3, <2>4, <2>6
  <2> QED BY <2>5, <2>6
<1>10. \A k, l \in 1 .. n : \A j \in 1 .. Len(seqs[k]), ix \in 1 .. Len(seqs[l]) :
         PartAt(seqs, k, j) < PartAt(seqs, l, ix) => k < l \/ (k = l /\ j < ix)
  BY <1>9
<1>11. \A ix \in 1 .. Len(flat) : \E k \in 1 .. n : \E j \in 1 .. Len(seqs[k]) : ix = PartAt(seqs, k, j)
  BY <1>7
<1>12. \A k \in 1 .. n : \A j \in 1 .. Len(seqs[k]) :
         PartAt(seqs, k, j) \in 1 .. Len(flat) /\ flat[PartAt(seqs, k, j)] = seqs[k][j]
  BY <1>8
<1> QED BY <1>1, <1>2, <1>10, <1>11, <1>12 DEF flat

-----------------------------------------------------------------------------
(* The pages of a row range.                                               *)

\* A block of the file, by number, and the pages that a row range asks for.
BlockAt(m, b) == Locator(Base + Total(m.block_len, 1, b - 1), m.block_len[b])
FetchedPages(m) ==
  {p \in 1 .. m.pages : Overlaps(m, (p - 1) * RowsPerPage(m), PageRows(m, p))}

\* Blocks are where the blocks before them end.
LEMMA BlocksInOrder ==
  ASSUME NEW m, ModelFacts(m), NEW b \in 1 .. Chunks(m) * Per(m)
  PROVE  /\ BlockAt(m, b) \in [offset : Nat, size : Nat]
         /\ \A d \in 1 .. Chunks(m) * Per(m) : b < d =>
              BlockAt(m, b).offset + BlockAt(m, b).size <= BlockAt(m, d).offset
<1>1. PICK n \in Nat : n = Chunks(m) * Per(m) BY DEF ModelFacts
<1>2. PICK f \in [1 .. n -> Nat] : f = m.block_len BY <1>1 DEF ModelFacts
<1>3. Base \in Nat BY LayoutsAssumption
<1>4. ASSUME NEW c \in 0 .. n, NEW d \in 0 .. n, c <= d
      PROVE  Total(f, 1, c) \in Nat /\ Total(f, 1, d) \in Nat /\ Total(f, 1, c) <= Total(f, 1, d)
  <2>1. \A k \in 1 .. d : f[k] \in Nat OBVIOUS
  <2>2. c \in Nat /\ d \in Nat OBVIOUS
  <2>3. /\ Total(f, 1, c) \in Nat /\ Total(f, 1, d) \in Nat /\ Total(f, c + 1, d) \in Nat
        /\ Total(f, 1, d) = Total(f, 1, c) + Total(f, c + 1, d)
    BY <1>4, <2>1, <2>2, SumsMeet
  <2> QED BY <2>3
<1>5. b - 1 \in 0 .. n /\ b \in 0 .. n /\ b \in 1 .. n /\ b - 1 <= b BY <1>1
<1>6. Total(f, 1, b - 1) \in Nat /\ Total(f, 1, b) \in Nat BY <1>4, <1>5
<1>7. Total(f, 1, b) = Total(f, 1, b - 1) + f[b] /\ f[b] \in Nat
  <2>1. \A k \in 1 .. b : f[k] \in Int BY <1>5
  <2>2. 1 \in Int /\ b \in Int /\ 1 <= b BY <1>5
  <2>3. Total(f, 1, b) = Total(f, 1, b - 1) + f[b] BY <2>1, <2>2, LastTerm, ZenonT(30)
  <2> QED BY <1>5, <2>3
<1>8. BlockAt(m, b).offset = Base + Total(f, 1, b - 1) /\ BlockAt(m, b).size = f[b]
  BY <1>2 DEF BlockAt, Locator
<1>9. BlockAt(m, b) \in [offset : Nat, size : Nat]
  <2>1. Base + Total(f, 1, b - 1) \in Nat BY <1>3, <1>6
  <2> QED BY <1>2, <1>7, <2>1 DEF BlockAt, Locator
<1>10. ASSUME NEW d \in 1 .. n, b < d
       PROVE  BlockAt(m, b).offset + BlockAt(m, b).size <= BlockAt(m, d).offset
  <2>1. d - 1 \in 0 .. n /\ b <= d - 1 BY <1>5, <1>10
  <2>2. Total(f, 1, b) <= Total(f, 1, d - 1) /\ Total(f, 1, d - 1) \in Nat BY <1>4, <1>5, <2>1
  <2>3. BlockAt(m, d).offset = Base + Total(f, 1, d - 1) BY <1>2 DEF BlockAt, Locator
  <2> QED BY <1>3, <1>6, <1>7, <1>8, <2>2, <2>3
<1> QED BY <1>1, <1>9, <1>10

\* The rows before a data page of a chunk.
LEMMA RowsBefore ==
  ASSUME NEW m, ModelFacts(m), NEW cc \in ChunkIds(m), NEW p \in 1 .. m.pages
  PROVE  LET fb == FirstBlock(m, cc) IN
         /\ m.block_rows[fb + p] = PageRows(m, p)
         /\ Total(m.block_rows, fb + 1, fb + p - 1) = (p - 1) * RowsPerPage(m)
<1>1. PICK n \in Nat : n = Chunks(m) * Per(m) BY DEF ModelFacts
<1>2. PICK P \in Nat \ {0} : P = Per(m) BY DEF ModelFacts
<1>3. PICK G \in Nat : G = m.pages /\ P = G + 1 BY <1>2 DEF ModelFacts, Per
<1>4. PICK fb \in Nat : fb = FirstBlock(m, cc) /\ fb = P * cc + 1
  <2>1. FirstBlock(m, cc) = Per(m) * cc + 1 /\ Per(m) * cc \in Nat BY BlocksOf
  <2> QED BY <1>2, <2>1
<1>5. cc \in Nat BY BlocksOf
<1>6. ASSUME NEW x \in 1 .. G PROVE m.block_rows[fb + x] = PageRows(m, x)
  <2>1. x \in 0 .. m.pages BY <1>3
  <2>2. fb + x \in 1 .. n BY <1>1, <1>4, <2>1, BlocksOf
  <2>3. m.block_rows[fb + x] = PageRows(m, ((fb + x) - 1) % P) BY <1>1, <1>2, <2>2 DEF ModelFacts
  <2>4. x \in 0 .. P - 1 BY <1>3
  <2>5. (P * cc + x) % P = x BY <1>5, <2>4, QuotientRemainder
  <2>6. (fb + x) - 1 = P * cc + x
    <3>1. PICK y \in Nat : y = P * cc BY <1>5
    <3> QED BY <1>4, <3>1
  <2> QED BY <2>3, <2>5, <2>6
<1>7. PICK R \in Nat : R = RowsPerPage(m)
  <2>1. m.rows \in Nat BY DEF ModelFacts
  <2>2. G > 0 => m.rows \div G \in Nat
    <3> HAVE G > 0
    <3>1. G \in Nat \ {0} OBVIOUS
    <3> QED BY <2>1, <3>1, DivMod
  <2>3. RowsPerPage(m) \in Nat BY <1>3, <2>2 DEF RowsPerPage
  <2> QED BY <2>3
<1>8. \A k \in fb + 1 .. fb + (p - 1) : m.block_rows[k] = R
  <2> TAKE k \in fb + 1 .. fb + (p - 1)
  <2>1. PICK x \in 1 .. G : k = fb + x /\ x < G
    <3>1. k - fb \in 1 .. G /\ k = fb + (k - fb) /\ k - fb < G BY <1>3
    <3> QED BY <3>1
  <2>2. m.block_rows[fb + x] = PageRows(m, x) BY <1>6
  <2>3. PageRows(m, x) = R
    <3>1. x # 0 /\ ~(x = m.pages /\ x > 0) BY <1>3, <2>1
    <3> QED BY <1>7, <3>1 DEF PageRows
  <2> QED BY <2>1, <2>2, <2>3
<1>9. Total(m.block_rows, fb + 1, fb + (p - 1)) = R * (p - 1)
  <2>1. fb \in Int /\ p - 1 \in Nat /\ R \in Int BY <1>3
  <2>2. PICK f : f = m.block_rows OBVIOUS
  <2> QED BY <1>8, <2>1, <2>2, EqualTerms, ZenonT(30)
<1>10. fb + p - 1 = fb + (p - 1) /\ R * (p - 1) = (p - 1) * R BY <1>3
<1>11. m.block_rows[fb + p] = PageRows(m, p) BY <1>3, <1>6
<1> QED BY <1>4, <1>7, <1>9, <1>10, <1>11

\* What is fetched of a chunk: the dictionary page, and the data pages in order.
LEMMA EmittedPages ==
  ASSUME NEW m, ModelFacts(m), NEW cc \in ChunkIds(m)
  PROVE  LET pages == EmitRowRangePages(m, cc, m.chunk_off[cc + 1], m.block_len, m.block_rows)
             order == InOrder(FetchedPages(m))
         IN  \E c \in Nat :
               /\ Ordered(order, c, FetchedPages(m))
               /\ pages \in Seq([offset : Nat, size : Nat]) /\ Len(pages) = c + 1
               /\ \A j \in 1 .. c + 1 :
                    pages[j] = BlockAt(m, FirstBlock(m, cc) + IF j = 1 THEN 0 ELSE order[j - 1])
<1> DEFINE fb == FirstBlock(m, cc)
           Page(p) == Locator(m.chunk_off[cc + 1] + Total(m.block_len, fb, fb + p - 1), m.block_len[fb + p])
           fetched == {p \in 1 .. m.pages :
                         Overlaps(m, Total(m.block_rows, fb + 1, fb + p - 1), m.block_rows[fb + p])}
           pages == EmitRowRangePages(m, cc, m.chunk_off[cc + 1], m.block_len, m.block_rows)
           order == InOrder(fetched)
           rest == [k \in DOMAIN order |-> Page(order[k])]
           L == [offset : Nat, size : Nat]
<1>1. pages = <<Page(0)>> \o rest BY DEF EmitRowRangePages
<1> HIDE DEF pages
<1>2. fetched = FetchedPages(m)
  <2>1. \A p \in 1 .. m.pages :
          /\ m.block_rows[fb + p] = PageRows(m, p)
          /\ Total(m.block_rows, fb + 1, fb + p - 1) = (p - 1) * RowsPerPage(m)
    BY RowsBefore
  <2> HIDE DEF fb
  <2> QED BY <2>1 DEF FetchedPages
<1>3. PICK G \in Nat : G = m.pages BY DEF ModelFacts
<1>4. FetchedPages(m) \subseteq 1 .. G BY <1>3 DEF FetchedPages
<1> HIDE DEF fetched
<1>5. PICK c \in Nat : Ordered(order, c, FetchedPages(m))
  <2>1. FetchedPages(m) \subseteq 0 .. (G + 1) - 1 /\ G + 1 \in Nat BY <1>4
  <2> QED BY <1>2, <2>1, InOrderLast
<1>6. /\ order \in [1 .. c -> FetchedPages(m)] /\ DOMAIN order = 1 .. c
      /\ \A k \in 1 .. c : order[k] \in 1 .. G
  <2>1. order \in [1 .. c -> FetchedPages(m)] BY <1>5 DEF Ordered
  <2> HIDE DEF order
  <2> QED BY <1>4, <2>1
<1> HIDE DEF order
<1>7. ASSUME NEW p \in 0 .. G PROVE Page(p) = BlockAt(m, fb + p) /\ Page(p) \in L
  <2>1. PICK a \in Nat : a = Per(m) * cc BY BlocksOf
  <2>2. fb = a + 1 /\ fb + p \in 1 .. Chunks(m) * Per(m) BY <1>3, <2>1, BlocksOf
  <2>3. m.chunk_off[cc + 1] = Base + Total(m.block_len, 1, a) BY <2>1, ChunkIs
  <2>4. PICK n \in Nat : n = Chunks(m) * Per(m) BY DEF ModelFacts
  <2>5. \A k \in 1 .. a + p : m.block_len[k] \in Nat
    <3>1. \A k \in 1 .. a + p : k \in 1 .. n BY <2>2, <2>4
    <3> QED BY <2>4, <3>1 DEF ModelFacts
  <2>6. /\ Total(m.block_len, 1, a) \in Nat /\ Total(m.block_len, a + 1, a + p) \in Nat
        /\ Total(m.block_len, 1, a + p) = Total(m.block_len, 1, a) + Total(m.block_len, a + 1, a + p)
    <3>1. a + p \in Nat /\ a <= a + p OBVIOUS
    <3> QED BY <2>5, <3>1, SumsMeet
  <2>7. fb + p - 1 = a + p /\ (fb + p) - 1 = a + p BY <2>2
  <2>8. m.chunk_off[cc + 1] + Total(m.block_len, fb, fb + p - 1) = Base + Total(m.block_len, 1, (fb + p) - 1)
    <3>1. Base \in Nat BY LayoutsAssumption
    <3> QED BY <2>2, <2>3, <2>6, <2>7, <3>1
  <2>9. Page(p) = BlockAt(m, fb + p) BY <2>8 DEF BlockAt
  <2> HIDE DEF fb, Page
  <2> QED BY <2>2, <2>9, BlocksInOrder
<1> HIDE DEF Page
<1>8. <<Page(0)>> \in Seq(L) /\ Len(<<Page(0)>>) = 1 /\ <<Page(0)>>[1] = Page(0)
  <2>1. Page(0) \in L BY <1>3, <1>7
  <2> QED BY <2>1
<1>9. rest \in Seq(L) /\ Len(rest) = c /\ \A k \in 1 .. c : rest[k] = Page(order[k])
  <2>1. \A k \in 1 .. c : Page(order[k]) \in L
    <3> TAKE k \in 1 .. c
    <3>1. order[k] \in 0 .. G BY <1>6
    <3> QED BY <1>7, <3>1
  <2>2. rest \in [1 .. c -> L] BY <1>6, <2>1
  <2> QED BY <1>6, <2>2
<1> HIDE DEF rest, L
<1>10. /\ pages \in Seq(L) /\ Len(pages) = c + 1
       /\ \A j \in 1 .. c + 1 : pages[j] = IF j = 1 THEN Page(0) ELSE rest[j - 1]
  <2>1. PICK one \in Seq(L) : one = <<Page(0)>> BY <1>8
  <2>2. /\ pages \in Seq(L) /\ Len(pages) = Len(one) + Len(rest)
        /\ \A j \in 1 .. Len(one) + Len(rest) :
             pages[j] = IF j <= Len(one) THEN one[j] ELSE rest[j - Len(one)]
    BY <1>1, <1>9, <2>1, ConcatProperties
  <2>3. Len(one) = 1 /\ one[1] = Page(0) BY <1>8, <2>1
  <2> QED BY <1>9, <2>2, <2>3
<1>11. \A j \in 1 .. c + 1 : pages[j] = BlockAt(m, fb + IF j = 1 THEN 0 ELSE order[j - 1])
  <2> TAKE j \in 1 .. c + 1
  <2>1. CASE j = 1
    <3>1. 0 \in 0 .. G OBVIOUS
    <3> QED BY <1>7, <1>10, <2>1, <3>1
  <2>2. CASE j # 1
    <3>1. j - 1 \in 1 .. c BY <2>2
    <3>2. order[j - 1] \in 0 .. G BY <1>6, <3>1
    <3> QED BY <1>7, <1>9, <1>10, <2>2, <3>1, <3>2
  <2> QED BY <2>1, <2>2
<1>12. order = InOrder(FetchedPages(m)) BY <1>2 DEF order
<1> QED BY <1>5, <1>10, <1>11, <1>12 DEF pages, L

\* Of each chunk of the projection the dictionary page and the pages that
\* overlap the window, each at its place in the file, one behind the other.
AreRowsPages(flat, m) ==
  LET chunks == ToSet(Touched(m, "rows"))
      numbers == {0} \cup FetchedPages(m)
  IN  /\ chunks \subseteq ChunkIds(m)
      /\ DOMAIN flat = 1 .. Len(flat) /\ Len(flat) \in Nat
      /\ \A ix \in 1 .. Len(flat) : \E cc \in chunks, p \in numbers :
           flat[ix] = BlockAt(m, FirstBlock(m, cc) + p)
      /\ \A cc \in chunks, p \in numbers : \E ix \in 1 .. Len(flat) :
           flat[ix] = BlockAt(m, FirstBlock(m, cc) + p)
      /\ \A ix, k \in 1 .. Len(flat) : ix < k => flat[ix].offset + flat[ix].size <= flat[k].offset

\* That is what a row range is answered.
LEMMA RowsPages ==
  ASSUME NEW m, ModelFacts(m)
  PROVE  AreRowsPages(ExpectedRowsPages(m), m)
<1> DEFINE T == Touched(m, "rows")
           L == [offset : Nat, size : Nat]
           e == [cc \in ChunkIds(m) |->
                   EmitRowRangePages(m, cc, m.chunk_off[cc + 1], m.block_len, m.block_rows)]
           parts == ForEachSelected(m, "rows", e)
           flat == ExpectedRowsPages(m)
           order == InOrder(FetchedPages(m))
           c == Len(order)
           Number(j) == IF j = 1 THEN 0 ELSE order[j - 1]
<1>1. PICK N \in Nat : /\ DOMAIN T = 1 .. N /\ T \in [1 .. N -> ChunkIds(m)]
                       /\ \A k, l \in 1 .. N : k < l => T[k] < T[l]
  BY TouchedIs
<1>2. PICK G \in Nat : G = m.pages BY DEF ModelFacts
<1>3. PICK P \in Nat \ {0} : P = Per(m) /\ P = G + 1 BY <1>2 DEF ModelFacts, Per
<1> HIDE DEF order, T
<1>4. ASSUME NEW cc \in ChunkIds(m)
      PROVE  /\ c \in Nat /\ Ordered(order, c, FetchedPages(m))
             /\ e[cc] \in Seq(L) /\ Len(e[cc]) = c + 1
             /\ \A j \in 1 .. c + 1 : e[cc][j] = BlockAt(m, FirstBlock(m, cc) + Number(j))
  <2>1. e[cc] = EmitRowRangePages(m, cc, m.chunk_off[cc + 1], m.block_len, m.block_rows) OBVIOUS
  <2> HIDE DEF e, L
  <2>2. PICK d \in Nat : /\ Ordered(order, d, FetchedPages(m))
               /\ e[cc] \in Seq(L) /\ Len(e[cc]) = d + 1
               /\ \A j \in 1 .. d + 1 : e[cc][j] = BlockAt(m, FirstBlock(m, cc) + Number(j))
    <3> DEFINE pages == EmitRowRangePages(m, cc, m.chunk_off[cc + 1], m.block_len, m.block_rows)
    <3>1. \E d \in Nat :
            /\ Ordered(order, d, FetchedPages(m))
            /\ pages \in Seq(L) /\ Len(pages) = d + 1
            /\ \A j \in 1 .. d + 1 : pages[j] = BlockAt(m, FirstBlock(m, cc) + Number(j))
      BY EmittedPages, ZenonT(30) DEF order, L
    <3> HIDE DEF pages, Number
    <3>2. e[cc] = pages BY <2>1 DEF pages
    <3> QED BY <3>1, <3>2
  <2>3. order \in [1 .. d -> FetchedPages(m)] BY <2>2 DEF Ordered
  <2>4. c = d BY <2>3
  <2> QED BY <2>2, <2>4
<1> HIDE DEF e
<1>5. parts = [k \in 1 .. N |-> e[T[k]]] BY <1>1 DEF ForEachSelected, T
<1>6. flat = FlattenSeq(parts) BY DEF ExpectedRowsPages, e
<1> HIDE DEF parts, flat, L
<1>7. parts \in Seq(Seq(L)) /\ Len(parts) = N
  <2>1. \A k \in 1 .. N : e[T[k]] \in Seq(L) BY <1>1, <1>4
  <2>2. parts \in [1 .. N -> Seq(L)] BY <1>5, <2>1
  <2> QED BY <2>2
<1>8. ASSUME NEW k \in 1 .. N
      PROVE  /\ T[k] \in ChunkIds(m) /\ Len(parts[k]) = c + 1 /\ c \in Nat
             /\ \A j \in 1 .. c + 1 : parts[k][j] = BlockAt(m, FirstBlock(m, T[k]) + Number(j))
  BY <1>1, <1>4, <1>5
<1>9. /\ flat \in Seq(L)
      /\ \A ix \in 1 .. Len(flat) : \E k \in 1 .. N : \E j \in 1 .. Len(parts[k]) :
           ix = PartAt(parts, k, j)
      /\ \A k \in 1 .. N : \A j \in 1 .. Len(parts[k]) :
           PartAt(parts, k, j) \in 1 .. Len(flat) /\ flat[PartAt(parts, k, j)] = parts[k][j]
      /\ \A k, l \in 1 .. N : \A j \in 1 .. Len(parts[k]), ix \in 1 .. Len(parts[l]) :
           PartAt(parts, k, j) < PartAt(parts, l, ix) => k < l \/ (k = l /\ j < ix)
  <2> DEFINE all == FlattenSeq(parts)
  <2>1. /\ all \in Seq(L)
        /\ \A ix \in 1 .. Len(all) : \E k \in 1 .. Len(parts) : \E j \in 1 .. Len(parts[k]) :
             ix = PartAt(parts, k, j)
        /\ \A k \in 1 .. Len(parts) : \A j \in 1 .. Len(parts[k]) :
             PartAt(parts, k, j) \in 1 .. Len(all) /\ all[PartAt(parts, k, j)] = parts[k][j]
        /\ \A k, l \in 1 .. Len(parts) : \A j \in 1 .. Len(parts[k]), ix \in 1 .. Len(parts[l]) :
             PartAt(parts, k, j) < PartAt(parts, l, ix) => k < l \/ (k = l /\ j < ix)
    BY <1>7, FlattenedAt, ZenonT(30)
  <2> HIDE DEF all
  <2> QED BY <1>6, <1>7, <2>1, ZenonT(30) DEF all
<1>10. ASSUME NEW k \in 1 .. N
       PROVE  /\ c \in Nat
              /\ \A j \in 1 .. c + 1 :
                   /\ Number(j) \in {0} \cup FetchedPages(m) /\ Number(j) \in 0 .. G
                   /\ FirstBlock(m, T[k]) + Number(j) \in 1 .. Chunks(m) * Per(m)
              /\ \A p \in {0} \cup FetchedPages(m) : \E j \in 1 .. c + 1 : p = Number(j)
              /\ \A j, l \in 1 .. c + 1 : j < l => Number(j) < Number(l)
  <2>1. T[k] \in ChunkIds(m) BY <1>8
  <2>2. c \in Nat /\ Ordered(order, c, FetchedPages(m)) BY <1>4, <2>1
  <2> HIDE DEF c
  <2>3. /\ order \in [1 .. c -> FetchedPages(m)]
        /\ \A j, l \in 1 .. c : j < l => order[j] < order[l]
        /\ FetchedPages(m) = {order[j] : j \in 1 .. c}
    BY <2>2 DEF Ordered
  <2>4. FetchedPages(m) \subseteq 1 .. G BY <1>2 DEF FetchedPages
  <2>5. \A j \in 1 .. c + 1 : j # 1 => j - 1 \in 1 .. c /\ order[j - 1] \in FetchedPages(m)
                                       /\ order[j - 1] \in 1 .. G
    BY <2>2, <2>3, <2>4
  <2>6. \A j \in 1 .. c + 1 : Number(j) \in {0} \cup FetchedPages(m) /\ Number(j) \in 0 .. G
    BY <2>5
  <2>7. \A j \in 1 .. c + 1 : FirstBlock(m, T[k]) + Number(j) \in 1 .. Chunks(m) * Per(m)
    <3> TAKE j \in 1 .. c + 1
    <3>1. Number(j) \in 0 .. m.pages BY <1>2, <2>6
    <3> HIDE DEF Number
    <3> QED BY <2>1, <3>1, BlocksOf
  <2>8. \A p \in {0} \cup FetchedPages(m) : \E j \in 1 .. c + 1 : p = Number(j)
    <3> TAKE p \in {0} \cup FetchedPages(m)
    <3>1. CASE p = 0
      <4>1. 1 \in 1 .. c + 1 /\ Number(1) = 0 BY <2>2
      <4> QED BY <3>1, <4>1
    <3>2. CASE p # 0
      <4>1. PICK j \in 1 .. c : p = order[j] BY <2>3, <3>2
      <4>2. j + 1 \in 1 .. c + 1 /\ j + 1 # 1 /\ (j + 1) - 1 = j BY <2>2
      <4>3. Number(j + 1) = p BY <4>1, <4>2
      <4> QED BY <4>2, <4>3
    <3> QED BY <3>1, <3>2
  <2>9. \A j, l \in 1 .. c + 1 : j < l => Number(j) < Number(l)
    <3> TAKE j, l \in 1 .. c + 1
    <3> HAVE j < l
    <3>1. l # 1 /\ l - 1 \in 1 .. c BY <2>2
    <3>2. CASE j = 1 BY <2>5, <3>1, <3>2
    <3>3. CASE j # 1
      <4>1. j - 1 \in 1 .. c /\ j - 1 < l - 1 BY <2>2, <3>3
      <4> QED BY <2>3, <3>1, <3>3, <4>1
    <3> QED BY <3>2, <3>3
  <2> QED BY <2>2, <2>6, <2>7, <2>8, <2>9
<1> HIDE DEF Number, c
<1>11. ASSUME NEW ix \in 1 .. Len(flat)
       PROVE  \E k \in 1 .. N : \E j \in 1 .. c + 1 :
                ix = PartAt(parts, k, j) /\ flat[ix] = BlockAt(m, FirstBlock(m, T[k]) + Number(j))
  <2>1. PICK k \in 1 .. N : \E j \in 1 .. Len(parts[k]) : ix = PartAt(parts, k, j) BY <1>9
  <2>2. PICK j \in 1 .. Len(parts[k]) : ix = PartAt(parts, k, j) BY <2>1
  <2>3. flat[ix] = parts[k][j] BY <1>9, <2>2
  <2> QED BY <1>8, <2>2, <2>3
<1>12. ASSUME NEW ix \in 1 .. Len(flat)
       PROVE  \E cc \in ToSet(T), p \in {0} \cup FetchedPages(m) :
                flat[ix] = BlockAt(m, FirstBlock(m, cc) + p)
  <2>1. PICK k \in 1 .. N : \E j \in 1 .. c + 1 :
          ix = PartAt(parts, k, j) /\ flat[ix] = BlockAt(m, FirstBlock(m, T[k]) + Number(j))
    BY <1>11
  <2>2. PICK j \in 1 .. c + 1 : flat[ix] = BlockAt(m, FirstBlock(m, T[k]) + Number(j)) BY <2>1
  <2>3. T[k] \in ToSet(T) BY <1>1 DEF ToSet
  <2>4. Number(j) \in {0} \cup FetchedPages(m) BY <1>10
  <2> QED BY <2>2, <2>3, <2>4
<1>13. ASSUME NEW cc \in ToSet(T), NEW p \in {0} \cup FetchedPages(m)
       PROVE  \E ix \in 1 .. Len(flat) : flat[ix] = BlockAt(m, FirstBlock(m, cc) + p)
  <2>1. PICK k \in 1 .. N : cc = T[k] BY <1>1 DEF ToSet
  <2>2. PICK j \in 1 .. c + 1 : p = Number(j) BY <1>10
  <2>3. j \in 1 .. Len(parts[k]) /\ parts[k][j] = BlockAt(m, FirstBlock(m, T[k]) + Number(j)) BY <1>8
  <2>4. PartAt(parts, k, j) \in 1 .. Len(flat) /\ flat[PartAt(parts, k, j)] = parts[k][j]
    BY <1>9, <2>3
  <2> QED BY <2>1, <2>2, <2>3, <2>4
<1>14. ASSUME NEW ix \in 1 .. Len(flat), NEW h \in 1 .. Len(flat), ix < h
       PROVE  flat[ix].offset + flat[ix].size <= flat[h].offset
  <2>1. PICK k \in 1 .. N : \E j \in 1 .. c + 1 :
          ix = PartAt(parts, k, j) /\ flat[ix] = BlockAt(m, FirstBlock(m, T[k]) + Number(j))
    BY <1>11
  <2>2. PICK j \in 1 .. c + 1 :
          ix = PartAt(parts, k, j) /\ flat[ix] = BlockAt(m, FirstBlock(m, T[k]) + Number(j))
    BY <2>1
  <2>3. PICK l \in 1 .. N : \E g \in 1 .. c + 1 :
          h = PartAt(parts, l, g) /\ flat[h] = BlockAt(m, FirstBlock(m, T[l]) + Number(g))
    BY <1>11
  <2>4. PICK g \in 1 .. c + 1 :
          h = PartAt(parts, l, g) /\ flat[h] = BlockAt(m, FirstBlock(m, T[l]) + Number(g))
    BY <2>3
  <2>5. k < l \/ (k = l /\ j < g)
    <3>1. j \in 1 .. Len(parts[k]) /\ g \in 1 .. Len(parts[l]) BY <1>8
    <3>2. PartAt(parts, k, j) < PartAt(parts, l, g) BY <1>14, <2>2, <2>4
    <3> QED BY <1>9, <3>1, <3>2
  <2>6. PICK x \in 0 .. G : x = Number(j) BY <1>10
  <2>7. PICK y \in 0 .. G : y = Number(g) BY <1>10
  <2>8. PICK a \in Nat : a = T[k] /\ a \in ChunkIds(m) BY <1>8 DEF ChunkIds
  <2>9. PICK b \in Nat : b = T[l] /\ b \in ChunkIds(m) BY <1>8 DEF ChunkIds
  <2>10. FirstBlock(m, T[k]) = P * a + 1 /\ FirstBlock(m, T[l]) = P * b + 1
    BY <1>3, <2>8, <2>9 DEF FirstBlock
  <2>11. PICK u \in Nat : u = P * a OBVIOUS
  <2>12. PICK v \in Nat : v = P * b OBVIOUS
  <2>13. (u + 1) + x < (v + 1) + y
    <3>1. CASE k < l
      <4>1. a < b BY <1>1, <2>8, <2>9, <3>1
      <4>2. P * a + P <= P * b BY <4>1, QuotientGap
      <4>3. u + P <= v BY <2>11, <2>12, <4>2
      <4> QED BY <1>3, <4>3
    <3>2. CASE k = l /\ j < g
      <4>1. x < y BY <1>10, <2>6, <2>7, <3>2
      <4>2. u = v BY <2>8, <2>9, <2>11, <2>12, <3>2
      <4> QED BY <4>1, <4>2
    <3> QED BY <2>5, <3>1, <3>2
  <2>14. /\ flat[ix] = BlockAt(m, (u + 1) + x) /\ flat[h] = BlockAt(m, (v + 1) + y)
         /\ (u + 1) + x \in 1 .. Chunks(m) * Per(m) /\ (v + 1) + y \in 1 .. Chunks(m) * Per(m)
    BY <1>10, <2>2, <2>4, <2>6, <2>7, <2>10, <2>11, <2>12
  <2> QED BY <2>13, <2>14, BlocksInOrder
<1>15. ToSet(T) \subseteq ChunkIds(m) BY <1>1 DEF ToSet
<1>16. DOMAIN flat = 1 .. Len(flat) /\ Len(flat) \in Nat BY <1>9, LenProperties
<1>17. \A ix, h \in 1 .. Len(flat) : ix < h => flat[ix].offset + flat[ix].size <= flat[h].offset
  BY <1>14
<1> QED BY <1>12, <1>13, <1>15, <1>16, <1>17 DEF T, flat, AreRowsPages

\* The page that holds a row: all pages but the last hold equally many.
PageOfRow(m, p, r) ==
  p = IF RowsPerPage(m) = 0 THEN m.pages ELSE Min({m.pages, (r \div RowsPerPage(m)) + 1})

\* A page holds the rows from where it begins to where it ends.
LEMMA RowsOfPage ==
  ASSUME NEW m, ModelFacts(m), NEW p \in 1 .. m.pages
  PROVE  LET first == (p - 1) * RowsPerPage(m)
             rows == PageRows(m, p)
         IN  /\ first \in Nat /\ rows \in Nat /\ first + rows <= m.rows
             /\ first > 0 => rows > 0
             /\ \A r \in 0 .. m.rows - 1 :
                  PageOfRow(m, p, r) <=> first <= r /\ r < first + rows
<1>1. PICK G \in Nat \ {0} : G = m.pages
  <2>1. m.pages \in Nat BY DEF ModelFacts
  <2> QED BY <2>1
<1>2. PICK N \in Nat : N = m.rows BY DEF ModelFacts
<1>3. PICK R \in Nat : R = N \div G BY DivMod
<1>4. RowsPerPage(m) = R BY <1>1, <1>2, <1>3 DEF RowsPerPage
<1>5. N = G * R + (N % G) /\ N % G \in 0 .. G - 1 BY <1>3, DivMod
<1>6. p \in 1 .. G BY <1>1
<1>7. PICK f \in Nat : f = (p - 1) * R BY <1>6
<1>8. PICK l \in Nat : l = (G - 1) * R BY <1>6
<1>9. G * R = l + R BY <1>8
<1>10. l + R <= N BY <1>5, <1>9
<1>11. PageRows(m, p) = IF p = G THEN N - l ELSE R
  BY <1>1, <1>2, <1>4, <1>6, <1>8 DEF PageRows
<1>12. p = G => f = l BY <1>7, <1>8
<1>13. p # G => f + R <= l
  <2> HAVE p # G
  <2>1. p < G BY <1>6
  <2>2. R * p = R * (p - 1) + R BY <1>6
  <2>3. PICK d \in Nat : G - 1 = p + d
    <3>1. G - 1 - p \in Nat /\ G - 1 = p + (G - 1 - p) BY <2>1, <1>6
    <3> QED BY <3>1
  <2>4. (G - 1) * R = R * p + R * d
    <3>1. (p + d) * R = R * p + R * d BY <1>6
    <3> QED BY <2>3, <3>1
  <2>5. PICK x \in Nat : x = R * d OBVIOUS
  <2>6. PICK y \in Nat : y = R * p BY <1>6
  <2>7. (p - 1) * R = R * (p - 1) BY <1>6
  <2> QED BY <1>7, <1>8, <2>2, <2>4, <2>5, <2>6, <2>7
<1>14. PageRows(m, p) \in Nat /\ f + PageRows(m, p) <= N
  <2>1. CASE p = G
    <3>1. PageRows(m, p) = N - l BY <1>11, <2>1
    <3> QED BY <1>10, <1>12, <2>1, <3>1
  <2>2. CASE p # G
    <3>1. PageRows(m, p) = R BY <1>11, <2>2
    <3> QED BY <1>10, <1>13, <2>2, <3>1
  <2> QED BY <2>1, <2>2
<1>15. f > 0 => PageRows(m, p) > 0
  <2> HAVE f > 0
  <2>1. R > 0
    <3>1. R = 0 => f = 0 BY <1>6, <1>7
    <3> QED BY <3>1
  <2>2. CASE p = G
    <3>1. PageRows(m, p) = N - l BY <1>11, <2>2
    <3> QED BY <1>10, <2>1, <3>1
  <2>3. CASE p # G
    <3>1. PageRows(m, p) = R BY <1>11, <2>3
    <3> QED BY <2>1, <3>1
  <2> QED BY <2>2, <2>3
<1>16. ASSUME NEW r \in 0 .. N - 1
       PROVE  PageOfRow(m, p, r) <=> f <= r /\ r < f + PageRows(m, p)
  <2>1. r \in Nat /\ r < N BY <1>2
  <2>2. CASE R = 0
    <3>1. PageOfRow(m, p, r) <=> p = G BY <1>1, <1>4, <2>2 DEF PageOfRow
    <3>2. f = 0 /\ l = 0 BY <1>6, <1>7, <1>8, <2>2
    <3>3. CASE p = G
      <4>1. PageRows(m, p) = N - l BY <1>11, <3>3
      <4> QED BY <2>1, <3>1, <3>2, <3>3, <4>1
    <3>4. CASE p # G
      <4>1. PageRows(m, p) = 0 BY <1>11, <2>2, <3>4
      <4> QED BY <2>1, <3>1, <3>2, <3>4, <4>1
    <3> QED BY <3>3, <3>4
  <2>3. CASE R # 0
    <3>1. R \in Nat \ {0} BY <2>3
    <3>2. PICK x \in Nat : x = r \div R BY <2>1, <3>1, DivMod
    <3>3. PICK y \in 0 .. R - 1 : y = r % R BY <2>1, <3>1, DivMod
    <3>4. r = R * x + y BY <2>1, <3>1, <3>2, <3>3, DivMod
    <3>5. PageOfRow(m, p, r) <=> p = IF G <= x + 1 THEN G ELSE x + 1
      <4>1. PageOfRow(m, p, r) <=> p = Min({G, x + 1}) BY <1>1, <1>4, <2>3, <3>2 DEF PageOfRow
      <4>2. x + 1 \in Nat OBVIOUS
      <4>3. Min({G, x + 1}) = IF G <= x + 1 THEN G ELSE x + 1 BY <4>2, MinOfTwo
      <4> QED BY <4>1, <4>3
    <3>6. PICK X \in Nat : X = R * x BY <3>1
    <3>7. r = X + y /\ y < R /\ y \in Nat BY <3>1, <3>3, <3>4, <3>6
    <3>8. f = R * (p - 1) BY <1>6, <1>7
    <3>9. x < p - 1 => X + R <= f
      <4> HAVE x < p - 1
      <4>1. p - 1 \in Int /\ x \in Int BY <1>6
      <4>2. R * x + R <= R * (p - 1) BY <3>1, <4>1, QuotientGap
      <4> QED BY <3>6, <3>8, <4>2
    <3>10. p - 1 < x => f + R <= X
      <4> HAVE p - 1 < x
      <4>1. p - 1 \in Int /\ x \in Int BY <1>6
      <4>2. R * (p - 1) + R <= R * x BY <3>1, <4>1, QuotientGap
      <4> QED BY <3>6, <3>8, <4>2
    <3>11. p - 1 = x => f = X BY <3>6, <3>8
    <3>12. CASE p = G
      <4>1. PageRows(m, p) = N - f BY <1>11, <1>12, <3>12
      <4>2. PageOfRow(m, p, r) <=> p <= x + 1 BY <1>6, <3>5, <3>12
      <4>3. CASE x < p - 1 BY <1>6, <2>1, <3>7, <3>9, <4>1, <4>2, <4>3
      <4>4. CASE p - 1 < x BY <1>6, <2>1, <3>1, <3>7, <3>10, <4>1, <4>2, <4>4
      <4>5. CASE p - 1 = x BY <1>6, <2>1, <3>7, <3>11, <4>1, <4>2, <4>5
      <4> QED BY <1>6, <4>3, <4>4, <4>5
    <3>13. CASE p # G
      <4>1. PageRows(m, p) = R BY <1>11, <3>13
      <4>2. PageOfRow(m, p, r) <=> p = x + 1 BY <1>6, <3>5, <3>13
      <4>3. CASE x < p - 1 BY <1>6, <2>1, <3>7, <3>9, <4>1, <4>2, <4>3
      <4>4. CASE p - 1 < x BY <1>6, <2>1, <3>1, <3>7, <3>10, <4>1, <4>2, <4>4
      <4>5. CASE p - 1 = x BY <1>6, <2>1, <3>7, <3>11, <4>1, <4>2, <4>5
      <4> QED BY <1>6, <4>3, <4>4, <4>5
    <3> QED BY <3>12, <3>13
  <2> QED BY <2>2, <2>3
<1>17. (p - 1) * RowsPerPage(m) = f BY <1>4, <1>7
<1>18. \A r \in 0 .. N - 1 : PageOfRow(m, p, r) <=> f <= r /\ r < f + PageRows(m, p) BY <1>16
<1> QED BY <1>2, <1>14, <1>15, <1>17, <1>18

-----------------------------------------------------------------------------
(* A row range, by rows.                                                   *)

\* What the answer to a row range is.
LEMMA RowsAnswer ==
  ASSUME LayoutInv, RowsAnswered
  PROVE  resolved["rows"] = ExpectedRowsPages(model) /\ ModelFacts(model)
<1>1. resolved["rows"] = Want("rows") BY DEF LayoutInv, RowsAnswered
<1>2. Want("rows") = ExpectedRowsPages(model) BY DEF RowsAnswered, Want
<1> QED BY <1>1, <1>2, ModelIs DEF LayoutInv

LEMMA CoversRows == LayoutInv => RowsCovered
<1> SUFFICES ASSUME LayoutInv, RowsAnswered
             PROVE  \A cc \in Selected :
                      /\ PageAt(cc, 0) \in ToSet(resolved["rows"])
                      /\ \A r \in 0 .. model.rows - 1, p \in 1 .. model.pages :
                           Row(r) /\ HoldsRow(p, r) => PageAt(cc, p) \in ToSet(resolved["rows"])
  BY DEF RowsCovered
<1>1. PICK m : m = model OBVIOUS
<1>2. PICK flat : flat = ExpectedRowsPages(m) OBVIOUS
<1>3. resolved["rows"] = flat /\ ModelFacts(m) BY <1>1, <1>2, RowsAnswer
<1>4. /\ DOMAIN flat = 1 .. Len(flat)
      /\ \A cc \in ToSet(Touched(m, "rows")), p \in {0} \cup FetchedPages(m) :
           \E ix \in 1 .. Len(flat) : flat[ix] = BlockAt(m, FirstBlock(m, cc) + p)
  <2>1. AreRowsPages(flat, m) BY <1>2, <1>3, RowsPages
  <2> QED BY <2>1 DEF AreRowsPages
<1>5. ASSUME NEW cc \in Selected, NEW p \in {0} \cup FetchedPages(m)
      PROVE  PageAt(cc, p) \in ToSet(resolved["rows"])
  <2>1. cc \in ToSet(Touched(m, "rows")) BY <1>1 DEF Selected
  <2>2. PageAt(cc, p) = BlockAt(m, FirstBlock(m, cc) + p) BY <1>1 DEF PageAt, BlockAt
  <2>3. PICK ix \in 1 .. Len(flat) : flat[ix] = BlockAt(m, FirstBlock(m, cc) + p) BY <1>4, <2>1
  <2> QED BY <1>3, <1>4, <2>2, <2>3 DEF ToSet
<1>6. ASSUME NEW r \in 0 .. m.rows - 1, NEW p \in 1 .. m.pages, Row(r), HoldsRow(p, r)
      PROVE  p \in FetchedPages(m)
  <2>1. PICK f \in Nat : f = (p - 1) * RowsPerPage(m) BY <1>3, RowsOfPage
  <2>2. PICK n \in Nat : n = PageRows(m, p) BY <1>3, RowsOfPage
  <2>3. PageOfRow(m, p, r) BY <1>1, <1>6 DEF HoldsRow, PageOfRow
  <2>4. f <= r /\ r < f + n BY <1>3, <2>1, <2>2, <2>3, RowsOfPage
  <2>5. m.window.first <= r /\ r < m.window.first + m.window.num BY <1>1, <1>6 DEF Row
  <2>6. PICK a \in Int : a = m.window.first BY <1>3 DEF ModelFacts
  <2>7. PICK b \in Nat : b = m.window.num BY <1>3 DEF ModelFacts
  <2>8. m.rows \in Nat BY <1>3 DEF ModelFacts
  <2>9. r \in Int BY <2>8
  <2>10. f < a + b /\ a < f + n BY <2>4, <2>5, <2>6, <2>7, <2>9
  <2>11. Overlaps(m, f, n) BY <2>6, <2>7, <2>10 DEF Overlaps
  <2> QED BY <2>1, <2>2, <2>11 DEF FetchedPages
<1> QED BY <1>1, <1>5, <1>6

LEMMA FetchesNoMore == LayoutInv => NoNeedlessPage
<1> SUFFICES ASSUME LayoutInv, RowsAnswered, model.window.num > 0, model.window.first >= 0
             PROVE  /\ \A x \in ToSet(resolved["rows"]) : \E cc \in Selected, p \in 0 .. model.pages :
                         /\ x = PageAt(cc, p)
                         /\ p = 0 \/ \E r \in 0 .. model.rows - 1 : Row(r) /\ HoldsRow(p, r)
                    /\ \A j, k \in DOMAIN resolved["rows"] : j < k =>
                         resolved["rows"][j].offset + resolved["rows"][j].size
                           <= resolved["rows"][k].offset
  BY DEF NoNeedlessPage
<1>1. PICK m : m = model OBVIOUS
<1>2. PICK flat : flat = ExpectedRowsPages(m) OBVIOUS
<1>3. resolved["rows"] = flat /\ ModelFacts(m) BY <1>1, <1>2, RowsAnswer
<1>4. /\ DOMAIN flat = 1 .. Len(flat)
      /\ \A ix \in 1 .. Len(flat) : \E cc \in ToSet(Touched(m, "rows")), p \in {0} \cup FetchedPages(m) :
           flat[ix] = BlockAt(m, FirstBlock(m, cc) + p)
      /\ \A ix, k \in 1 .. Len(flat) : ix < k => flat[ix].offset + flat[ix].size <= flat[k].offset
  <2>1. AreRowsPages(flat, m) BY <1>2, <1>3, RowsPages
  <2> QED BY <2>1 DEF AreRowsPages
<1>5. PICK G \in Nat : G = m.pages BY <1>3 DEF ModelFacts
<1>6. ASSUME NEW p \in FetchedPages(m)
      PROVE  \E r \in 0 .. m.rows - 1 : Row(r) /\ HoldsRow(p, r)
  <2>1. p \in 1 .. m.pages /\ Overlaps(m, (p - 1) * RowsPerPage(m), PageRows(m, p))
    BY DEF FetchedPages
  <2>2. PICK f \in Nat : f = (p - 1) * RowsPerPage(m) BY <1>3, <2>1, RowsOfPage
  <2>3. PICK n \in Nat : n = PageRows(m, p) BY <1>3, <2>1, RowsOfPage
  <2>4. PICK N \in Nat : N = m.rows BY <1>3 DEF ModelFacts
  <2>5. /\ f + n <= N /\ (f > 0 => n > 0)
        /\ \A r \in 0 .. N - 1 : PageOfRow(m, p, r) <=> f <= r /\ r < f + n
    BY <1>3, <2>1, <2>2, <2>3, <2>4, RowsOfPage
  <2>6. PICK a \in Int : a = m.window.first /\ a >= 0 BY <1>1, <1>3 DEF ModelFacts
  <2>7. PICK b \in Nat : b = m.window.num /\ b > 0 BY <1>1, <1>3 DEF ModelFacts
  <2>8. f < a + b /\ a < f + n BY <2>1, <2>2, <2>3, <2>6, <2>7 DEF Overlaps
  <2>9. PICK r \in Int : r >= a /\ r < a + b /\ f <= r /\ r < f + n
    <3>1. CASE a >= f BY <2>6, <2>7, <2>8, <3>1
    <3>2. CASE a < f
      <4>1. f > 0 /\ n > 0 BY <2>5, <2>6, <3>2
      <4> QED BY <2>8, <3>2, <4>1
    <3> QED BY <2>6, <3>1, <3>2
  <2>10. r \in 0 .. N - 1 BY <2>5, <2>9
  <2>11. PageOfRow(m, p, r) BY <2>5, <2>9, <2>10
  <2>12. Row(r) BY <1>1, <2>4, <2>6, <2>7, <2>9, <2>10 DEF Row
  <2>13. HoldsRow(p, r) BY <1>1, <2>11 DEF HoldsRow, PageOfRow
  <2> QED BY <2>4, <2>10, <2>12, <2>13
<1>7. ASSUME NEW x \in ToSet(flat)
      PROVE  \E cc \in Selected, p \in 0 .. m.pages :
               /\ x = PageAt(cc, p)
               /\ p = 0 \/ \E r \in 0 .. m.rows - 1 : Row(r) /\ HoldsRow(p, r)
  <2>1. PICK ix \in 1 .. Len(flat) : x = flat[ix] BY <1>4 DEF ToSet
  <2>2. PICK cc \in ToSet(Touched(m, "rows")), p \in {0} \cup FetchedPages(m) :
          x = BlockAt(m, FirstBlock(m, cc) + p)
    BY <1>4, <2>1
  <2>3. cc \in Selected BY <1>1 DEF Selected
  <2>4. x = PageAt(cc, p) BY <1>1, <2>2 DEF PageAt, BlockAt
  <2>5. p \in 0 .. m.pages
    <3>1. FetchedPages(m) \subseteq 1 .. G BY <1>5 DEF FetchedPages
    <3> QED BY <1>5, <3>1
  <2> QED BY <1>6, <2>3, <2>4, <2>5
<1>8. \A j, k \in DOMAIN flat : j < k => flat[j].offset + flat[j].size <= flat[k].offset BY <1>4
<1> QED BY <1>1, <1>3, <1>7, <1>8

\* A row of the window is in a page that the layouts which know the pages
\* fetch, at its place in the file, and so is the dictionary page it needs
\* (harness.h:92).
THEOREM EveryRowFetched == LayoutSpec => []RowsCovered
<1> QED BY CoversRows, LayoutsKeepAnswers, PTL

\* A page that holds no row of the window is not fetched, no page is fetched
\* twice, and the pages come in the order they have in the file: what
\* rowsel_bytes_fetched counts is what the window needs.
THEOREM NoPageInVain == LayoutSpec => []NoNeedlessPage
<1> QED BY FetchesNoMore, LayoutsKeepAnswers, PTL
=============================================================================

-------------------------------- MODULE Bits --------------------------------
(***************************************************************************)
(* Bytes, words and packed lists of words, as the fixed-width codec of     *)
(* include/pfb/bitpack.h sees them.  A byte or a word is the set of the    *)
(* positions of its one bits, so a mask is an intersection, a shift moves  *)
(* every position and "or" is union.                                       *)
(***************************************************************************)
EXTENDS Integers, Sequences

CONSTANTS ByteBits,   \* bits in a byte (8)
          WordBits,   \* bits in a value, a uint64_t (64)
          AccBits,    \* bits in the accumulator, an unsigned __int128 (128)
          Window      \* bytes one ExtractBits reads (9)

ASSUME WidthsAssumption ==
  /\ ByteBits \in Nat \ {0} /\ WordBits \in Nat \ {0}
  /\ AccBits \in Nat /\ AccBits >= WordBits + ByteBits - 1
  /\ Window \in Nat /\ ByteBits * Window >= WordBits + ByteBits - 1

Low(n) == 0 .. n - 1
Byte == SUBSET Low(ByteBits)
Word == SUBSET Low(WordBits)

Top(word) == CHOOSE b \in word : \A x \in word : x <= b
BitWidth(word) == IF word = {} THEN 0 ELSE Top(word) + 1
LowMask(n) == IF n >= WordBits THEN Low(WordBits) ELSE Low(n)
Left(word, n, bits) == {b + n : b \in word} \cap Low(bits)
Right(word, n) == {b - n : b \in {x \in word : x >= n}}

\* The callers' width: the top bit of the greatest value, which is the top bit
\* of any of them.
WidthFor(values) == BitWidth(UNION {values[k] : k \in 1 .. Len(values)})

\* PackBits: bit p of the stream is bit p % w of value p \div w; the last byte
\* is filled up with zero bits.
BytesFor(n, w) == (n * w + ByteBits - 1) \div ByteBits
PackBits(values, w) ==
  [k \in 1 .. BytesFor(Len(values), w) |->
     {b \in Low(ByteBits) : LET p == ByteBits * (k - 1) + b IN
        p < w * Len(values) /\ (p % w) \in values[(p \div w) + 1]}]

\* ExtractBits: Window bytes from the one that holds the first bit, shifted
\* and masked.
Loaded(buf, bit, bytes) ==
  UNION {Left(buf[(bit \div ByteBits) + k + 1], ByteBits * k, AccBits) : k \in Low(bytes)}
ExtractShort(buf, idx, w) ==
  IF w = 0 THEN {}
  ELSE Right(Loaded(buf, w * idx, Window - 1), (w * idx) % ByteBits) \cap LowMask(w)
ExtractBits(buf, idx, w) ==
  IF w = 0 THEN {}
  ELSE Right(Loaded(buf, w * idx, Window), (w * idx) % ByteBits) \cap LowMask(w)
=============================================================================

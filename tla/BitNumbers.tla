----------------------------- MODULE BitNumbers -----------------------------
(***************************************************************************)
(* Natural numbers and the bytes that hold them: the value of a word, and  *)
(* ULEB128 varints.                                                        *)
(***************************************************************************)
EXTENDS Bits, Functions

\* A bit width fits the byte it is stored in; a varint byte has a bit to spare.
ASSUME NumbersAssumption == WordBits < 2 ^ ByteBits /\ ByteBits > 1

BitsOf(n) == {b \in Low(WordBits) : (n \div 2 ^ b) % 2 = 1}
NumberOf(bits) == SumFunction([b \in bits |-> 2 ^ b])
Numbers(s) == [k \in DOMAIN s |-> BitsOf(s[k])]
Lens(values) == [k \in DOMAIN values |-> Len(values[k])]

\* ULEB128: ByteBits - 1 bits a byte, the top bit set on all but the last.
More == ByteBits - 1
UlebSize(word) == IF word = {} THEN 1 ELSE (Top(word) \div More) + 1
UlebOf(word) ==
  [k \in 1 .. UlebSize(word) |->
     (Right(word, More * (k - 1)) \cap Low(More)) \cup {b \in {More} : k < UlebSize(word)}]
UlebByBytes(bytes) ==
  UNION {Left(bytes[k] \ {More}, ByteBits * (k - 1), WordBits) : k \in DOMAIN bytes}
UlebValue(bytes) ==
  UNION {Left(bytes[k] \ {More}, More * (k - 1), WordBits) : k \in DOMAIN bytes}

\* How many bytes the varint that starts at index "at" of a buffer takes.
UlebLen(buf, at) ==
  CHOOSE n \in 1 .. Len(buf) :
    /\ More \notin buf[at + n - 1]
    /\ \A k \in 1 .. n - 1 : More \in buf[at + k - 1]
=============================================================================

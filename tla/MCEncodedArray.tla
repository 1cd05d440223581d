--------------------------- MODULE MCEncodedArray ---------------------------
(***************************************************************************)
(* Three-bit bytes, six-bit words, a window of three bytes.  A varint byte *)
(* holds two bits, so four present positions take two.                     *)
(***************************************************************************)
EXTENDS EncodedArray

CONSTANT MaxDomain

ArraysOf(kind, n, present, range) ==
  {[kind |-> kind, domain |-> n, positions |-> SetToSortSeq(present, <), values |-> s] :
     s \in [1 .. Cardinality(present) -> range]}

\* Numbers: zero, one bit, the word's first and last bit.
MCNumbers == {{}, {0}, {0, 5}}
\* Byte strings: empty, short, longer than a window.
MCStrings == {<<>>, <<{0}>>, <<{1}, {}, {0, 2}, {1}>>}

MCArrays ==
  UNION {UNION {ArraysOf("ints", n, present, MCNumbers) \cup ArraysOf("bytes", n, present, MCStrings) :
           present \in SUBSET (0 .. n - 1)} : n \in 1 .. MaxDomain}
    \cup UNION {ArraysOf("dense", n, 0 .. n - 1, MCNumbers) : n \in 1 .. MaxDomain - 1}

MCBetween == <<{0, 1, 2}>>
\* As short as the trailer may be, all ones.
MCAfter == <<{0, 1, 2}, {0, 1, 2}>>
=============================================================================

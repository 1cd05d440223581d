------------------------------- MODULE BitPack -------------------------------
(***************************************************************************)
(* PackBits and ExtractBits of include/pfb/bitpack.h (thrift_codec.h has   *)
(* the reader again): values packed at one width, least significant bit    *)
(* first, through an accumulator that is emptied a byte at a time, and     *)
(* read back one at a time from a window of bytes that may reach past the  *)
(* packed region into whatever follows it.                                 *)
(***************************************************************************)
EXTENDS Bits

CONSTANTS Batches,    \* the lists of values that may be packed
          Tails       \* the bytes that may follow the packed region

\* Whoever reads keeps the window readable: 16 zero bytes in layouts.cc, the
\* next module or the root and the 12-byte trailer in a modular file.
ASSUME DataAssumption ==
  /\ Batches \subseteq Seq(Word)
  /\ Tails \subseteq {t \in Seq(Byte) : Len(t) >= Window - 1}

VARIABLES vals,    \* the values
          width,   \* bits kept of each
          phase,   \* "pack", then "read"
          i,       \* values taken so far
          acc,     \* the accumulator
          nbits,   \* bits of it in use
          out,     \* bytes written
          tail,    \* what follows them in the reader's buffer
          asked,   \* index of the last value asked for, -1 before
          got      \* what ExtractBits answered

packVars == <<vals, width, i, acc, nbits, out, tail>>
vars == <<packVars, phase, asked, got>>

-----------------------------------------------------------------------------
\* PackBits.

Init ==
  /\ vals \in Batches /\ width = WidthFor(vals)
  /\ phase = "pack" /\ i = 0 /\ acc = {} /\ nbits = 0
  /\ out = <<>> /\ tail = <<>> /\ asked = -1 /\ got = {}

Unread == width # 0 /\ i < Len(vals)

TakeAtStreamPosition ==
  /\ phase = "pack" /\ Unread /\ nbits < ByteBits
  /\ acc' = acc \cup Left(vals[i + 1] \cap LowMask(width), width * i, AccBits)
  /\ nbits' = nbits + width /\ i' = i + 1
  /\ UNCHANGED <<vals, width, phase, out, tail, asked, got>>

TakeValue ==
  /\ phase = "pack" /\ Unread /\ nbits < ByteBits
  /\ acc' = acc \cup Left(vals[i + 1] \cap LowMask(width), nbits, AccBits)
  /\ nbits' = nbits + width /\ i' = i + 1
  /\ UNCHANGED <<vals, width, phase, out, tail, asked, got>>

DrainByte ==
  /\ phase = "pack" /\ nbits >= ByteBits
  /\ out' = Append(out, acc \cap Low(ByteBits))
  /\ acc' = Right(acc, ByteBits) /\ nbits' = nbits - ByteBits
  /\ UNCHANGED <<vals, width, phase, i, tail, asked, got>>

EndWithoutLastBits ==
  /\ phase = "pack" /\ ~Unread /\ nbits < ByteBits
  /\ phase' = "read" /\ tail' \in Tails
  /\ UNCHANGED <<vals, width, i, acc, nbits, out, asked, got>>

EndWithSpareByte ==
  /\ phase = "pack" /\ ~Unread /\ nbits < ByteBits
  /\ phase' = "read" /\ tail' \in Tails
  /\ out' = Append(out, acc \cap Low(ByteBits))
  /\ UNCHANGED <<vals, width, i, acc, nbits, asked, got>>

EndPack ==
  /\ phase = "pack" /\ ~Unread /\ nbits < ByteBits
  /\ phase' = "read" /\ tail' \in Tails
  /\ out' = IF nbits > 0 THEN Append(out, acc \cap Low(ByteBits)) ELSE out
  /\ UNCHANGED <<vals, width, i, acc, nbits, asked, got>>

-----------------------------------------------------------------------------
\* ExtractBits.

Buffer == out \o tail
FirstBit(idx) == width * idx
FirstByte(idx) == FirstBit(idx) \div ByteBits

Extract ==
  /\ phase = "read"
  /\ \E idx \in Low(Len(vals)) : asked' = idx /\ got' = ExtractBits(Buffer, idx, width)
  /\ UNCHANGED <<packVars, phase>>

Next == TakeValue \/ DrainByte \/ EndPack \/ Extract

Spec == Init /\ [][Next]_vars

-----------------------------------------------------------------------------
\* Bit p of what has been written: in a byte that is out, or still in acc.
Written(p) ==
  IF p < ByteBits * Len(out)
  THEN p % ByteBits \in out[(p \div ByteBits) + 1]
  ELSE (p - ByteBits * Len(out)) \in acc

\* PackBits' accumulator never holds a bit past the ones in use, never more
\* than it has room for, and together with the bytes already out it holds
\* bit b of value j at position j * width + b and nowhere else.
PackInv ==
  /\ vals \in Seq(Word) /\ width \in 0 .. WordBits
  /\ \A k \in 1 .. Len(vals) : vals[k] \subseteq Low(width)
  /\ phase \in {"pack", "read"} /\ i \in 0 .. Len(vals) /\ out \in Seq(Byte)
  /\ phase = "pack" =>
       /\ nbits \in 0 .. WordBits + ByteBits - 1 /\ acc \subseteq Low(nbits)
       /\ nbits + ByteBits * Len(out) = width * i
       /\ width = 0 => i = 0
       /\ tail = <<>>
       /\ \A j \in Low(i) : \A b \in Low(width) :
            Written(width * j + b) <=> b \in vals[j + 1]
  /\ phase = "read" =>
       /\ tail \in Tails /\ width * Len(vals) <= ByteBits * Len(out)
       /\ \A j \in Low(Len(vals)) : \A b \in Low(width) :
            Written(width * j + b) <=> b \in vals[j + 1]

\* The reader of value idx loads Window bytes from the one with its first bit:
\* all of them lie in the packed bytes or in what the caller keeps readable
\* behind them (bitpack.h:55, footer_formats.h:308).
WindowInside ==
  phase = "read" /\ width # 0 =>
    \A idx \in Low(Len(vals)) : FirstByte(idx) + Window <= Len(Buffer)

\* What PackBits returns is the stream cut into bytes: as many as the values
\* need, zero bits behind the last value, no byte for a list of zeros.
PackedAsStated == phase = "read" => out = PackBits(vals, width)

\* ExtractBits gives back the value that was packed, for every width from 0 to
\* a whole word, wherever it straddles bytes, and whatever follows the region.
ReadBack == asked >= 0 => got = vals[asked + 1]
=============================================================================

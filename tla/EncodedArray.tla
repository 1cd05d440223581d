---------------------------- MODULE EncodedArray ----------------------------
(***************************************************************************)
(* The EncodedArray of the modular footer: values at positions of a        *)
(* domain, written by PutIntDense, PutIntSparse and PutBytesSparse of      *)
(* parquet_to_modular.cc into two byte blobs and read in place by          *)
(* ParsePresence, BitsetAt, PresentInt and PresentBytes of                 *)
(* footer_formats.h, byte by byte and with unaligned, over-reading windows.*)
(*                                                                         *)
(* Kinds: "dense" has a value at every position and no presence blob,      *)
(* "ints" and "bytes" list the positions that have one.                    *)
(***************************************************************************)
EXTENDS BitNumbers, SequencesExt

CONSTANTS Arrays,   \* what may be written: records of kind, domain, positions, values
          Between,  \* Thrift bytes between the blobs (encoding, field headers)
          After     \* what follows the array: modules, root, 12-byte trailer

ASSUME ArraysAssumption ==
  /\ \A a \in Arrays :
       /\ a.kind \in {"dense", "ints", "bytes"} /\ a.domain \in Nat /\ a.domain < 2 ^ WordBits
       /\ a.positions \in Seq(Low(a.domain)) /\ IsInjective(a.positions)
       /\ a.kind = "dense" => a.positions = [k \in 1 .. a.domain |-> k - 1]
       /\ a.values \in Seq(IF a.kind = "bytes" THEN Seq(Byte) ELSE Word)
       /\ Len(a.values) = Len(a.positions)
       /\ a.kind = "bytes" => Len(FlattenSeq(a.values)) < 2 ^ WordBits
  /\ Between \in Seq(Byte) /\ After \in Seq(Byte) /\ Len(After) >= Window - 1

VARIABLES array,     \* what is written
          buf,       \* the file from the values blob on
          spans,     \* where ParseArrayPage found the blobs: offset and size
          pr,        \* ParsePresence's answer: np, wpos, pos
          stage,     \* "write", "parse", "fill", "done"
          entry,     \* i, the fill loop's index
          has, val,  \* per position: a value was found, and which
          reach      \* the highest index of buf that was read

arrayVars == <<array, buf, spans, pr, stage, entry, has, val, reach>>

-----------------------------------------------------------------------------
\* The writers.

EndsFirst(values) ==
  [k \in 1 .. Len(values) + 1 |-> SumFunctionOnSet(Lens(values), (1 .. k) \cap DOMAIN values)]
Cum(values) == [k \in 1 .. Len(values) + 1 |-> SumFunctionOnSet(Lens(values), 1 .. k - 1)]
Packed(words, w) == <<BitsOf(w)>> \o PackBits(words, w)

ValuesBlob(a) ==
  IF a.kind = "bytes"
  THEN LET cum == Numbers(Cum(a.values))
       IN  Packed(cum, BitWidth(cum[Len(cum)])) \o FlattenSeq(a.values)
  ELSE Packed(a.values, WidthFor(a.values))
PresenceBlob(a) ==
  IF a.kind = "dense" THEN <<>>
  ELSE UlebOf(BitsOf(Len(a.positions)))
       \o Packed(Numbers(a.positions), BitWidth(BitsOf(IF a.domain > 0 THEN a.domain - 1 ELSE 0)))

ArrayInit ==
  /\ array \in Arrays /\ buf = <<>> /\ stage = "write" /\ entry = 0 /\ reach = 0
  /\ spans = [values |-> [at |-> 0, size |-> 0], presence |-> [at |-> 0, size |-> 0]]
  /\ pr = [np |-> 0, wpos |-> 0, pos |-> 0]
  /\ has = {} /\ val = <<>>

\* The struct is written, and ParseArrayPage finds the two blobs in the file.
Put ==
  /\ stage = "write" /\ stage' = "parse"
  /\ LET values == ValuesBlob(array)
         presence == PresenceBlob(array) IN
     /\ buf' = values \o Between \o presence \o After
     /\ spans' = [values |-> [at |-> 0, size |-> Len(values)],
                  presence |-> [at |-> Len(values \o Between), size |-> Len(presence)]]
  /\ UNCHANGED <<array, pr, entry, has, val, reach>>

-----------------------------------------------------------------------------
\* The readers.  A byte past the end of the buffer is read as zero here;
\* ReadsInside says that none is.

ByteAt(k) == IF k < Len(buf) THEN buf[k + 1] ELSE {}
LastByte(at, idx, w) == IF w = 0 THEN at ELSE at + ((w * idx) \div ByteBits) + Window
BitsAt(at, idx, w) ==
  ExtractBits([k \in 1 .. LastByte(at, idx, w) - at |-> ByteAt(at + k - 1)], idx, w)

APWidth == IF spans.values.size > 0 THEN NumberOf(ByteAt(spans.values.at)) ELSE 0
APData == spans.values.at + 1

ParsePresence ==
  /\ stage = "parse" /\ array.kind # "dense" /\ stage' = "fill"
  /\ LET p == spans.presence.at
         n == CHOOSE k \in 1 .. Len(buf) :
                /\ More \notin ByteAt(p + k - 1)
                /\ \A j \in 1 .. k - 1 : More \in ByteAt(p + j - 1) IN
     /\ pr' = [np   |-> NumberOf(UlebValue([k \in 1 .. n |-> ByteAt(p + k - 1)])),
               wpos |-> NumberOf(ByteAt(p + n)),
               pos  |-> p + n + 1]
     /\ reach' = Max({reach, p + n + 1})
  /\ UNCHANGED <<array, buf, spans, entry, has, val>>

\* One round of PresentInt's or PresentBytes' loop.
Position == NumberOf(BitsAt(pr.pos, entry, pr.wpos))
CumBytes == BytesFor(pr.np + 1, APWidth)
Keep(value, upto) ==
  /\ IF Position < array.domain
     THEN /\ has' = has \cup {Position}
          /\ val' = [p \in has' |-> IF p = Position THEN value ELSE val[p]]
     ELSE UNCHANGED <<has, val>>
  /\ reach' = Max({reach, LastByte(pr.pos, entry, pr.wpos), upto})
  /\ entry' = entry + 1
  /\ UNCHANGED <<array, buf, spans, pr, stage>>

PresentInt ==
  /\ stage = "fill" /\ array.kind = "ints" /\ entry < pr.np
  /\ Keep(BitsAt(APData, entry, APWidth), LastByte(APData, entry, APWidth))

PresentBytes ==
  /\ stage = "fill" /\ array.kind = "bytes" /\ entry < pr.np
  /\ LET c0 == NumberOf(BitsAt(APData, entry, APWidth))
         c1 == NumberOf(BitsAt(APData, entry + 1, APWidth))
         bytes == APData + CumBytes
         span == [at |-> bytes + c0, size |-> c1 - c0] IN
     Keep(span, Max({LastByte(APData, entry + 1, APWidth), bytes + c1}))

EndFill ==
  /\ stage = "fill" /\ entry >= pr.np /\ stage' = "done"
  /\ UNCHANGED <<array, buf, spans, pr, entry, has, val, reach>>

\* A dense array is read where it is asked, in any order.
BitsetAt ==
  /\ stage = "parse" /\ array.kind = "dense"
  /\ \E p \in Low(array.domain) :
       /\ has' = has \cup {p}
       /\ val' = [q \in has' |-> IF q = p THEN BitsAt(APData, p, APWidth) ELSE val[q]]
       /\ reach' = Max({reach, LastByte(APData, p, APWidth)})
  /\ UNCHANGED <<array, buf, spans, pr, stage, entry>>

ArrayNext == Put \/ ParsePresence \/ PresentInt \/ PresentBytes \/ EndFill \/ BitsetAt

ArraySpec == ArrayInit /\ [][ArrayNext]_arrayVars

-----------------------------------------------------------------------------
\* What a reader has found: a number, or the bytes under a span.
Found(p) ==
  IF array.kind = "bytes" THEN [k \in 1 .. val[p].size |-> ByteAt(val[p].at + k - 1)]
  ELSE val[p]

\* Exactly what was written is read back: each position with a value gets its
\* own, as soon as the reader says it has it, and at the end none is missing,
\* whatever the widths are (a width of 0 has no packed bytes at all) and
\* wherever the varint and the packed lists end inside the blobs.
RoundTrip ==
  /\ has \subseteq Range(array.positions)
  /\ \A k \in DOMAIN array.positions :
       array.positions[k] \in has => Found(array.positions[k]) = array.values[k]
  /\ stage = "done" => has = Range(array.positions)

\* No read leaves the file, although every window may reach past its blob
\* (footer_formats.h:308): the trailer alone is long enough.
ReadsInside == reach <= Len(buf)
=============================================================================

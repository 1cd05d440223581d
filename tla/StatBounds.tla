----------------------------- MODULE StatBounds -----------------------------
(***************************************************************************)
(* The min/max bounds of one statistics entry, from the Statistics struct  *)
(* of a Parquet footer to the three byte strings a modular footer stores:  *)
(* a common prefix and two suffixes, optionally cut to a byte limit.       *)
(*                                                                         *)
(* A byte string is a sequence over 0 .. Top (0xFF in the code).  A        *)
(* Statistics struct is a record in which a field that is not written is   *)
(* NoField.                                                                *)
(***************************************************************************)
EXTENDS Integers, Sequences

CONSTANTS
  Top,      (* the largest byte                    *)
  NoField   (* stands for a field that is not there *)

ASSUME TopAssumption == Top \in Nat
ASSUME NoFieldAssumption == NoField \notin Seq(0 .. Top)

Byte == 0 .. Top
Bytes == Seq(Byte)

Statistics ==
  [max : Bytes \cup {NoField}, min : Bytes \cup {NoField},
   max_value : Bytes \cup {NoField}, min_value : Bytes \cup {NoField},
   null_count : Nat \cup {NoField},
   is_max_value_exact : BOOLEAN \cup {NoField},
   is_min_value_exact : BOOLEAN \cup {NoField}]

-----------------------------------------------------------------------------
(* Selecting the bounds.                                                   *)

Either(current, deprecated) == IF current # NoField THEN current ELSE deprecated

MinOf(st) == Either(st.min_value, st.min)
MaxOf(st) == Either(st.max_value, st.max)
HasMinMax(st) == MinOf(st) # NoField /\ MaxOf(st) # NoField
HasNull(st) == st.null_count # NoField

\* A flag that is not written reads as exact.
MinExact(st) == st.is_min_value_exact # FALSE
MaxExact(st) == st.is_max_value_exact # FALSE

-----------------------------------------------------------------------------
(* Splitting and cutting.                                                  *)

\* The length of the longest common prefix.
CommonPrefix(a, b) ==
  CHOOSE n \in 0 .. Len(a) :
    /\ n <= Len(b)
    /\ \A i \in 1 .. n : a[i] = b[i]
    /\ n < Len(a) /\ n < Len(b) => a[n + 1] # b[n + 1]

Prefix(p, n) == SubSeq(p, 1, n)

\* Mutant of Suffix: one byte too few.
SuffixShort(p, n) == SubSeq(p, n + 2, Len(p))

Suffix(p, n) == SubSeq(p, n + 1, Len(p))

\* Position i is the last byte that can be incremented.
LastBelowTop(p, i) ==
  i \in DOMAIN p /\ p[i] # Top /\ \A j \in i + 1 .. Len(p) : p[j] = Top

\* Increment the last byte below Top and drop the rest; empty when there is none.
RoundUp(p) ==
  IF \A i \in DOMAIN p : p[i] = Top
  THEN << >>
  ELSE LET i == CHOOSE k \in DOMAIN p : LastBelowTop(p, k)
       IN Append(Prefix(p, i - 1), p[i] + 1)

\* The two halves of TruncateSuffix: the suffix and the exactness that goes with
\* it.  limit <= 0 disables the cut.

\* Mutant of TruncateMin: the cut is not recorded.
TruncateMinQuietly(suffix, exact, limit) ==
  [suffix |-> IF limit > 0 /\ Len(suffix) > limit THEN Prefix(suffix, limit) ELSE suffix,
   exact |-> exact]

TruncateMin(suffix, exact, limit) ==
  IF limit > 0 /\ Len(suffix) > limit
  THEN [suffix |-> Prefix(suffix, limit), exact |-> FALSE]
  ELSE [suffix |-> suffix, exact |-> exact]

\* Mutant of TruncateMax: cut like the minimum, without rounding up.
TruncateMaxDown(suffix, exact, limit) == TruncateMin(suffix, exact, limit)

TruncateMax(suffix, exact, limit) ==
  LET up == RoundUp(Prefix(suffix, limit))
  IN IF limit > 0 /\ Len(suffix) > limit /\ up # << >>
     THEN [suffix |-> up, exact |-> FALSE]
     ELSE [suffix |-> suffix, exact |-> exact]

-----------------------------------------------------------------------------
(* The order in which a cut is meant to preserve bounds: bytes compare      *)
(* unsigned, and a proper prefix comes first.                               *)

LexLess(a, b) ==
  \E n \in 0 .. Len(a) :
    /\ n < Len(b)
    /\ \A i \in 1 .. n : a[i] = b[i]
    /\ n < Len(a) => a[n + 1] < b[n + 1]

LexLeq(a, b) == a = b \/ LexLess(a, b)
=============================================================================

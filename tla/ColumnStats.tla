----------------------------- MODULE ColumnStats -----------------------------
(***************************************************************************)
(* Row-group statistics of a modular footer, from the converter that packs *)
(* them one leaf column at a time to the reader that unpacks a projection. *)
(*                                                                         *)
(* BuildColumnStatistics visits the row groups of a column and collects    *)
(* null counts and split, possibly cut bounds; the descriptors are laid    *)
(* out one after the other, nothing for a column without statistics, with  *)
(* a directory of C + 1 offsets.  The reader decodes the descriptor of     *)
(* each projected column into buffers it reuses from column to column and  *)
(* from call to call, then emits one Loc per row group.                    *)
(*                                                                         *)
(* An EncodedArray with a presence list is a function from the positions   *)
(* present to their values.  The payload is a sequence of fields, so that  *)
(* an offset counts fields.                                                *)
(***************************************************************************)
EXTENDS StatBounds

CONSTANTS
  C,           (* leaf columns                                      *)
  G,           (* row groups                                        *)
  Files,       (* footers: the Statistics of each column, row group *)
  Limits,      (* values of --truncate-minmax, 0 when not given     *)
  Projections  (* sets of columns a caller may ask for              *)

Columns == 0 .. C - 1
RowGroups == 0 .. G - 1

ASSUME GridAssumption == C \in Nat /\ G \in Nat \ {0}
ASSUME FilesAssumption == Files \subseteq [Columns -> [RowGroups -> Statistics]]
ASSUME LimitsAssumption == Limits \subseteq Int
ASSUME ProjectionsAssumption == Projections \subseteq SUBSET Columns

VARIABLES
  phase,      (* "build", "lay_out", "idle", "column", "fields" or "emit"    *)
  file,       (* the footer being converted                                  *)
  limit,      (* the truncation limit                                        *)
  col, rg,    (* loop indices of the converter                               *)
  draft,      (* field id -> sparse array, of the column being built         *)
  col_desc,   (* the descriptors built so far                                *)
  payload,    (* descriptors laid out so far                                 *)
  col_off,    (* column_offsets                                              *)
  want,       (* the projection being resolved                               *)
  at,         (* the column the reader is at                                 *)
  pos,        (* the reader's position in the payload                        *)
  buf,        (* field id -> the buffer for it: flags raised, values         *)
  has_mm,     (* row groups the last decoded descriptor has a min and max of *)
  out         (* the answer so far, Loc by Loc                               *)

fileVars == <<file, limit>>
writeVars == <<col, rg, draft, col_desc, payload, col_off>>
readVars == <<want, at, pos, buf, has_mm, out>>
vars == <<phase, fileVars, writeVars, readVars>>

Stat(k, r) == file[k][r]

-----------------------------------------------------------------------------
(* The converter.                                                          *)

NullCounts == 1
Prefixes == 2
MinSuffixes == 3
MaxSuffixes == 4
MinIsExact == 5
MaxIsExact == 6
Stop == [id |-> 0, array |-> << >>]

NoArrays == [id \in NullCounts .. MaxIsExact |-> << >>]

Put(array, p, v) == [q \in DOMAIN array \cup {p} |-> IF q = p THEN v ELSE array[q]]

Shared(st) == CommonPrefix(MinOf(st), MaxOf(st))
StoredMin(st) == TruncateMin(Suffix(MinOf(st), Shared(st)), MinExact(st), limit)
StoredMax(st) == TruncateMax(Suffix(MaxOf(st), Shared(st)), MaxExact(st), limit)

\* The entry statistics st adds to array id, when they add one.
Adds(st, id) == IF id = NullCounts THEN HasNull(st) ELSE HasMinMax(st)
Entry(st, id) ==
  CASE id = NullCounts -> st.null_count
    [] id = Prefixes -> Prefix(MinOf(st), Shared(st))
    [] id = MinSuffixes -> StoredMin(st).suffix
    [] id = MaxSuffixes -> StoredMax(st).suffix
    [] id = MinIsExact -> StoredMin(st).exact
    [] id = MaxIsExact -> StoredMax(st).exact

\* One round of the loop over row groups.
AddRowGroup ==
  /\ phase = "build"
  /\ col < C
  /\ rg < G
  /\ draft' = [id \in DOMAIN draft |->
                 IF Adds(Stat(col, rg), id)
                 THEN Put(draft[id], rg, Entry(Stat(col, rg), id))
                 ELSE draft[id]]
  /\ rg' = rg + 1
  /\ UNCHANGED <<phase, fileVars, col, col_desc, payload, col_off, readVars>>

Fields(ids) == [k \in 1 .. Len(ids) |-> [id |-> ids[k], array |-> draft[ids[k]]]]

\* No bytes at all for a column without statistics; the exactness arrays only
\* when some bound is inexact.
Descriptor ==
  LET nulls == DOMAIN draft[NullCounts] # {}
      bounds == DOMAIN draft[Prefixes] # {}
      inexact == \E p \in DOMAIN draft[MinIsExact] :
                   ~draft[MinIsExact][p] \/ ~draft[MaxIsExact][p]
  IN IF ~nulls /\ ~bounds
     THEN << >>
     ELSE Fields((IF nulls THEN <<NullCounts>> ELSE << >>)
                 \o (IF bounds THEN <<Prefixes, MinSuffixes, MaxSuffixes>> ELSE << >>)
                 \o (IF inexact THEN <<MinIsExact, MaxIsExact>> ELSE << >>))
          \o <<Stop>>

\* Mutant of EndColumn: the next column starts with the arrays of this one.
EndColumnKeepsDraft ==
  /\ phase = "build"
  /\ col < C
  /\ rg = G
  /\ col_desc' = Append(col_desc, Descriptor)
  /\ col' = col + 1
  /\ rg' = 0
  /\ UNCHANGED <<phase, fileVars, draft, payload, col_off, readVars>>

EndColumn ==
  /\ phase = "build"
  /\ col < C
  /\ rg = G
  /\ col_desc' = Append(col_desc, Descriptor)
  /\ draft' = NoArrays
  /\ col' = col + 1
  /\ rg' = 0
  /\ UNCHANGED <<phase, fileVars, payload, col_off, readVars>>

\* have_stats: no statistics module when every descriptor is empty.
HaveStats == \E k \in DOMAIN col_desc : col_desc[k] # << >>

EndBuild ==
  /\ phase = "build"
  /\ col = C
  /\ phase' = IF HaveStats THEN "lay_out" ELSE "idle"
  /\ col' = 0
  /\ UNCHANGED <<fileVars, rg, draft, col_desc, payload, col_off, readVars>>

LayOutColumn ==
  /\ phase = "lay_out"
  /\ col < C
  /\ col_off' = Append(col_off, Len(payload))
  /\ payload' = payload \o col_desc[col + 1]
  /\ col' = col + 1
  /\ UNCHANGED <<phase, fileVars, rg, draft, col_desc, readVars>>

EndLayOut ==
  /\ phase = "lay_out"
  /\ col = C
  /\ col_off' = Append(col_off, Len(payload))
  /\ phase' = "idle"
  /\ UNCHANGED <<fileVars, col, rg, draft, col_desc, payload, readVars>>

-----------------------------------------------------------------------------
(* The reader.                                                             *)

\* The fields the reader has a buffer for; it skips the others.
Decoded == NullCounts .. MaxSuffixes

Blank == [id \in Decoded |->
            [has |-> {}, val |-> [r \in RowGroups |-> IF id = NullCounts THEN 0 ELSE << >>]]]

Ask(w) ==
  /\ phase = "idle"
  /\ phase' = "column"
  /\ want' = w
  /\ at' = 0
  /\ out' = << >>
  /\ UNCHANGED <<fileVars, writeVars, pos, buf, has_mm>>

SkipColumn ==
  /\ phase = "column"
  /\ at < C
  /\ at \notin want
  /\ at' = at + 1
  /\ UNCHANGED <<phase, fileVars, writeVars, want, pos, buf, has_mm, out>>

\* Mutant of StartColumn: the flags of the last column stay up.
StartColumnFlagsUp ==
  /\ phase = "column"
  /\ at < C
  /\ at \in want
  /\ IF HaveStats
     THEN /\ pos' = col_off[at + 1]
          /\ phase' = IF col_off[at + 2] - col_off[at + 1] > 0 THEN "fields" ELSE "emit"
     ELSE /\ phase' = "emit"
          /\ UNCHANGED pos
  /\ UNCHANGED <<fileVars, writeVars, want, at, buf, has_mm, out>>

\* The column's descriptor is found; all flags are lowered, no value is.
StartColumn ==
  /\ phase = "column"
  /\ at < C
  /\ at \in want
  /\ IF HaveStats
     THEN /\ buf' = [id \in Decoded |-> [has |-> {}, val |-> buf[id].val]]
          /\ has_mm' = {}
          /\ pos' = col_off[at + 1]
          /\ phase' = IF col_off[at + 2] - col_off[at + 1] > 0 THEN "fields" ELSE "emit"
     ELSE /\ phase' = "emit"
          /\ UNCHANGED <<buf, has_mm, pos>>
  /\ UNCHANGED <<fileVars, writeVars, want, at, out>>

Field == payload[pos + 1]

\* PresentInt, PresentBytes: raise the flags of the positions present and store
\* their values.
Fill(b, array) ==
  LET present == DOMAIN array \cap RowGroups
  IN [has |-> b.has \cup present,
      val |-> [r \in RowGroups |-> IF r \in present THEN array[r] ELSE b.val[r]]]

ReadField ==
  /\ phase = "fields"
  /\ Field.id # 0
  /\ buf' = IF Field.id \in Decoded
            THEN [buf EXCEPT ![Field.id] = Fill(@, Field.array)]
            ELSE buf
  /\ pos' = pos + 1
  /\ UNCHANGED <<phase, fileVars, writeVars, want, at, has_mm, out>>

EndFields ==
  /\ phase = "fields"
  /\ Field.id = 0
  /\ has_mm' = buf[Prefixes].has \cap buf[MinSuffixes].has \cap buf[MaxSuffixes].has
  /\ phase' = "emit"
  /\ UNCHANGED <<fileVars, writeVars, want, at, pos, buf, out>>

\* What the reader reports of row group r of the column it is at.
NoBounds == [prefix |-> << >>, min |-> << >>, max |-> << >>]
Loc(r) ==
  [col |-> at, rg |-> r,
   has_null |-> HaveStats /\ r \in buf[NullCounts].has,
   null_count |-> IF HaveStats THEN buf[NullCounts].val[r] ELSE 0,
   has_mm |-> HaveStats /\ r \in has_mm,
   bounds |-> IF HaveStats /\ r \in has_mm
              THEN [prefix |-> buf[Prefixes].val[r],
                    min |-> buf[MinSuffixes].val[r],
                    max |-> buf[MaxSuffixes].val[r]]
              ELSE NoBounds]

EmitColumn ==
  /\ phase = "emit"
  /\ out' = out \o [k \in 1 .. G |-> Loc(k - 1)]
  /\ at' = at + 1
  /\ phase' = "column"
  /\ UNCHANGED <<fileVars, writeVars, want, pos, buf, has_mm>>

EndResolve ==
  /\ phase = "column"
  /\ at = C
  /\ phase' = "idle"
  /\ UNCHANGED <<fileVars, writeVars, readVars>>

-----------------------------------------------------------------------------
Init ==
  /\ phase = "build"
  /\ file \in Files
  /\ limit \in Limits
  /\ col = 0 /\ rg = 0
  /\ draft = NoArrays
  /\ col_desc = << >> /\ payload = << >> /\ col_off = << >>
  /\ want = {} /\ at = 0 /\ pos = 0
  /\ buf = Blank
  /\ has_mm = {}
  /\ out = << >>

Convert == AddRowGroup \/ EndColumn \/ EndBuild \/ LayOutColumn \/ EndLayOut
Resolve == SkipColumn \/ StartColumn \/ ReadField \/ EndFields \/ EmitColumn \/ EndResolve

Next == Convert \/ Resolve \/ \E w \in Projections : Ask(w)

\* Conversion and lookup are loops of one thread; only the caller may stop.
Spec == Init /\ [][Next]_vars /\ WF_vars(Convert) /\ WF_vars(Resolve)

-----------------------------------------------------------------------------
(* Properties.                                                             *)

FieldIds == NullCounts .. MaxIsExact
IsSeq(s) == Len(s) \in Nat /\ s = [i \in 1 .. Len(s) |-> s[i]]

\* Type invariant: an index is at most one past its range, flags are of row
\* groups and answers of chunks there are.
StatsTypeOK ==
  /\ phase \in {"build", "lay_out", "idle", "column", "fields", "emit"}
  /\ file \in [Columns -> [RowGroups -> Statistics]] /\ limit \in Limits
  /\ col \in 0 .. C /\ rg \in 0 .. G
  /\ DOMAIN draft = FieldIds
  /\ IsSeq(col_desc) /\ \A k \in DOMAIN col_desc : IsSeq(col_desc[k])
  /\ IsSeq(payload)
  /\ col_off \in Seq(Nat)
  /\ want \subseteq Columns /\ at \in 0 .. C /\ pos \in Nat
  /\ DOMAIN buf = Decoded
  /\ \A id \in Decoded : buf[id].has \subseteq RowGroups
  /\ has_mm \subseteq RowGroups
  /\ IsSeq(out) /\ \A n \in DOMAIN out : out[n].col \in Columns /\ out[n].rg \in RowGroups

Min(l) == l.bounds.prefix \o l.bounds.min
Max(l) == l.bounds.prefix \o l.bounds.max

\* A Loc reports a null count or a min and max exactly when its own column and
\* row group have them, with the right count, whatever earlier columns and
\* earlier calls left in the buffers (footer_formats.h:454-471).
NothingStale ==
  \A k \in DOMAIN out :
    LET l == out[k]
        st == Stat(l.col, l.rg)
    IN /\ l.has_null <=> HasNull(st)
       /\ l.has_null => l.null_count = st.null_count
       /\ l.has_mm <=> HasMinMax(st)

\* Every reported bound holds for the values the source bound held for: the
\* minimum is not above, the maximum not below the source's, in byte order
\* (the comment of TruncateSuffix, parquet_to_modular.cc:495-499).
BoundsHold ==
  \A k \in DOMAIN out :
    out[k].has_mm =>
      LET st == Stat(out[k].col, out[k].rg)
      IN /\ LexLeq(Min(out[k]), MinOf(st))
         /\ LexLeq(MaxOf(st), Max(out[k]))

\* A bound is stored as exact only if it is the source's bound and the source
\* called it exact; a descriptor without exactness arrays calls all its bounds
\* exact (parquet_to_modular.cc:537-544).
Says(desc, id, r) ==
  \A k \in DOMAIN desc : desc[k].id = id => desc[k].array[r]
Given(desc, id, r) == \E k \in DOMAIN desc : desc[k].id = id /\ r \in DOMAIN desc[k].array
ExactMeansEqual ==
  \A n \in DOMAIN col_desc : \A r \in RowGroups :
    LET d == col_desc[n]
        st == Stat(n - 1, r)
        Array(id) == d[CHOOSE k \in DOMAIN d : d[k].id = id].array
    IN Given(d, Prefixes, r) =>
         /\ Says(d, MinIsExact, r) =>
              MinExact(st) /\ Array(Prefixes)[r] \o Array(MinSuffixes)[r] = MinOf(st)
         /\ Says(d, MaxIsExact, r) =>
              MaxExact(st) /\ Array(Prefixes)[r] \o Array(MaxSuffixes)[r] = MaxOf(st)

\* The answer of the walk over the nested footer for the same chunk.
\* "every resolver must agree with the walk on placement + stats"
\* (footer_decode_bench.cc:134)
AgreesWithWalk ==
  \A k \in DOMAIN out :
    LET st == Stat(out[k].col, out[k].rg)
    IN /\ out[k].has_null <=> HasNull(st)
       /\ out[k].has_null => out[k].null_count = st.null_count
       /\ out[k].has_mm <=> HasMinMax(st)
       /\ out[k].has_mm => Min(out[k]) = MinOf(st) /\ Max(out[k]) = MaxOf(st)

\* Without truncation the modular footer loses nothing.
UncutAgrees == limit <= 0 => AgreesWithWalk

-----------------------------------------------------------------------------
(* The inductive invariant behind the other properties.                  *)

\* The row groups before n of column k that have an entry in array id.
Entered(k, n, id) == {r \in 0 .. n - 1 : Adds(Stat(k, r), id)}
IsArray(a, k, n, id) ==
  DOMAIN a = Entered(k, n, id) /\ \A r \in DOMAIN a : a[r] = Entry(Stat(k, r), id)

DraftInv ==
  phase = "build" =>
    \A k \in Columns : col = k => \A id \in FieldIds : IsArray(draft[id], k, rg, id)

\* d is a right descriptor of column k: terminated, every field complete, and a
\* field for every decoded array that has an entry; an exactness array is missing
\* only where all of it would be true.
Describes(d, k) ==
  /\ d # << >> => d[Len(d)].id = 0
  /\ \A i \in 1 .. Len(d) - 1 :
       d[i].id \in FieldIds /\ IsArray(d[i].array, k, G, d[i].id)
  /\ \A id \in Decoded :
       Entered(k, G, id) # {} => \E i \in 1 .. Len(d) - 1 : d[i].id = id
  /\ \A id \in {MinIsExact, MaxIsExact} :
       (\A i \in 1 .. Len(d) - 1 : d[i].id # id)
         => \A r \in Entered(k, G, id) : Entry(Stat(k, r), id)

DescInv ==
  /\ Len(col_desc) = IF phase = "build" THEN col ELSE C
  /\ \A k \in Columns : k < Len(col_desc) => Describes(col_desc[k + 1], k)

\* Each laid-out descriptor stands in the payload where its offsets say.
LayoutInv ==
  /\ phase = "build" => col_off = << >> /\ payload = << >>
  /\ phase = "lay_out" => Len(col_off) = col /\ HaveStats
  /\ phase \notin {"build", "lay_out"} /\ HaveStats => Len(col_off) = C + 1
  /\ \A k \in Columns :
       k < Len(col_off) =>
         /\ col_off[k + 1] + Len(col_desc[k + 1]) =
              IF k + 1 < Len(col_off) THEN col_off[k + 2] ELSE Len(payload)
         /\ col_off[k + 1] + Len(col_desc[k + 1]) <= Len(payload)
         /\ \A i \in 1 .. Len(col_desc[k + 1]) :
              payload[col_off[k + 1] + i] = col_desc[k + 1][i]

\* Every raised flag of buffer id belongs to column k and guards its value.
Guarded(id, k) ==
  /\ buf[id].has \subseteq Entered(k, G, id)
  /\ \A r \in buf[id].has : buf[id].val[r] = Entry(Stat(k, r), id)

BufferInv ==
  /\ phase \in {"fields", "emit"} => at < C
  /\ phase = "fields" =>
       /\ HaveStats
       /\ \A k \in Columns : at = k =>
            \E n \in 0 .. Len(col_desc[k + 1]) - 1 :
              /\ pos = col_off[k + 1] + n
              /\ \A id \in Decoded :
                   /\ Guarded(id, k)
                   /\ (\E i \in 1 .. n : col_desc[k + 1][i].id = id)
                        => Entered(k, G, id) \subseteq buf[id].has
  /\ phase = "emit" /\ HaveStats =>
       \A k \in Columns : at = k =>
         /\ \A id \in Decoded : Guarded(id, k) /\ Entered(k, G, id) \subseteq buf[id].has
         /\ has_mm = Entered(k, G, Prefixes)

RightLoc(l) ==
  \A k \in Columns, r \in RowGroups : l.col = k /\ l.rg = r =>
    LET st == Stat(k, r)
    IN /\ l.has_null <=> HasNull(st)
       /\ l.has_null => l.null_count = st.null_count
       /\ l.has_mm <=> HasMinMax(st)
       /\ l.has_mm => l.bounds = [prefix |-> Entry(st, Prefixes),
                                  min |-> Entry(st, MinSuffixes),
                                  max |-> Entry(st, MaxSuffixes)]

OutInv == \A n \in 1 .. Len(out) : RightLoc(out[n])

StatsInv == StatsTypeOK /\ DraftInv /\ DescInv /\ LayoutInv /\ BufferInv /\ OutInv
=============================================================================

------------------------------ MODULE JumpTable ------------------------------
(***************************************************************************)
(* parquet_to_jumptable.cc and the readers of its output.  The converter   *)
(* walks a Parquet footer, puts a pointer field in front of it, rewrites   *)
(* the first field's header so that every later delta still holds, moves   *)
(* the rest verbatim and appends an index of offsets into the moved        *)
(* footer.  A reader that knows the index seeks; one that does not walks   *)
(* the same fields as before.                                              *)
(*                                                                         *)
(* A footer is a sequence of tokens (ThriftCursor); offsets are written in *)
(* whole bytes of ByteBits bits.  The name hash table and the field-id     *)
(* mapping of the index are not part of this module.                       *)
(***************************************************************************)
EXTENDS ThriftCursor

CONSTANTS Inputs,   \* files: full (starts with PAR1), prefix, footer
          ByteBits, \* bits of a byte (8)
          MaxRuns   \* conversions of the same file, one after the other

\* Field ids.
FMD_SCHEMA == 2
FMD_ROW_GROUPS == 4
FMD_POINTER == 10
RG_COLUMNS == 1
CC_META_DATA == 3
CM_TOTAL_COMPRESSED == 7
CM_DATA_PAGE_OFFSET == 9

\* A footer is parsed when no cursor runs behind its end.  Of parquet.thrift's
\* types the converter relies on one thing: the lists it walks are of structs.
Parsed(s) == Skip(s, 0, "struct") <= Len(s)
ListsOfStructs(s) ==
  \A f \in Range(Fields(s, 0)) : f.type = "list" /\ f.id \in {FMD_SCHEMA, FMD_ROW_GROUPS} =>
    /\ ElemAt(s, f.value) = "struct"
    /\ f.id = FMD_ROW_GROUPS =>
         \A g \in Range(Items(s, f.value)) :
           \A c \in Range(Those(Fields(s, g), RG_COLUMNS, "list")) : ElemAt(s, c.value) = "struct"

\* The length of a footer is given in four bytes.
ASSUME JumpAssumption ==
  /\ ByteBits \in Nat \ {0} /\ MaxRuns \in Nat
  /\ \A f \in Inputs :
       /\ f = [full |-> f.full, prefix |-> f.prefix, footer |-> f.footer] /\ f.full \in BOOLEAN
       /\ IsBlob(f.prefix) /\ IsBlob(f.footer) /\ f.footer # <<>> /\ Last(f.footer) = Stop
       /\ Len(f.footer) < 2 ^ (ByteBits * 4)
       /\ Parsed(f.footer) => ListsOfStructs(f.footer)

VARIABLES file,    \* the file that is converted and read
          run,     \* conversions so far
          phase,   \* "walk", "write", "open", "read", "failed", "refused"
          k,       \* top-level fields walked
          w,       \* the Walk: what was found on the way
          fi,      \* ReadFooterIndex's answer
          want,    \* the projection being resolved
          at,      \* the next chunk to seek: column and row group
          out      \* the resolver's answer so far

vars == <<file, run, phase, k, w, fi, want, at, out>>
Footer == file.footer

-----------------------------------------------------------------------------
\* Whole-byte packing.

ByteWidth(max) ==
  CHOOSE n \in 1 .. 8 : /\ n = 8 \/ max < 2 ^ (ByteBits * n)
                        /\ \A m \in 1 .. n - 1 : ~(max < 2 ^ (ByteBits * m))
Greatest(vals) == CHOOSE v \in {0} \cup ToSet(vals) : \A x \in ToSet(vals) : x <= v
ByteOf(val, b) == (val \div 2 ^ (ByteBits * b)) % 2 ^ ByteBits
PackBytes(vals) ==
  LET bw == ByteWidth(Greatest(vals)) IN
  FlattenSeq([j \in 1 .. Len(vals) |-> [b \in 1 .. bw |-> ByteOf(vals[j], b - 1)]])
Unpacked(bytes, bw, j) ==
  SumFunction([b \in {b \in 0 .. bw - 1 : bw * j + b < Len(bytes)} |->
                 bytes[bw * j + b + 1] * 2 ^ (ByteBits * b)])

-----------------------------------------------------------------------------
\* WalkFooter.

NoWalk == [row_groups |-> 0, columns |-> 0, chunk_offsets |-> <<>>,
           schema |-> <<>>, top_fields |-> <<>>, already_indexed |-> FALSE]
NoIndex == [columns |-> 0, row_groups |-> 0, bpe |-> 0, cco |-> <<>>, fmd_length |-> 0]

Init ==
  /\ file \in Inputs /\ run = 0 /\ phase = "walk" /\ k = 0 /\ w = NoWalk
  /\ fi = NoIndex /\ want = {} /\ at = <<0, 0>> /\ out = <<>>

ColumnLists(group) == Those(Fields(Footer, group), RG_COLUMNS, "list")
ChunksOnly(group) ==
  FlattenSeq([j \in DOMAIN ColumnLists(group) |-> Items(Footer, ColumnLists(group)[j].value)])
\* Every chunk's start and the row group's end.
ChunkOffsets(group) ==
  FlattenSeq([j \in DOMAIN ColumnLists(group) |-> Starts(Footer, ColumnLists(group)[j].value)])

Walked(f) ==
  LET groups == Items(Footer, f.value)
      first == ColumnLists(groups[1])
      walk == [w EXCEPT !.top_fields = Append(@, <<f.id, f.at>>)] IN
  CASE f.id = FMD_POINTER -> [walk EXCEPT !.already_indexed = TRUE]
    [] f.id = FMD_SCHEMA /\ f.type = "list" ->
         [walk EXCEPT !.schema = @ \o Items(Footer, f.value)]
    [] f.id = FMD_ROW_GROUPS /\ f.type = "list" ->
         [walk EXCEPT
            !.row_groups = Len(groups),
            !.columns = IF groups = <<>> \/ first = <<>> THEN @ ELSE SizeAt(Footer, Last(first).value),
            !.chunk_offsets = @ \o FlattenSeq([g \in DOMAIN groups |-> ChunkOffsets(groups[g])])]
    [] OTHER -> walk

WalkField ==
  /\ phase = "walk" /\ k < Len(Fields(Footer, 0))
  /\ w' = Walked(Fields(Footer, 0)[k + 1]) /\ k' = k + 1
  /\ UNCHANGED <<file, run, phase, fi, want, at, out>>

RefusedIfIndexed == ~Parsed(Footer) \/ w.already_indexed \/ w.schema = <<>>
Refused == ~Parsed(Footer) \/ w.already_indexed \/ w.row_groups = 0 \/ w.schema = <<>>

EndWalk ==
  /\ phase = "walk" /\ k = Len(Fields(Footer, 0))
  /\ phase' = IF Refused THEN "refused" ELSE "write"
  /\ UNCHANGED <<file, run, k, w, fi, want, at, out>>

-----------------------------------------------------------------------------
\* The new footer.

\* The original first field: its id and the length of its header.
Id0 == NextField(Footer, 0, 0).id
OldHdrLen == NextField(Footer, 0, 0).value
OldHdr == SubSeq(Footer, 1, OldHdrLen)
NewHdr == Long(Id0, At(Footer, 0).b)

PointerLen == 2
Shift == PointerLen + Len(NewHdr) - OldHdrLen
FmdLength == Len(Footer) + Shift

FieldOffsetsAllShifted ==
  <<<<FMD_POINTER, 0>>>> \o [j \in DOMAIN w.top_fields |->
    <<w.top_fields[j][1], w.top_fields[j][2] + Shift>>]
FieldOffsets ==
  <<<<FMD_POINTER, 0>>>> \o [j \in DOMAIN w.top_fields |->
    <<w.top_fields[j][1],
      IF w.top_fields[j][2] = 0 THEN PointerLen ELSE w.top_fields[j][2] + Shift>>]

Shifted(offsets) == [j \in DOMAIN offsets |-> offsets[j] + Shift]
SchemaLayout ==
  <<Short(1, "int"), Num(Len(w.schema)), Short(1, "bin"), Bin(PackBytes(Shifted(w.schema))), Stop>>
IndexBlob ==
  <<Short(1, "int"), Num(w.columns), Short(1, "int"), Num(w.row_groups),
    Short(1, "bin"), Bin(PackBytes(Shifted(w.chunk_offsets))),
    Short(1, "map"), Token("map", FieldOffsets, 0),
    Short(1, "struct")>> \o SchemaLayout \o <<Stop>>

IndexStartInFooter == FmdLength
IndexStart == (IF file.full THEN Len(file.prefix) ELSE 0) + FmdLength
Pointer ==
  <<Short(FMD_POINTER, "bin"),
    Bin([version |-> 1, index_start |-> IndexStart, index_length |-> Len(IndexBlob),
         fmd_length |-> FmdLength])>>
NewFooter ==
  Pointer \o NewHdr \o SubSeq(Footer, OldHdrLen + 1, Len(Footer)) \o IndexBlob

Write ==
  /\ phase = "write" /\ phase' = "open" /\ run' = run + 1
  /\ file' = [file EXCEPT !.footer = NewFooter, !.prefix = IF file.full THEN @ ELSE <<>>]
  /\ UNCHANGED <<k, w, fi, want, at, out>>

\* The output is given to the converter again.
ConvertAgain ==
  /\ phase = "read" /\ run < MaxRuns /\ phase' = "walk" /\ k' = 0 /\ w' = NoWalk
  /\ UNCHANGED <<file, run, fi, want, at, out>>

-----------------------------------------------------------------------------
\* The readers.

\* ReadFooterIndex: the pointer's file_meta_data_length, then the blob there.
Num1(fields, id) ==
  LET those == Those(fields, id, "int") IN IF those = <<>> THEN 0 ELSE At(Footer, Last(those).value).a
Bytes1(fields, id) ==
  LET those == Those(fields, id, "bin") IN IF those = <<>> THEN <<>> ELSE At(Footer, Last(those).value).a
BlobAt(o) == Fields(SubSeq(Footer, o + 1, Len(Footer)), 0)
InBlob(o, f) == [f EXCEPT !.value = @ + o]

ReadFooterIndex ==
  /\ phase = "open"
  /\ LET pointers == Those(Fields(Footer, 0), FMD_POINTER, "bin")
         length == IF pointers = <<>> THEN 0 ELSE At(Footer, Head(pointers).value).a.fmd_length
         index == [j \in DOMAIN BlobAt(length) |-> InBlob(length, BlobAt(length)[j])]
         columns == Num1(index, 1)
         row_groups == Num1(index, 2)
         cco == Bytes1(index, 3) IN
     IF length = 0 \/ cco = <<>> \/ columns = 0 \/ row_groups = 0
     THEN phase' = "failed" /\ fi' = fi
     ELSE /\ phase' = "read"
          /\ fi' = [columns |-> columns, row_groups |-> row_groups, cco |-> cco, fmd_length |-> length,
                    bpe |-> Len(cco) \div (row_groups * (columns + 1))]
  /\ UNCHANGED <<file, run, k, w, want, at, out>>

\* ReadColumnInfo, for the two numbers of a Loc.
LastNum(s, fields, id) ==
  LET those == WithId(fields, id) IN
  IF those = <<>> THEN 0 ELSE At(s, Last(those).value).a
ReadColumnInfo(s, o) ==
  LET meta == Those(Fields(s, o), CC_META_DATA, "struct")
      fields == FlattenSeq([j \in DOMAIN meta |-> Fields(s, meta[j].value)]) IN
  [off |-> LastNum(s, fields, CM_DATA_PAGE_OFFSET), size |-> LastNum(s, fields, CM_TOTAL_COMPRESSED)]

\* WalkResolver's grid over a footer: chunk c of row group g.
WalkGrid(s) ==
  LET groups == Items(s, Last(Those(Fields(s, 0), FMD_ROW_GROUPS, "list")).value) IN
  [g \in DOMAIN groups |->
     LET chunks == FlattenSeq([j \in DOMAIN Those(Fields(s, groups[g]), RG_COLUMNS, "list") |->
                     Items(s, Those(Fields(s, groups[g]), RG_COLUMNS, "list")[j].value)]) IN
     [c \in DOMAIN chunks |-> ReadColumnInfo(s, chunks[c])]]

\* StandardResolver's: every value materialized, fields looked up by id, the
\* first of an id taken.
FirstOf(fields, id) == Head(WithId(fields, id))
StandardGrid(s) ==
  LET groups == Items(s, FirstOf(Fields(s, 0), FMD_ROW_GROUPS).value) IN
  [g \in DOMAIN groups |->
     LET chunks == Items(s, FirstOf(Fields(s, groups[g]), RG_COLUMNS).value) IN
     [c \in DOMAIN chunks |->
        LET meta == Fields(s, FirstOf(Fields(s, chunks[c]), CC_META_DATA).value)
            number(id) == At(s, FirstOf(meta, id).value).a IN
        [off |-> number(CM_DATA_PAGE_OFFSET), size |-> number(CM_TOTAL_COMPRESSED)]]]

\* What the resolvers take for granted: a field is once in its struct, every row
\* group has as many chunks as the first, every chunk its two numbers.
Once(fields, id, type) ==
  \E l \in DOMAIN fields :
    fields[l].type = type /\ \A j \in DOMAIN fields : fields[j].id = id <=> j = l
Chunks(s, group) == Items(s, FirstOf(Fields(s, group), RG_COLUMNS).value)
RegularChunk(s, chunk) ==
  /\ Once(Fields(s, chunk), CC_META_DATA, "struct")
  /\ LET meta == Fields(s, FirstOf(Fields(s, chunk), CC_META_DATA).value) IN
     Once(meta, CM_TOTAL_COMPRESSED, "int") /\ Once(meta, CM_DATA_PAGE_OFFSET, "int")
RegularGroup(s, group, n) ==
  /\ Once(Fields(s, group), RG_COLUMNS, "list") /\ Len(Chunks(s, group)) = n
  /\ \A chunk \in Range(Chunks(s, group)) : RegularChunk(s, chunk)
Regular(s) ==
  \A f \in Range(Fields(s, 0)) : f.id = FMD_ROW_GROUPS =>
    /\ Once(Fields(s, 0), FMD_ROW_GROUPS, "list")
    /\ LET groups == Items(s, f.value) IN
       \A g \in Range(groups) : RegularGroup(s, g, Len(Chunks(s, groups[1])))
InputsRegular == \A f \in Inputs : Parsed(f.footer) => Regular(f.footer)

\* Gather: the projected chunks, column by column.
Gather(grid, cols) ==
  FlattenSeq([c \in DOMAIN grid[1] |->
    IF c - 1 \in cols THEN [g \in DOMAIN grid |-> grid[g][c]] ELSE <<>>])

\* IndexResolver::Resolve, one chunk at a time, seeking by the packed offsets.
Ask ==
  /\ phase = "read" /\ (want = {} \/ at[1] = fi.columns)
  /\ want' \in (SUBSET (0 .. fi.columns - 1)) \ {{}} /\ at' = <<0, 0>> /\ out' = <<>>
  /\ UNCHANGED <<file, run, phase, k, w, fi>>

Seek(c, g) == Unpacked(fi.cco, fi.bpe, g * (fi.columns + 1) + c)
SkipColumn ==
  /\ phase = "read" /\ want # {} /\ at[1] < fi.columns /\ at[1] \notin want
  /\ at' = <<at[1] + 1, 0>>
  /\ UNCHANGED <<file, run, phase, k, w, fi, want, out>>
EmitChunk ==
  /\ phase = "read" /\ at[1] < fi.columns /\ at[1] \in want
  /\ out' = Append(out, ReadColumnInfo(Footer, Seek(at[1], at[2])))
  /\ at' = IF at[2] + 1 < fi.row_groups THEN <<at[1], at[2] + 1>> ELSE <<at[1] + 1, 0>>
  /\ UNCHANGED <<file, run, phase, k, w, fi, want>>

Next ==
  \/ WalkField \/ EndWalk \/ Write \/ ConvertAgain
  \/ ReadFooterIndex \/ Ask \/ SkipColumn \/ EmitChunk

Spec == Init /\ [][Next]_vars

-----------------------------------------------------------------------------
\* What a reader of a footer meets: the fields and their values.
Content(s) == [j \in DOMAIN Fields(s, 0) |->
                 <<Fields(s, 0)[j].id, Fields(s, 0)[j].type, ValueOf(s, Fields(s, 0)[j])>>]

\* A reader that knows nothing of the index walks the same fields as before,
\* with the pointer in front: rewriting the first header keeps every delta
\* behind it right, and the STOP keeps the index blob out of sight.
SameFields ==
  phase = "write" => Tail(Content(NewFooter)) = Content(Footer)

\* The offsets of the index lead into the moved footer, to what they led to in
\* the original: top-level headers, schema elements, chunks and group ends.
OffsetsLand ==
  phase = "write" =>
    /\ \A j \in DOMAIN w.top_fields :
         LET f == NextField(NewFooter, FieldOffsets[j + 1][2], 0)
             v == ValueOf(Footer, Fields(Footer, 0)[j]) IN
         /\ f.type = Fields(Footer, 0)[j].type
         /\ SubSeq(NewFooter, f.value + 1, f.value + Len(v)) = v
    /\ \A o \in ToSet(w.schema \o w.chunk_offsets) :
         SubSeq(NewFooter, o + Shift + 1, Skip(NewFooter, o + Shift, "struct"))
           = SubSeq(Footer, o + 1, Skip(Footer, o, "struct"))

\* The converter never indexes a footer twice, and the pointer of its output
\* gives the index blob's place in the file, full or footer only.
PointerTrue ==
  phase \in {"open", "read"} =>
    LET pointers == Those(Fields(Footer, 0), FMD_POINTER, "bin")
        p == At(Footer, Head(pointers).value).a
        whole == file.prefix \o Footer IN
    /\ Len(pointers) = 1
    /\ p.index_start + p.index_length = Len(whole)
    /\ Fields(SubSeq(whole, p.index_start + 1, Len(whole)), 0)[1].id = 1

\* Seeking finds for every projection what walking the footer finds, and what a
\* fully materialized footer holds (footer_decode_bench.cc:134).
ResolversAgree ==
  phase = "read" =>
    /\ IsPrefix(out, Gather(WalkGrid(Footer), want))
    /\ at[1] = fi.columns /\ want # {} => out = Gather(WalkGrid(Footer), want)
    /\ WalkGrid(Footer) = StandardGrid(Footer)

\* The reader opens every output of the converter but that of a footer whose
\* first row group has no columns: one without row groups or without a schema
\* was refused (parquet_to_jumptable.cc:340-343, footer_formats.h:267).
Opens == phase = "failed" => w.row_groups # 0 /\ w.columns = 0
=============================================================================

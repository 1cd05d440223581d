----------------------------- MODULE ModularFile -----------------------------
(***************************************************************************)
(* parquet_to_modular from the input file to the output file: refusals,    *)
(* the modules in their order, directory, root and trailer, the output     *)
(* stream, and the readers' way back from the trailer.                     *)
(*                                                                         *)
(* A file is a sequence of cells <<tag, value>>; offsets count cells.  A   *)
(* struct is the cell of its value and a stop.  The stream holds what was  *)
(* written to it; the disk gets it cell by cell, some time, or no more     *)
(* once the disk is full: from then on every write of the stream does      *)
(* nothing, and the converter does not look.  It may be killed at any      *)
(* step, and be run again on what is there, with other options, and with   *)
(* its input as its output.                                                *)
(***************************************************************************)
EXTENDS PageIndex, SequencesExt

CONSTANTS Inputs,      \* the files it may be given
          Options,     \* records page_index, full_file, schema_index, limit, out
          CopyBuffer,  \* cells of kCopyBufferBytes
          MaxRuns      \* how often it is run

ASSUME CopyBufferAssumption == CopyBuffer \in Nat \ {0}
\* No data of an input is a trailer, nor the end of a Parquet file in a schema.
\* Of each element of a schema the list header counts, the first cell is there.
ASSUME InputsAssumption ==
  \A file \in Inputs :
    /\ file \in Seq(Range(file))
    /\ \A i \in DOMAIN file :
         /\ file[i][1] \notin {"MFT1", "MFP1"}
         /\ file[i][1] = "footer" /\ file[i][2].schema # NoField =>
              LET span == file[i][2].schema
              IN /\ span \in Seq(Range(span))
                 /\ \A j \in DOMAIN span : span[j][1] \notin {"PAR1", "MFT1", "MFP1"}
                 /\ \A n \in 1 .. span[1][2] :
                      \E at \in 1 .. Len(span) - 1 : span[at + 1] = <<"element", <<n, 1>>>>
\* A footer lists row groups of chunks of fields; all but the metadata, field 3,
\* are numbers.
ASSUME FooterAssumption ==
  \A file \in Inputs : \A i \in DOMAIN file : file[i][1] = "footer" =>
    LET groups == file[i][2].row_groups
    IN /\ groups \in Seq(Range(groups))
       /\ \A group \in Range(groups) :
            /\ group \in Seq(Range(group))
            /\ \A fields \in Range(group) :
                 /\ fields \in Seq(Range(fields))
                 /\ \A f \in Range(fields) : f.id \in 3 .. 7 /\ (f.id # 3 => f.value \in Int)
ASSUME OptionsAssumption == \A o \in Options : o.out \in {"input", "output"} /\ o.limit \in Int

VARIABLES original,        \* the input before any run
          disk,            \* "input", "output" -> cells
          opts,            \* of the present or last run
          before,          \* the files as that run found them
          pc,              \* the module to place next, or where the output is
          place,           \* the arrays of the placement module
          offsets,         \* chunk_off or col_off, as far as it is filled
          blob, dir,       \* out and dir
          copied,          \* cells of the prefix that have been read again
          stream, bad,     \* what out_file took; it has failed
          result, runs

layoutVars == <<place, offsets, blob, dir>>
streamVars == <<copied, stream, bad>>
vars == <<original, disk, opts, before, pc, layoutVars, streamVars, result, runs>>

Magic == <<"PAR1", 0>>
StopCell == <<"stop", 0>>
Struct(tag, value) == <<<<tag, value>>, StopCell>>

-----------------------------------------------------------------------------
(* The footer.  A chunk is the list of its fields, in the order they are in *)
(* the file; a range of a chunk's page index is in cells of the input.      *)

NoRange == [has |-> FALSE, off |-> 0, len |-> 0]
NoChunk == [meta |-> [data_page_offset |-> 0, dict_offset |-> NoField, stat |-> FALSE],
            offset_index |-> NoRange, column_index |-> NoRange]

\* Field 3 replaces the whole chunk.
TakeField(c, f) ==
  CASE f.id = 3 -> [NoChunk EXCEPT !.meta = f.value]
    [] f.id = 4 -> [c EXCEPT !.offset_index.off = f.value, !.offset_index.has = TRUE]
    [] f.id = 5 -> [c EXCEPT !.offset_index.len = f.value]
    [] f.id = 6 -> [c EXCEPT !.column_index.off = f.value, !.column_index.has = TRUE]
    [] f.id = 7 -> [c EXCEPT !.column_index.len = f.value]
ParseColumnChunk(fields) == FoldLeft(TakeField, NoChunk, fields)

FooterStart(file) == Len(file) - 2 - file[Len(file) - 1][2]
FileMeta(file) == file[FooterStart(file) + 1][2]
RowGroups(file) == FileMeta(file).row_groups
G(file) == Len(RowGroups(file))
C(file) == Len(RowGroups(file)[1])
N(file) == C(file) * G(file)
Chunk(file, c, g) == ParseColumnChunk(RowGroups(file)[g + 1][c + 1])

Refused(file, o) ==
  \/ Len(file) < 2
  \/ o.full_file /\ file[1] # Magic
  \/ file[Len(file)] # Magic
  \/ file[Len(file) - 1][2] \notin 0 .. Len(file) - 2
  \/ file[FooterStart(file) + 1][1] # "footer"
  \/ RowGroups(file) = <<>>

found == before["input"]

-----------------------------------------------------------------------------
(* A run, up to the root.  "idle" is a program that does not run.           *)

NoPlace == [data_page_offsets |-> <<>>, first_dict |-> <<0>>, dict_offsets |-> <<>>]

Init ==
  /\ original \in Inputs /\ disk = [input |-> original, output |-> <<>>]
  /\ opts \in Options /\ before = disk
  /\ pc = "idle" /\ place = NoPlace /\ offsets = <<>> /\ blob = <<>> /\ dir = <<>>
  /\ copied = 0 /\ stream = <<>> /\ bad = FALSE
  /\ result = "none" /\ runs = 0

\* Mutant of Start: the output is opened before the input is looked at.
StartOpening ==
  /\ pc = "idle" /\ runs < MaxRuns /\ runs' = runs + 1
  /\ before' = disk
  /\ \E o \in Options :
       /\ opts' = o /\ disk' = [disk EXCEPT ![o.out] = <<>>]
       /\ IF Refused(disk["input"], o)
          THEN pc' = "idle" /\ result' = "error"
          ELSE pc' = "chunks" /\ result' = "none"
  /\ place' = NoPlace /\ offsets' = <<>> /\ blob' = <<>> /\ dir' = <<>>
  /\ copied' = 0 /\ stream' = <<>> /\ bad' = FALSE
  /\ UNCHANGED original

Start ==
  /\ pc = "idle" /\ runs < MaxRuns /\ runs' = runs + 1
  /\ before' = disk
  /\ \E o \in Options :
       /\ opts' = o
       /\ IF Refused(disk["input"], o)
          THEN pc' = "idle" /\ result' = "error"
          ELSE pc' = "chunks" /\ result' = "none"
  /\ place' = NoPlace /\ offsets' = <<>> /\ blob' = <<>> /\ dir' = <<>>
  /\ copied' = 0 /\ stream' = <<>> /\ bad' = FALSE
  /\ UNCHANGED <<original, disk>>

Goto(here, next) ==
  /\ pc = here /\ pc' = next
  /\ UNCHANGED <<original, disk, opts, before, streamVars, result, runs>>

\* One round of the placement loop: column by column, and in each row group by
\* row group.
nextChunk == Len(place.data_page_offsets)
ColumnOf(i) == i \div G(found)
GroupOf(i) == i % G(found)
Missing == ColumnOf(nextChunk) >= Len(RowGroups(found)[GroupOf(nextChunk) + 1])

AddChunk ==
  /\ Goto("chunks", "chunks") /\ nextChunk < N(found) /\ ~Missing
  /\ LET meta == Chunk(found, ColumnOf(nextChunk), GroupOf(nextChunk)).meta
         has == meta.dict_offset # NoField
     IN place' = [data_page_offsets |-> Append(place.data_page_offsets, meta.data_page_offset),
                  first_dict |-> Append(place.first_dict,
                    place.first_dict[nextChunk + 1] + (IF has THEN 1 ELSE 0)),
                  dict_offsets |-> IF has THEN Append(place.dict_offsets, meta.dict_offset)
                                   ELSE place.dict_offsets]
  /\ UNCHANGED <<offsets, blob, dir>>

Ragged ==
  /\ pc = "chunks" /\ nextChunk < N(found) /\ Missing
  /\ pc' = "idle" /\ result' = "error"
  /\ UNCHANGED <<original, disk, opts, before, layoutVars, streamVars, runs>>

EndChunks == Goto("chunks", "offset_index") /\ nextChunk = N(found) /\ UNCHANGED layoutVars

\* place() and the directory entry.
Place(kind, module) ==
  /\ blob' = blob \o module
  /\ dir' = Append(dir, [kind |-> kind, off |-> Len(blob), len |-> Len(module)])
  /\ UNCHANGED place

-----------------------------------------------------------------------------
(* Modules that are a directory of offsets behind the descriptors it leads  *)
(* to: the page indexes by chunk, the statistics by column.                 *)

PartKinds == {"offset_index", "column_index", "row_group_statistics"}
After == [offset_index |-> "column_index", column_index |-> "file_metadata",
          row_group_statistics |-> "placement"]
Parts(file, kind) == IF kind = "row_group_statistics" THEN C(file) ELSE N(file)

HasStats(file, c) == \E g \in 0 .. G(file) - 1 : Chunk(file, c, g).meta.stat

\* build_index: the range must lie before the footer.
Usable(file, r) == r.has /\ r.len > 0 /\ r.off >= 0 /\ r.off + r.len <= FooterStart(file)
ReadRange(file, r) == file[r.off + 1][2]

\* Where a chunk says its column index is, there is one, with a null flag, a
\* minimum and a maximum for every page.
ASSUME ColumnIndexAssumption ==
  \A file \in Inputs, o \in Options : ~Refused(file, o) =>
    \A g \in 0 .. G(file) - 1 : \A c \in 0 .. Len(RowGroups(file)[g + 1]) - 1 :
      LET r == Chunk(file, c, g).column_index
          ci == ReadRange(file, r)
      IN Usable(file, r) =>
           /\ ci.null_pages \in Seq({0, 1}) /\ ci.mins \in Seq(Bytes) /\ ci.maxs \in Seq(Bytes)
           /\ Len(ci.mins) = Len(ci.null_pages) /\ Len(ci.maxs) = Len(ci.null_pages)

PageDescriptor(file, kind, r, limit) ==
  IF kind = "offset_index"
  THEN Struct("OffsetIndexChunk", OffsetIndexChunk(ReadRange(file, r)))
  ELSE Struct("ColumnIndexChunk", ColumnIndexChunk(ReadRange(file, r), limit))

Part(file, kind, i, limit) ==
  IF kind = "row_group_statistics"
  THEN IF HasStats(file, i) THEN Struct("column_stats", i) ELSE <<>>
  ELSE LET r == Chunk(file, i \div G(file), i % G(file))[kind]
       IN IF Usable(file, r) THEN PageDescriptor(file, kind, r, limit) ELSE <<>>

Wanted(kind) ==
  /\ kind = "row_group_statistics" \/ (opts.page_index /\ found[1] = Magic)
  /\ \E i \in 0 .. Parts(found, kind) - 1 : Part(found, kind, i, opts.limit) # <<>>

SkipParts(kind) == Goto(kind, After[kind]) /\ ~Wanted(kind) /\ UNCHANGED layoutVars

\* Mutant of PlacePart: the offset is taken behind the descriptor.
PlacePartFirst(kind) ==
  /\ Goto(kind, kind) /\ Wanted(kind) /\ Len(offsets) < Parts(found, kind)
  /\ blob' = blob \o Part(found, kind, Len(offsets), opts.limit)
  /\ offsets' = Append(offsets, Len(blob'))
  /\ UNCHANGED <<place, dir>>

PlacePart(kind) ==
  /\ Goto(kind, kind) /\ Wanted(kind) /\ Len(offsets) < Parts(found, kind)
  /\ offsets' = Append(offsets, Len(blob))
  /\ blob' = blob \o Part(found, kind, Len(offsets), opts.limit)
  /\ UNCHANGED <<place, dir>>

EndParts(kind) ==
  /\ Goto(kind, After[kind]) /\ Wanted(kind) /\ Len(offsets) = Parts(found, kind)
  /\ Place(kind, Struct(kind, Append(offsets, Len(blob))))
  /\ offsets' = <<>>

-----------------------------------------------------------------------------
(* The other modules.  The schema of a footer is its span, a list header    *)
(* and the elements: cells <<"element", <<n, j>>>>, the j-th of element n,  *)
(* and where it has children, <<"num_children", <<n, how many>>>>.          *)

PlaceIf(condition, kind, module) ==
  /\ IF condition THEN Place(kind, module) ELSE UNCHANGED <<place, blob, dir>>
  /\ UNCHANGED offsets

PlaceMetadata ==
  /\ Goto("file_metadata", "schema_index")
  /\ PlaceIf(FileMeta(found).metadata, "file_metadata", Struct("file_metadata", 0))

HasSchema(file) == FileMeta(file).schema # NoField
SchemaSpan(file) == IF HasSchema(file) THEN FileMeta(file).schema ELSE <<<<"list", 0>>>>
Schema(file) == <<<<"field 1", 0>>>> \o SchemaSpan(file) \o <<StopCell>>

\* ParseSchemaLayout: where in the span the elements begin.
SpanOffsets(span) ==
  [n \in 1 .. span[1][2] |->
     CHOOSE at \in 1 .. Len(span) - 1 : span[at + 1] = <<"element", <<n, 1>>>>]

ElementsBase == 1
ElementOffsets(file) ==
  LET starts == SpanOffsets(FileMeta(file).schema)
  IN [n \in DOMAIN starts |-> ElementsBase + starts[n]]
\* BuildSchemaIndex is "" when no element behind the root is a leaf.
IsLeaf(span, n) ==
  \A cell \in Range(span) :
    cell[1] = "num_children" /\ cell[2][1] = n => cell[2][2] = 0
HasSchemaIndex(file) ==
  /\ HasSchema(file)
  /\ LET span == FileMeta(file).schema
     IN \E n \in DOMAIN SpanOffsets(span) : n > 1 /\ IsLeaf(span, n)

PlaceSchemaIndex ==
  /\ Goto("schema_index", "row_group_statistics")
  /\ PlaceIf(opts.schema_index /\ HasSchemaIndex(found), "schema_index",
             Struct("schema_index", ElementOffsets(found)))

PlacePlacement ==
  Goto("placement", "schema") /\ PlaceIf(TRUE, "placement", Struct("placement", place))

PlaceSchema == Goto("schema", "root") /\ PlaceIf(TRUE, "schema", Schema(found))

\* The directory does not list the root.
PlaceRoot ==
  Goto("root", "open") /\ blob' = blob \o Struct("root", dir) /\ UNCHANGED <<place, offsets, dir>>

Lay ==
  \/ AddChunk \/ Ragged \/ EndChunks
  \/ \E kind \in PartKinds : SkipParts(kind) \/ PlacePart(kind) \/ EndParts(kind)
  \/ PlaceMetadata \/ PlaceSchemaIndex \/ PlacePlacement \/ PlaceSchema \/ PlaceRoot

-----------------------------------------------------------------------------
(* The output.                                                             *)

Writing == pc \in {"copy", "blob", "trailer", "close"}

OpenFails ==
  /\ pc = "open" /\ pc' = "idle" /\ result' = "error"
  /\ UNCHANGED <<original, disk, opts, before, layoutVars, streamVars, runs>>

OpenOut ==
  /\ pc = "open" /\ pc' = IF opts.full_file THEN "copy" ELSE "blob"
  /\ disk' = [disk EXCEPT ![opts.out] = <<>>]
  /\ UNCHANGED <<original, opts, before, layoutVars, streamVars, result, runs>>

Write(cells) == stream' = IF bad THEN stream ELSE stream \o cells

\* One round of the copy.  It reads the input as it is now.
NextCount ==
  IF FooterStart(found) - copied < CopyBuffer THEN FooterStart(found) - copied ELSE CopyBuffer
CopyPrefix ==
  /\ pc = "copy" /\ copied < FooterStart(found)
  /\ copied + NextCount <= Len(disk["input"])
  /\ Write(SubSeq(disk["input"], copied + 1, copied + NextCount))
  /\ copied' = copied + NextCount
  /\ UNCHANGED <<original, disk, opts, before, pc, layoutVars, bad, result, runs>>

\* The exception closes the file on its way out.
ShortRead ==
  /\ pc = "copy" /\ copied < FooterStart(found)
  /\ copied + NextCount > Len(disk["input"])
  /\ pc' = "close" /\ result' = "error"
  /\ UNCHANGED <<original, disk, opts, before, layoutVars, streamVars, runs>>

EndCopy == Goto("copy", "blob") /\ copied = FooterStart(found) /\ UNCHANGED layoutVars

WriteBlob ==
  /\ pc = "blob" /\ pc' = "trailer" /\ Write(blob)
  /\ UNCHANGED <<original, disk, opts, before, layoutVars, copied, bad, result, runs>>

\* Mutant of Trailer: one magic for both.
TrailerOneMagic ==
  <<"MFT1", [modular_start |-> IF opts.full_file THEN FooterStart(found) ELSE 0,
             root_off |-> Len(blob) - 2]>>

Trailer ==
  <<IF opts.full_file THEN "MFP1" ELSE "MFT1",
    [modular_start |-> IF opts.full_file THEN FooterStart(found) ELSE 0,
     root_off |-> Len(blob) - 2]>>

\* Mutant of WriteTrailer: the state of the stream is cleared first.
WriteTrailerCleared ==
  /\ pc = "trailer" /\ pc' = "close" /\ stream' = stream \o <<Trailer>> /\ bad' = FALSE
  /\ UNCHANGED <<original, disk, opts, before, layoutVars, copied, result, runs>>

WriteTrailer ==
  /\ pc = "trailer" /\ pc' = "close" /\ Write(<<Trailer>>)
  /\ UNCHANGED <<original, disk, opts, before, layoutVars, copied, bad, result, runs>>

\* The next cell gets to the disk.
Pending == Len(disk[opts.out]) < Len(stream)
Flush ==
  /\ Writing /\ Pending /\ ~bad
  /\ disk' = [disk EXCEPT ![opts.out] = Append(@, stream[Len(@) + 1])]
  /\ UNCHANGED <<original, opts, before, pc, layoutVars, streamVars, result, runs>>

DiskFull ==
  /\ Writing /\ Pending /\ ~bad /\ bad' = TRUE
  /\ UNCHANGED <<original, disk, opts, before, pc, layoutVars, copied, stream, result, runs>>

\* Closed, with what is pending written or given up; "wrote", either way.
Close ==
  /\ pc = "close" /\ (bad \/ ~Pending) /\ pc' = "idle"
  /\ result' = IF result = "error" THEN "error" ELSE "wrote"
  /\ UNCHANGED <<original, disk, opts, before, layoutVars, streamVars, runs>>

Crash ==
  /\ pc # "idle" /\ pc' = "idle" /\ result' = "killed"
  /\ UNCHANGED <<original, disk, opts, before, layoutVars, streamVars, runs>>

Output ==
  \/ OpenFails \/ OpenOut \/ CopyPrefix \/ ShortRead \/ EndCopy \/ WriteBlob
  \/ WriteTrailer \/ Flush \/ DiskFull \/ Close

Next == Start \/ Lay \/ Output \/ Crash

Spec == Init /\ [][Next]_vars

-----------------------------------------------------------------------------
(* The readers.  A file is accepted by its last cell alone; from there the  *)
(* root, and from its directory the modules.                               *)

HasTrailer(file) == file # <<>> /\ file[Len(file)][1] \in {"MFT1", "MFP1"}
Base(file) == file[Len(file)][2].modular_start
RootOff(file) == file[Len(file)][2].root_off
\* The cell at an offset of the modular footer.
At(file, off) == file[Base(file) + off + 1]
Directory(file) == At(file, RootOff(file))[2]
Has(file, kind) == \E n \in DOMAIN Directory(file) : Directory(file)[n].kind = kind

\* schema_index_check, name_resolve_bench and the modular resolver.
ChecksIndex(file) == HasTrailer(file) /\ Has(file, "schema_index") /\ Has(file, "schema")
LoadsModular(file) == HasTrailer(file) /\ Has(file, "schema_index")
ResolvesPlacement(file) ==
  HasTrailer(file) /\ file[Len(file)][1] = "MFT1" /\ Has(file, "placement")

-----------------------------------------------------------------------------
(* Properties.                                                             *)

StructAt(file, off, tag) == At(file, off)[1] = tag /\ At(file, off + 1) = StopCell

WholeFile(file) ==
  /\ Base(file) + RootOff(file) + 3 = Len(file)
  /\ StructAt(file, RootOff(file), "root")
  /\ Has(file, "placement") /\ Has(file, "schema")
  /\ \A n \in DOMAIN Directory(file) :
       LET e == Directory(file)[n] IN
       /\ e.off \in 0 .. RootOff(file) - e.len
       /\ IF e.kind = "schema"
          THEN /\ e.len = Len(Schema(original))
               /\ \A j \in 1 .. e.len : At(file, e.off + j - 1) = Schema(original)[j]
          ELSE e.len = 2 /\ StructAt(file, e.off, e.kind)
  /\ file[Len(file)][1] = "MFP1" =>
       /\ Base(file) = FooterStart(original)
       /\ \A j \in 1 .. Base(file) : file[j] = original[j]

\* Nothing but the trailer tells a reader that a file is complete.  So whoever
\* looks, while the converter runs, after it was killed or after it ran into a
\* full disk, finds no trailer, or finds the root, every module it lists, and
\* with --full-file the data as it was (parquet_to_modular.cc:1024-1064;
\* schema_index_check.cc:187-195, name_resolve_bench.cc:187-188).
AcceptedIsWhole == \A path \in DOMAIN disk : HasTrailer(disk[path]) => WholeFile(disk[path])

\* Chunk (c, g) is at c * G + g, its dictionary where first_dict says.
PlacementRight(arrays) ==
  \A c \in 0 .. C(original) - 1, g \in 0 .. G(original) - 1 :
    LET meta == Chunk(original, c, g).meta
        n == c * G(original) + g + 1
        first == arrays.first_dict
    IN /\ arrays.data_page_offsets[n] = meta.data_page_offset
       /\ IF meta.dict_offset = NoField
          THEN first[n + 1] = first[n]
          ELSE first[n + 1] = first[n] + 1 /\ arrays.dict_offsets[first[n] + 1] = meta.dict_offset

\* Two neighbouring offsets delimit what they are about and no more.
Delimited(file, offs, n, part) ==
  /\ offs[n + 1] = offs[n] + Len(part)
  /\ \A j \in 1 .. Len(part) : At(file, offs[n] + j - 1) = part[j]

StatisticsLand(file, offs) ==
  \A c \in 0 .. C(original) - 1 :
    Delimited(file, offs, c + 1,
      IF \E g \in 0 .. G(original) - 1 : Chunk(original, c, g).meta.stat
      THEN Struct("column_stats", c) ELSE <<>>)

PagesLand(file, kind, offs) ==
  \A c \in 0 .. C(original) - 1, g \in 0 .. G(original) - 1 :
    LET r == Chunk(original, c, g)[kind]
        n == c * G(original) + g + 1
    IN IF r.has /\ r.len > 0 /\ r.off \in 0 .. FooterStart(original) - r.len
       THEN \E o \in Options :
              Delimited(file, offs, n, PageDescriptor(original, kind, r, o.limit))
       ELSE Delimited(file, offs, n, <<>>)

ElementsLand(file, eoff) ==
  \A s \in DOMAIN Directory(file) : Directory(file)[s].kind = "schema" =>
    \A n \in DOMAIN eoff : At(file, Directory(file)[s].off + eoff[n]) = <<"element", <<n, 1>>>>

ContentRight(file, kind, value) ==
  CASE kind = "placement" -> PlacementRight(value)
    [] kind = "row_group_statistics" -> StatisticsLand(file, value)
    [] kind \in {"offset_index", "column_index"} -> PagesLand(file, kind, value)
    [] kind = "schema_index" -> ElementsLand(file, value)
    [] OTHER -> TRUE

\* Every offset a reader follows lands: chunk (c, g) of the input is at
\* c * G + g, its dictionary where first_dict says, its page index, the
\* statistics of its column and the schema elements where their offsets say,
\* seen from the start of the modular footer (parquet_to_modular.cc:870-889,
\* 961-964, 977-984; footer_formats.h:430, schema_index_check.cc:263).
SeeksLand ==
  \A path \in DOMAIN disk :
    LET file == disk[path] IN
    HasTrailer(file) =>
      \A n \in DOMAIN Directory(file) :
        LET e == Directory(file)[n]
        IN ContentRight(file, e.kind, At(file, e.off)[2])

\* The bounds of every page survive the way from the input's column index to
\* the descriptor found by its offset (parquet_to_modular.cc:644-683).
PageBoundsKept ==
  \A path \in DOMAIN disk :
    LET file == disk[path] IN
    HasTrailer(file) =>
      \A n \in DOMAIN Directory(file) : Directory(file)[n].kind = "column_index" =>
        LET offs == At(file, Directory(file)[n].off)[2] IN
        \A c \in 0 .. C(original) - 1, g \in 0 .. G(original) - 1 :
          LET i == c * G(original) + g + 1 IN
          offs[i] # offs[i + 1] =>
            BoundsKept(ReadRange(original, Chunk(original, c, g).column_index), At(file, offs[i])[2])

\* "wrote" and exit code 0 say nothing of the file, the trailer does: with no
\* write failed each reader opens what was asked for, and a file that ran into
\* a full disk none opens (parquet_to_modular.cc:1064-1101).
WroteUnlessFull ==
  pc = "idle" /\ result = "wrote" =>
    LET file == disk[opts.out] IN
    IF bad
    THEN ~HasTrailer(file)
    ELSE /\ HasTrailer(file)
         /\ ResolvesPlacement(file) <=> ~opts.full_file
         /\ ChecksIndex(file) <=> opts.schema_index /\ HasSchemaIndex(original)
         /\ LoadsModular(file) <=> ChecksIndex(file)

\* A conversion that ends in an error leaves both files as they were, with one
\* exception: --full-file with the input as its output, which is truncated
\* before its data is read again (parquet_to_modular.cc:1024-1040).
FailsEarly ==
  pc = "idle" /\ result = "error" =>
    \/ disk = before
    \/ opts.full_file /\ opts.out = "input" /\ disk = [before EXCEPT !["input"] = <<>>]
=============================================================================

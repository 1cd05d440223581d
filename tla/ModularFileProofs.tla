-------------------------- MODULE ModularFileProofs --------------------------
(* Proofs about the converter's files.  First what a conversion that ends in *)
(* an error leaves behind (FailInv), then that a file with a trailer is      *)
(* whole and what "wrote" means (WholeInv), then that what a module holds is *)
(* right, in the blob (ContentInv) and so in every file with a trailer       *)
(* (SeeksInv), the bounds of the pages included.                             *)
EXTENDS ModularFile, StatBoundsProofs, FiniteSetTheorems

IsSeq(s) == s \in Seq(Range(s))

LEMMA SeqOverRange == ASSUME NEW S, NEW s \in Seq(S) PROVE IsSeq(s)
BY DEF IsSeq, Range

LEMMA EmptyIsSeq == IsSeq(<<>>)
BY DEF IsSeq

LEMMA AppendIsSeq == ASSUME NEW s, IsSeq(s), NEW e PROVE IsSeq(Append(s, e))
<1> DEFINE S == Range(s) \cup {e}
<1>1. s \in Seq(S)
  BY DEF IsSeq
<1>2. Append(s, e) \in Seq(S)
  BY <1>1
<1> QED BY <1>2, SeqOverRange

Paths == {"input", "output"}
AreFiles(files) ==
  /\ files = [path \in Paths |-> files[path]]
  /\ \A path \in Paths : IsSeq(files[path])

FilesInv ==
  /\ opts \in Options
  /\ AreFiles(disk) /\ AreFiles(before)
  /\ pc # "idle" => ~Refused(found, opts)

\* Until the output is opened nothing has happened to the files.
BeforeOpen ==
  pc # "idle" /\ ~Writing =>
    disk = before /\ copied = 0 /\ stream = <<>> /\ result = "none"

\* The copy reads what the refusals looked at, unless it is the output.
CopyInv ==
  /\ pc = "copy" => opts.full_file /\ copied \in 0 .. FooterStart(found)
  /\ Writing /\ opts.out = "output" => disk["input"] = found

\* From an input that was truncated nothing can be copied.
TruncatedInput ==
  Writing /\ opts.full_file /\ opts.out = "input" =>
    /\ pc \in {"copy", "close"} /\ copied = 0 /\ stream = <<>>
    /\ disk = [before EXCEPT !["input"] = <<>>]

ErrorInv ==
  Writing /\ result = "error" => pc = "close" /\ opts.full_file /\ opts.out = "input"

FailInv ==
  FilesInv /\ BeforeOpen /\ CopyInv /\ TruncatedInput /\ ErrorInv /\ FailsEarly

\* An accepted file has its footer behind the first cell, if it is a full one.
LEMMA FooterInside ==
  ASSUME NEW file, IsSeq(file), NEW o, ~Refused(file, o)
  PROVE  /\ FooterStart(file) \in 0 .. Len(file)
         /\ o.full_file => FooterStart(file) >= 1
<1>1. Len(file) \in Nat /\ Len(file) >= 2
  BY DEF IsSeq, Refused
<1>2. FooterStart(file) \in 0 .. Len(file)
  BY <1>1 DEF Refused, FooterStart
<1>3. ASSUME o.full_file, FooterStart(file) = 0 PROVE FALSE
  <2>1. file[1] = Magic /\ file[1][1] = "footer"
    BY <1>3 DEF Refused
  <2> QED BY <2>1 DEF Magic
<1> QED BY <1>2, <1>3

LEMMA InitFails == Init => FailInv
<1> SUFFICES ASSUME Init PROVE FailInv
  OBVIOUS
<1>1. IsSeq(original)
  BY InputsAssumption DEF Init, IsSeq
<1>2. AreFiles(disk) /\ AreFiles(before)
  BY <1>1, EmptyIsSeq DEF Init, AreFiles, Paths
<1> QED BY <1>2 DEF Init, FailInv, FilesInv, BeforeOpen, CopyInv, TruncatedInput, ErrorInv, Writing, FailsEarly

LEMMA StartFails == ASSUME FailInv, Start PROVE FailInv'
<1>1. FilesInv'
  BY DEF FailInv, FilesInv, Start, AreFiles, found
<1>2. disk' = before' /\ copied' = 0 /\ stream' = <<>> /\ pc' \in {"idle", "chunks"}
      /\ (pc' # "idle" => result' = "none")
  BY DEF Start
<1> QED BY <1>1, <1>2 DEF FailInv, BeforeOpen, CopyInv, TruncatedInput, ErrorInv, Writing, FailsEarly

LaySteps ==
  {"chunks", "offset_index", "column_index", "file_metadata", "schema_index",
   "row_group_statistics", "placement", "schema", "root", "open"}

LEMMA LayShape ==
  ASSUME Lay
  PROVE  /\ UNCHANGED <<original, disk, opts, before, streamVars>>
         /\ pc \in LaySteps
         /\ \/ pc' \in LaySteps /\ result' = result
            \/ pc' = "idle" /\ result' = "error"
<1> USE DEF LaySteps, streamVars
<1>1. CASE AddChunk BY <1>1 DEF AddChunk, Goto
<1>2. CASE Ragged BY <1>2 DEF Ragged
<1>3. CASE EndChunks BY <1>3 DEF EndChunks, Goto
<1>4. ASSUME NEW kind \in PartKinds, SkipParts(kind) \/ PlacePart(kind) \/ EndParts(kind)
      PROVE  /\ UNCHANGED <<original, disk, opts, before, streamVars>>
             /\ pc \in LaySteps /\ pc' \in LaySteps /\ result' = result
  <2>1. kind \in LaySteps /\ After[kind] \in LaySteps
    BY DEF PartKinds, After
  <2> QED BY <1>4, <2>1 DEF SkipParts, PlacePart, EndParts, Goto
<1>5. CASE PlaceMetadata BY <1>5 DEF PlaceMetadata, Goto
<1>6. CASE PlaceSchemaIndex BY <1>6 DEF PlaceSchemaIndex, Goto
<1>7. CASE PlacePlacement BY <1>7 DEF PlacePlacement, Goto
<1>8. CASE PlaceSchema BY <1>8 DEF PlaceSchema, Goto
<1>9. CASE PlaceRoot BY <1>9 DEF PlaceRoot, Goto
<1> QED BY <1>1, <1>2, <1>3, <1>4, <1>5, <1>6, <1>7, <1>8, <1>9 DEF Lay

LEMMA LayFails == ASSUME FailInv, Lay PROVE FailInv'
<1> USE LayShape
<1>1. pc # "idle" /\ ~Writing /\ ~Writing'
  BY DEF LaySteps, Writing
<1>2. FilesInv'
  BY <1>1 DEF FailInv, FilesInv, found
<1>3. disk' = before'
  BY <1>1 DEF FailInv, BeforeOpen
<1>4. BeforeOpen' /\ FailsEarly'
  BY <1>1, <1>3 DEF FailInv, BeforeOpen, FailsEarly, streamVars
<1>5. pc' # "copy"
  BY DEF LaySteps
<1> QED BY <1>1, <1>2, <1>4, <1>5 DEF FailInv, CopyInv, TruncatedInput, ErrorInv

LEMMA OpenOutFails == ASSUME FailInv, OpenOut PROVE FailInv'
<1>1. pc = "open" /\ pc # "idle" /\ ~Writing /\ disk = before /\ copied = 0 /\ stream = <<>>
      /\ result = "none" /\ opts \in Options /\ ~Refused(found, opts)
  BY DEF FailInv, FilesInv, BeforeOpen, OpenOut, Writing
<1>2. opts.out \in Paths
  BY <1>1, OptionsAssumption DEF Paths
<1>3. AreFiles(disk')
  BY <1>2, EmptyIsSeq DEF FailInv, FilesInv, OpenOut, AreFiles
<1>4. FilesInv'
  BY <1>1, <1>3 DEF FailInv, FilesInv, OpenOut, found
<1>5. FooterStart(found) \in 0 .. Len(found) /\ Len(found) \in Nat
  BY <1>1, FooterInside DEF FailInv, FilesInv, AreFiles, Paths, found, IsSeq
<1>6. CopyInv'
  BY <1>1, <1>2, <1>5 DEF OpenOut, CopyInv, Writing, found, FailInv, FilesInv, AreFiles, Paths, streamVars
<1>7. TruncatedInput'
  BY <1>1 DEF OpenOut, TruncatedInput, streamVars
<1>8. BeforeOpen' /\ ErrorInv' /\ FailsEarly'
  BY <1>1 DEF OpenOut, BeforeOpen, ErrorInv, FailsEarly, Writing
<1> QED BY <1>4, <1>6, <1>7, <1>8 DEF FailInv

LEMMA CopyFails == ASSUME FailInv, CopyPrefix \/ ShortRead \/ EndCopy PROVE FailInv'
<1>1. pc = "copy" /\ Writing /\ opts \in Options /\ ~Refused(found, opts)
  BY DEF FailInv, FilesInv, CopyPrefix, ShortRead, EndCopy, Goto, Writing
<1>2. opts.out \in Paths /\ opts.full_file /\ copied \in 0 .. FooterStart(found)
  BY <1>1, OptionsAssumption DEF Paths, FailInv, CopyInv
<1>3. /\ Len(found) \in Nat /\ FooterStart(found) \in 0 .. Len(found)
      /\ FooterStart(found) >= 1
  BY <1>1, <1>2, FooterInside DEF FailInv, FilesInv, AreFiles, Paths, found, IsSeq
<1>4. NextCount \in 0 .. FooterStart(found) - copied
      /\ (copied < FooterStart(found) => NextCount >= 1)
  BY <1>2, <1>3, CopyBufferAssumption DEF NextCount
<1>5. CASE opts.out = "output"
  <2>1. disk["input"] = found
    BY <1>1, <1>5 DEF FailInv, CopyInv
  <2>2. ~ShortRead
    BY <1>2, <1>3, <1>4, <2>1 DEF ShortRead
  <2>3. UNCHANGED <<disk, opts, before, result>> /\ pc' \in {"copy", "blob"}
        /\ (pc' = "copy" => copied' \in 0 .. FooterStart(found))
    BY <1>1, <1>2, <1>3, <1>4, <2>2 DEF CopyPrefix, EndCopy, Goto
  <2>4. result # "error"
    BY <1>1 DEF FailInv, ErrorInv
  <2> QED BY <1>1, <1>2, <1>5, <2>1, <2>3, <2>4
          DEF FailInv, FilesInv, BeforeOpen, CopyInv, TruncatedInput, ErrorInv, FailsEarly, Writing, found
<1>6. CASE opts.out = "input"
  <2>1. copied = 0 /\ stream = <<>> /\ disk = [before EXCEPT !["input"] = <<>>]
    BY <1>1, <1>2, <1>6 DEF FailInv, TruncatedInput
  <2>2. Len(disk["input"]) = 0
    BY <2>1 DEF FailInv, FilesInv, AreFiles, Paths
  <2>3. ~CopyPrefix /\ ~EndCopy
    BY <1>3, <1>4, <2>1, <2>2 DEF CopyPrefix, EndCopy
  <2>4. pc' = "close" /\ result' = "error" /\ UNCHANGED <<disk, opts, before, copied, stream>>
    BY <2>3 DEF ShortRead, streamVars
  <2> QED BY <1>1, <1>2, <1>6, <2>1, <2>4
          DEF FailInv, FilesInv, BeforeOpen, CopyInv, TruncatedInput, ErrorInv, FailsEarly, Writing, found
<1> QED BY <1>2, <1>5, <1>6 DEF Paths

LEMMA WriteFails == ASSUME FailInv, WriteBlob \/ WriteTrailer PROVE FailInv'
<1>1. pc \in {"blob", "trailer"} /\ pc' \in {"trailer", "close"}
      /\ UNCHANGED <<disk, opts, before, copied, result>>
  BY DEF WriteBlob, WriteTrailer
<1>2. ~(opts.full_file /\ opts.out = "input") /\ result # "error"
  BY <1>1 DEF FailInv, TruncatedInput, ErrorInv, Writing
<1> QED BY <1>1, <1>2
        DEF FailInv, FilesInv, BeforeOpen, CopyInv, TruncatedInput, ErrorInv, FailsEarly, Writing, found

LEMMA FlushFails == ASSUME FailInv, Flush PROVE FailInv'
<1>1. Writing /\ pc' = pc /\ UNCHANGED <<opts, before, copied, stream, result>>
      /\ disk' = [disk EXCEPT ![opts.out] = Append(@, stream[Len(@) + 1])]
  BY DEF Flush, streamVars
<1>2. opts \in Options /\ opts.out \in Paths
  BY OptionsAssumption DEF Paths, FailInv, FilesInv
<1>3. AreFiles(disk')
  BY <1>1, <1>2, AppendIsSeq DEF FailInv, FilesInv, AreFiles
<1>4. FilesInv'
  BY <1>1, <1>3 DEF FailInv, FilesInv, found
<1>5. ~(opts.full_file /\ opts.out = "input")
  <2> SUFFICES ASSUME opts.full_file, opts.out = "input" PROVE FALSE
    OBVIOUS
  <2>1. stream = <<>> /\ disk = [before EXCEPT !["input"] = <<>>]
    BY <1>1 DEF FailInv, TruncatedInput
  <2>2. disk["input"] = <<>>
    BY <2>1 DEF FailInv, FilesInv, AreFiles, Paths
  <2> QED BY <2>1, <2>2 DEF Flush, Pending
<1>6. opts.out = "output" => disk'["input"] = disk["input"]
  BY <1>1 DEF FailInv, FilesInv, AreFiles, Paths
<1>7. pc # "idle"
  BY <1>1 DEF Writing
<1> QED BY <1>1, <1>2, <1>4, <1>5, <1>6, <1>7
        DEF FailInv, BeforeOpen, CopyInv, TruncatedInput, ErrorInv, FailsEarly, Writing, found

LEMMA DiskFullFails == ASSUME FailInv, DiskFull PROVE FailInv'
BY DEF FailInv, FilesInv, BeforeOpen, CopyInv, TruncatedInput, ErrorInv, FailsEarly,
       DiskFull, Writing, found

\* The steps that end a run.
LEMMA EndFails == ASSUME FailInv, OpenFails \/ Close \/ Crash PROVE FailInv'
<1>1. pc' = "idle" /\ pc # "idle" /\ UNCHANGED <<disk, opts, before>>
  BY DEF OpenFails, Close, Crash
<1>2. FailsEarly'
  <2>1. CASE OpenFails
    BY <1>1, <2>1 DEF OpenFails, FailInv, BeforeOpen, FailsEarly, Writing
  <2>2. CASE Close
    <3>1. Writing /\ (result' = "error" => result = "error")
      BY <2>2 DEF Close, Writing
    <3> QED BY <1>1, <3>1 DEF FailInv, ErrorInv, TruncatedInput, FailsEarly
  <2>3. CASE Crash
    BY <2>3 DEF Crash, FailsEarly
  <2> QED BY <2>1, <2>2, <2>3
<1> QED BY <1>1, <1>2
        DEF FailInv, FilesInv, BeforeOpen, CopyInv, TruncatedInput, ErrorInv, Writing

LEMMA StepFails == FailInv /\ [Next]_vars => FailInv'
<1> SUFFICES ASSUME FailInv, [Next]_vars PROVE FailInv'
  OBVIOUS
<1>1. CASE Start BY <1>1, StartFails
<1>2. CASE Lay BY <1>2, LayFails
<1>3. CASE Output
  BY <1>3, OpenOutFails, CopyFails, WriteFails, FlushFails, DiskFullFails, EndFails DEF Output
<1>4. CASE Crash BY <1>4, EndFails
<1>5. CASE UNCHANGED vars
  BY <1>5 DEF FailInv, FilesInv, BeforeOpen, CopyInv, TruncatedInput, ErrorInv, FailsEarly,
              Writing, vars, streamVars, found
<1> QED BY <1>1, <1>2, <1>3, <1>4, <1>5 DEF Next

-----------------------------------------------------------------------------
\* Whatever the input, the options and the runs before: a conversion that ends
\* in an error has left both files alone, or has emptied the input that was
\* its output (main, parquet_to_modular.cc:1024-1040).
THEOREM ErrorsLeaveFiles == Spec => []FailsEarly
<1>1. FailInv => FailsEarly
  BY DEF FailInv
<1> QED BY <1>1, InitFails, StepFails, PTL DEF Spec
-----------------------------------------------------------------------------
(* Whole files.  What is written is Cell(1), Cell(2), ..., Cell(WholeLen).   *)

Foreign == {"PAR1", "MFT1", "MFP1"}
Plain(s) == IsSeq(s) /\ \A j \in 1 .. Len(s) : s[j][1] \notin Foreign

LEMMA PlainStruct ==
  ASSUME NEW tag, NEW value, tag \notin Foreign
  PROVE  /\ Plain(Struct(tag, value)) /\ Len(Struct(tag, value)) = 2
         /\ Struct(tag, value)[1][1] = tag /\ Struct(tag, value)[2] = StopCell
<1>1. Struct(tag, value) \in Seq({<<tag, value>>, StopCell})
  BY DEF Struct
<1>2. IsSeq(Struct(tag, value))
  BY <1>1, SeqOverRange
<1> QED BY <1>2 DEF Struct, StopCell, Plain, Foreign

LEMMA PlainCell == ASSUME NEW cell, cell[1] \notin Foreign PROVE Plain(<<cell>>)
<1>1. <<cell>> \in Seq({cell})
  OBVIOUS
<1>2. IsSeq(<<cell>>)
  BY <1>1, SeqOverRange
<1> QED BY <1>2 DEF Plain

\* What an append leaves where it was, and where it puts the rest.
LEMMA ConcatCells ==
  ASSUME NEW s, NEW t, IsSeq(s), IsSeq(t)
  PROVE  /\ IsSeq(s \o t) /\ Len(s \o t) = Len(s) + Len(t)
         /\ Len(s) \in Nat /\ Len(t) \in Nat
         /\ \A j \in 1 .. Len(s) : (s \o t)[j] = s[j]
         /\ \A j \in 1 .. Len(t) : (s \o t)[Len(s) + j] = t[j]
         /\ \A j \in Len(s) + 1 .. Len(s) + Len(t) : (s \o t)[j] = t[j - Len(s)]
<1> DEFINE S == Range(s) \cup Range(t)
<1>1. s \in Seq(S) /\ t \in Seq(S)
  BY DEF IsSeq
<1>2. s \o t \in Seq(S)
  BY <1>1
<1>3. IsSeq(s \o t)
  BY <1>2, SeqOverRange
<1> QED BY <1>1, <1>3

LEMMA PlainConcat ==
  ASSUME NEW s, NEW t, Plain(s), Plain(t)
  PROVE  Plain(s \o t)
<1>1. IsSeq(s \o t) /\ Len(s \o t) = Len(s) + Len(t) /\ Len(s) \in Nat /\ Len(t) \in Nat
  BY ConcatCells DEF Plain
<1>2. ASSUME NEW j \in 1 .. Len(s \o t) PROVE (s \o t)[j][1] \notin Foreign
  <2>1. CASE j \in 1 .. Len(s)
    BY <2>1, ConcatCells DEF Plain
  <2>2. CASE j \in Len(s) + 1 .. Len(s) + Len(t)
    <3>1. (s \o t)[j] = t[j - Len(s)] /\ j - Len(s) \in 1 .. Len(t)
      BY <2>2, <1>1, ConcatCells DEF Plain
    <3> QED BY <3>1 DEF Plain
  <2> QED BY <1>1, <2>1, <2>2
<1> QED BY <1>1, <1>2 DEF Plain

\* The footer of an accepted input has a plain schema module.
LEMMA PlainSchema ==
  ASSUME NEW file \in Inputs, NEW o, ~Refused(file, o)
  PROVE  Plain(Schema(file))
<1>1. IsSeq(file) /\ Len(file) \in Nat /\ Len(file) >= 2
  BY InputsAssumption DEF IsSeq, Refused
<1>2. FooterStart(file) + 1 \in 1 .. Len(file)
  BY <1>1 DEF Refused, FooterStart
<1>3. FooterStart(file) + 1 \in DOMAIN file
  BY <1>1, <1>2 DEF IsSeq
<1>4. file[FooterStart(file) + 1][1] = "footer"
  BY DEF Refused
<1>5. Plain(SchemaSpan(file))
  <2>1. CASE HasSchema(file)
    <3>1. SchemaSpan(file) = file[FooterStart(file) + 1][2].schema
          /\ SchemaSpan(file) # NoField
      BY <2>1 DEF HasSchema, SchemaSpan, FileMeta
    <3>2. SchemaSpan(file) \in Seq(Range(SchemaSpan(file)))
          /\ \A j \in DOMAIN SchemaSpan(file) : SchemaSpan(file)[j][1] \notin Foreign
      BY <1>3, <1>4, <3>1, InputsAssumption DEF Foreign
    <3> QED BY <3>2 DEF Plain, IsSeq
  <2>2. CASE ~HasSchema(file)
    <3>1. SchemaSpan(file) = <<<<"list", 0>>>>
      BY <2>2 DEF SchemaSpan
    <3> QED BY <3>1, PlainCell DEF Foreign
  <2> QED BY <2>1, <2>2
<1>6. Plain(<<<<"field 1", 0>>>>) /\ Plain(<<StopCell>>)
  BY PlainCell DEF Foreign, StopCell
<1> QED BY <1>5, <1>6, PlainConcat DEF Schema

HeadLen == IF opts.full_file THEN FooterStart(original) ELSE 0
WholeLen == HeadLen + Len(blob) + 1
Cell(j) ==
  IF j <= HeadLen THEN original[j]
  ELSE IF j <= HeadLen + Len(blob) THEN blob[j - HeadLen] ELSE Trailer

\* An input is what it was, or nothing that a run accepts.
InputInv ==
  /\ original \in Inputs
  /\ disk["input"] = original \/ disk["input"] = <<>> \/ disk["input"][Len(disk["input"])] # Magic

WithRoot == Writing \/ pc = "open"
ModulesEnd == IF WithRoot THEN Len(blob) - 2 ELSE Len(blob)
IndexDone == WithRoot \/ pc \in {"row_group_statistics", "placement", "schema", "root"}

Lists(entries, kind) == \E n \in DOMAIN entries : entries[n].kind = kind

\* Entry e leads to a module of its kind, before the cell of number end.
Placed(e, cells, end) ==
  /\ e.off \in Nat /\ e.len \in Nat /\ e.off + e.len <= end
  /\ IF e.kind = "schema"
     THEN /\ e.len = Len(Schema(original))
          /\ \A j \in 1 .. e.len : cells[e.off + j] = Schema(original)[j]
     ELSE e.len = 2 /\ cells[e.off + 1][1] = e.kind /\ cells[e.off + 2] = StopCell

\* The blob: modules where the directory says, and the root at its end.
LayoutInv ==
  pc # "idle" =>
    /\ found = original
    /\ Plain(blob) /\ IsSeq(dir)
    /\ \A n \in DOMAIN dir : Placed(dir[n], blob, ModulesEnd)
    /\ WithRoot \/ pc \in {"schema", "root"} => Lists(dir, "placement")
    /\ WithRoot \/ pc = "root" => Lists(dir, "schema")
    /\ Lists(dir, "schema_index") <=> IndexDone /\ opts.schema_index /\ HasSchemaIndex(original)
    /\ WithRoot =>
         /\ Len(blob) >= 2 /\ blob[Len(blob)] = StopCell
         /\ blob[Len(blob) - 1] = <<"root", dir>>

StartsLikeWhole(file) ==
  IsSeq(file) /\ Len(file) <= WholeLen /\ \A j \in 1 .. Len(file) : file[j] = Cell(j)

\* The stream: a beginning of the whole file, as long as the converter is far.
StreamInv ==
  Writing =>
    /\ StartsLikeWhole(stream) /\ StartsLikeWhole(disk[opts.out])
    /\ Len(disk[opts.out]) <= Len(stream)
    /\ IF bad
       THEN Len(disk[opts.out]) < WholeLen
       ELSE /\ pc = "copy" => Len(stream) = copied
            /\ pc = "blob" => Len(stream) = HeadLen
            /\ pc = "trailer" => Len(stream) = HeadLen + Len(blob)
            /\ pc = "close" /\ result # "error" => Len(stream) = WholeLen

WholeInv ==
  FailInv /\ InputInv /\ LayoutInv /\ StreamInv /\ AcceptedIsWhole /\ WroteUnlessFull

\* Where the whole file is: its cells, and that the last is the only trailer.
LEMMA WholeCells ==
  ASSUME FailInv, InputInv, LayoutInv, pc # "idle", WithRoot
  PROVE  /\ HeadLen \in 0 .. Len(original) /\ Len(original) \in Nat
         /\ Len(blob) \in Nat /\ WholeLen \in Nat
         /\ Cell(WholeLen) = Trailer
         /\ \A j \in 1 .. WholeLen - 1 : Cell(j)[1] \notin {"MFT1", "MFP1"}
         /\ \A j \in 1 .. Len(blob) : Cell(HeadLen + j) = blob[j]
         /\ \A j \in 1 .. HeadLen : Cell(j) = original[j]
<1>1. found = original /\ ~Refused(original, opts) /\ IsSeq(original)
  BY InputsAssumption DEF LayoutInv, FailInv, FilesInv, InputInv, IsSeq
<1>2. /\ HeadLen \in 0 .. Len(original) /\ Len(original) \in Nat
      /\ DOMAIN original = 1 .. Len(original)
  BY <1>1, FooterInside DEF HeadLen, IsSeq
<1>3. Plain(blob) /\ Len(blob) \in Nat
  BY DEF LayoutInv, Plain, IsSeq
<1>4. \A j \in 1 .. HeadLen : Cell(j) = original[j]
  BY <1>2 DEF Cell
<1>5. \A j \in 1 .. Len(blob) : Cell(HeadLen + j) = blob[j]
  BY <1>2, <1>3 DEF Cell
<1>6. WholeLen \in Nat /\ Cell(WholeLen) = Trailer
  BY <1>2, <1>3 DEF WholeLen, Cell
<1>7. ASSUME NEW j \in 1 .. WholeLen - 1 PROVE Cell(j)[1] \notin {"MFT1", "MFP1"}
  <2>1. CASE j <= HeadLen
    <3>1. j \in DOMAIN original
      BY <1>2, <2>1
    <3> QED BY <1>4, <2>1, <3>1, InputsAssumption DEF InputInv
  <2>2. CASE j > HeadLen
    <3>1. j - HeadLen \in 1 .. Len(blob) /\ Cell(j) = blob[j - HeadLen]
      BY <1>2, <1>3, <2>2 DEF WholeLen, Cell
    <3> QED BY <1>3, <3>1 DEF Plain, Foreign
  <2> QED BY <1>2, <2>1, <2>2
<1> QED BY <1>2, <1>3, <1>4, <1>5, <1>6, <1>7

\* Where the cells of a file are that starts like the whole one and has a trailer.
LEMMA CellsOfWhole ==
  ASSUME FailInv, InputInv, LayoutInv, pc # "idle", WithRoot,
         NEW file, StartsLikeWhole(file), HasTrailer(file)
  PROVE  /\ Len(file) = WholeLen /\ file[Len(file)] = Trailer
         /\ Base(file) = HeadLen /\ RootOff(file) = Len(blob) - 2 /\ Len(blob) \in Nat
         /\ \A off \in 0 .. Len(blob) - 1 : At(file, off) = blob[off + 1]
<1>1. IsSeq(file) /\ Len(file) \in 1 .. WholeLen /\ Len(file) \in Nat
  BY DEF StartsLikeWhole, HasTrailer, IsSeq
<1>2. Len(file) = WholeLen /\ file[Len(file)] = Trailer
  <2>1. file[Len(file)] = Cell(Len(file))
    BY <1>1 DEF StartsLikeWhole
  <2>2. file[Len(file)][1] \in {"MFT1", "MFP1"}
    BY DEF HasTrailer
  <2> QED BY <1>1, <2>1, <2>2, WholeCells
<1>3. Base(file) = HeadLen /\ RootOff(file) = Len(blob) - 2
  BY <1>2 DEF Base, RootOff, Trailer, HeadLen, LayoutInv
<1>4. ASSUME NEW off \in 0 .. Len(blob) - 1 PROVE At(file, off) = blob[off + 1]
  <2>1. off + 1 \in 1 .. Len(blob) /\ HeadLen + (off + 1) = HeadLen + off + 1
        /\ HeadLen + off + 1 \in 1 .. Len(file)
    BY <1>2, WholeCells DEF WholeLen
  <2>2. Cell(HeadLen + (off + 1)) = blob[off + 1]
    BY <2>1, WholeCells
  <2> QED BY <1>3, <2>1, <2>2 DEF At, StartsLikeWhole
<1>5. Len(blob) \in Nat
  BY WholeCells
<1> QED BY <1>2, <1>3, <1>4, <1>5

\* A file that starts like the whole one and has a trailer is the whole one.
LEMMA TrailerMeansWhole ==
  ASSUME FailInv, InputInv, LayoutInv, pc # "idle", WithRoot,
         NEW file, StartsLikeWhole(file), HasTrailer(file)
  PROVE  /\ Len(file) = WholeLen /\ file[Len(file)] = Trailer
         /\ Directory(file) = dir /\ WholeFile(file)
<1>2. Len(file) = WholeLen /\ file[Len(file)] = Trailer
  BY CellsOfWhole
<1>3. Base(file) = HeadLen /\ RootOff(file) = Len(blob) - 2
  BY CellsOfWhole
<1>4. \A off \in 0 .. Len(blob) - 1 : At(file, off) = blob[off + 1]
  BY CellsOfWhole
<1>5. Len(blob) \in Nat /\ Len(blob) >= 2 /\ blob[Len(blob)] = StopCell
      /\ blob[Len(blob) - 1] = <<"root", dir>>
  BY WholeCells DEF LayoutInv
<1>6. /\ At(file, RootOff(file)) = <<"root", dir>>
      /\ At(file, RootOff(file) + 1) = StopCell
  <2>1. At(file, Len(blob) - 2) = blob[(Len(blob) - 2) + 1]
        /\ At(file, Len(blob) - 1) = blob[(Len(blob) - 1) + 1]
    BY <1>4, <1>5
  <2>2. (Len(blob) - 2) + 1 = Len(blob) - 1 /\ (Len(blob) - 1) + 1 = Len(blob)
    BY <1>5
  <2> QED BY <1>3, <1>5, <2>1, <2>2
<1>7. Directory(file) = dir
  BY <1>6 DEF Directory
<1>8. Has(file, "placement") /\ Has(file, "schema")
  BY <1>7 DEF Has, LayoutInv, Lists
<1>9. ASSUME NEW n \in DOMAIN dir
      PROVE  /\ dir[n].off \in 0 .. RootOff(file) - dir[n].len
             /\ IF dir[n].kind = "schema"
                THEN /\ dir[n].len = Len(Schema(original))
                     /\ \A j \in 1 .. dir[n].len :
                          At(file, dir[n].off + j - 1) = Schema(original)[j]
                ELSE dir[n].len = 2 /\ StructAt(file, dir[n].off, dir[n].kind)
  <2> DEFINE e == dir[n]
  <2>1. Placed(e, blob, Len(blob) - 2)
    BY DEF LayoutInv, ModulesEnd
  <2>2. e.off \in Nat /\ e.len \in Nat /\ e.off + e.len <= Len(blob) - 2
    BY <2>1 DEF Placed
  <2>3. \A j \in 1 .. e.len : At(file, e.off + j - 1) = blob[e.off + j]
    <3> TAKE j \in 1 .. e.len
    <3>1. e.off + j - 1 \in 0 .. Len(blob) - 1 /\ (e.off + j - 1) + 1 = e.off + j
      BY <1>5, <2>2
    <3> QED BY <1>4, <3>1
  <2>4. CASE e.kind = "schema"
    BY <1>3, <1>5, <2>1, <2>2, <2>3, <2>4 DEF Placed
  <2>5. CASE e.kind # "schema"
    <3>1. e.len = 2 /\ blob[e.off + 1][1] = e.kind /\ blob[e.off + 2] = StopCell
      BY <2>1, <2>5 DEF Placed
    <3>2. At(file, e.off) = blob[e.off + 1] /\ At(file, e.off + 1) = blob[e.off + 2]
      BY <1>4, <1>5, <2>2, <3>1
    <3> QED BY <1>3, <1>5, <2>2, <2>5, <3>1, <3>2 DEF StructAt
  <2> QED BY <2>4, <2>5
<1>10. file[Len(file)][1] = "MFP1" =>
         /\ Base(file) = FooterStart(original)
         /\ \A j \in 1 .. Base(file) : file[j] = original[j]
  <2> SUFFICES ASSUME file[Len(file)][1] = "MFP1"
               PROVE  /\ Base(file) = FooterStart(original)
                      /\ \A j \in 1 .. Base(file) : file[j] = original[j]
    OBVIOUS
  <2>1. opts.full_file
    BY <1>2 DEF Trailer
  <2>2. \A j \in 1 .. HeadLen : j \in 1 .. Len(file)
    BY <1>2, WholeCells DEF WholeLen
  <2> QED BY <1>3, <2>1, <2>2, WholeCells DEF HeadLen, StartsLikeWhole
<1>11. Base(file) + RootOff(file) + 3 = Len(file)
  BY <1>2, <1>3, <1>5, WholeCells DEF WholeLen
<1>12. StructAt(file, RootOff(file), "root")
  BY <1>6 DEF StructAt
<1>13. WholeFile(file)
  BY <1>7, <1>8, <1>9, <1>10, <1>11, <1>12 DEF WholeFile
<1> QED BY <1>2, <1>7, <1>13

-----------------------------------------------------------------------------
(* Each step keeps it.  First the modules.                                  *)

LEMMA AppendCells ==
  ASSUME NEW s, IsSeq(s), NEW e
  PROVE  /\ IsSeq(Append(s, e)) /\ DOMAIN s = 1 .. Len(s) /\ Len(s) \in Nat
         /\ DOMAIN Append(s, e) = 1 .. Len(s) + 1
         /\ \A n \in 1 .. Len(s) : Append(s, e)[n] = s[n]
         /\ Append(s, e)[Len(s) + 1] = e
<1> DEFINE S == Range(s) \cup {e}
<1>1. s \in Seq(S)
  BY DEF IsSeq
<1> QED BY <1>1, AppendIsSeq DEF IsSeq

\* What follows does not disturb a module.
LEMMA PlacedStays ==
  ASSUME NEW s, NEW t, IsSeq(s), IsSeq(t), NEW e, NEW end \in Nat, end <= Len(s),
         Placed(e, s, end), NEW end2 \in Nat, end <= end2
  PROVE  Placed(e, s \o t, end2)
<1>1. Len(s) \in Nat /\ \A j \in 1 .. Len(s) : (s \o t)[j] = s[j]
  BY ConcatCells
<1>2. e.off \in Nat /\ e.len \in Nat /\ e.off + e.len <= end
  BY DEF Placed
<1>3. \A j \in 1 .. e.len : (s \o t)[e.off + j] = s[e.off + j]
  BY <1>1, <1>2
<1>4. CASE e.kind = "schema"
  BY <1>2, <1>3, <1>4 DEF Placed
<1>5. CASE e.kind # "schema"
  <2>1. e.len = 2
    BY <1>5 DEF Placed
  <2> QED BY <1>2, <1>3, <1>5, <2>1 DEF Placed
<1> QED BY <1>4, <1>5

PlaceSteps == LaySteps \ {"open"}

LEMMA LaidOut ==
  ASSUME LayoutInv, pc \in PlaceSteps
  PROVE  /\ found = original /\ Plain(blob) /\ IsSeq(dir) /\ IsSeq(blob) /\ Len(blob) \in Nat
         /\ \A n \in DOMAIN dir : Placed(dir[n], blob, Len(blob))
         /\ ~WithRoot /\ pc # "idle"
BY DEF LayoutInv, PlaceSteps, LaySteps, WithRoot, Writing, ModulesEnd, Plain, IsSeq

\* Cells that no entry is about.
LEMMA Grown ==
  ASSUME LayoutInv, pc \in PlaceSteps, NEW cells, Plain(cells),
         blob' = blob \o cells, dir' = dir, original' = original
  PROVE  /\ Plain(blob') /\ IsSeq(dir')
         /\ \A n \in DOMAIN dir' : Placed(dir'[n], blob', Len(blob'))
<1>1. Plain(blob \o cells) /\ Len(blob \o cells) = Len(blob) + Len(cells)
      /\ Len(blob) \in Nat /\ Len(cells) \in Nat /\ IsSeq(cells)
  BY LaidOut, PlainConcat, ConcatCells DEF Plain
<1>2. \A n \in DOMAIN dir : Placed(dir[n], blob \o cells, Len(blob \o cells))
  BY <1>1, LaidOut, PlacedStays
<1> QED BY <1>1, <1>2, LaidOut DEF Placed

\* A module and its entry.
LEMMA ModulePlaced ==
  ASSUME LayoutInv, pc \in PlaceSteps, original' = original,
         NEW kind, NEW module, Plain(module), Place(kind, module),
         IF kind = "schema" THEN module = Schema(original)
         ELSE Len(module) = 2 /\ module[1][1] = kind /\ module[2] = StopCell
  PROVE  /\ Plain(blob') /\ IsSeq(dir')
         /\ \A n \in DOMAIN dir' : Placed(dir'[n], blob', Len(blob'))
         /\ \A k : Lists(dir', k) <=> Lists(dir, k) \/ k = kind
<1> DEFINE e == [kind |-> kind, off |-> Len(blob), len |-> Len(module)]
           whole == blob \o module
<1>1. /\ Plain(whole) /\ Len(whole) = Len(blob) + Len(module)
      /\ Len(blob) \in Nat /\ Len(module) \in Nat /\ IsSeq(module)
      /\ \A j \in 1 .. Len(module) : whole[Len(blob) + j] = module[j]
  BY LaidOut, PlainConcat, ConcatCells DEF Plain
<1>2. Placed(e, whole, Len(whole))
  <2>1. CASE kind = "schema"
    BY <1>1, <2>1 DEF Placed
  <2>2. CASE kind # "schema"
    <3>1. whole[Len(blob) + 1] = module[1] /\ whole[Len(blob) + 2] = module[2]
      BY <1>1, <2>2, SMTT(30)
    <3> HIDE DEF whole
    <3> QED BY <1>1, <2>2, <3>1 DEF Placed
  <2> QED BY <2>1, <2>2
<1>3. \A n \in DOMAIN dir : Placed(dir[n], whole, Len(whole))
  BY <1>1, LaidOut, PlacedStays
<1>4. blob' = whole /\ dir' = Append(dir, e)
  BY DEF Place
<1>5. /\ IsSeq(dir') /\ DOMAIN dir = 1 .. Len(dir) /\ Len(dir) \in Nat
      /\ DOMAIN dir' = 1 .. Len(dir) + 1
      /\ \A n \in 1 .. Len(dir) : dir'[n] = dir[n]
      /\ dir'[Len(dir) + 1] = e
  BY <1>4, LaidOut, AppendCells
<1>6. \A n \in DOMAIN dir' : Placed(dir'[n], whole, Len(whole))
  BY <1>2, <1>3, <1>5
<1>7. ASSUME NEW k PROVE Lists(dir', k) <=> Lists(dir, k) \/ k = kind
  <2>1. e.kind = kind
    OBVIOUS
  <2>2. DOMAIN dir' = DOMAIN dir \cup {Len(dir) + 1}
    BY <1>5
  <2> HIDE DEF e
  <2> QED BY <1>5, <2>1, <2>2 DEF Lists
<1> QED BY <1>1, <1>4, <1>5, <1>6, <1>7

\* What is left to show of a step between two modules.
LEMMA Relaid ==
  ASSUME LayoutInv, pc \in PlaceSteps, pc' \in PlaceSteps,
         UNCHANGED <<original, opts, before>>,
         Plain(blob'), IsSeq(dir'), \A n \in DOMAIN dir' : Placed(dir'[n], blob', Len(blob')),
         pc' \in {"schema", "root"} => Lists(dir', "placement"),
         pc' = "root" => Lists(dir', "schema"),
         Lists(dir', "schema_index") <=>
           /\ pc' \in {"row_group_statistics", "placement", "schema", "root"}
           /\ opts.schema_index /\ HasSchemaIndex(original)
  PROVE  LayoutInv'
<1>1. ~WithRoot' /\ ModulesEnd' = Len(blob')
  BY DEF PlaceSteps, LaySteps, WithRoot, Writing, ModulesEnd
<1>2. found' = original'
  BY LaidOut DEF found
<1>3. \A n \in DOMAIN dir' : Placed(dir[n], blob, ModulesEnd)'
  BY <1>1 DEF Placed
<1>4. IndexDone' <=> pc' \in {"row_group_statistics", "placement", "schema", "root"}
  BY <1>1 DEF IndexDone
<1> QED BY <1>1, <1>2, <1>3, <1>4 DEF LayoutInv

\* What the directory lists at a step between two modules.
LEMMA ListedSoFar ==
  ASSUME LayoutInv, pc \in PlaceSteps
  PROVE  /\ pc \in {"schema", "root"} => Lists(dir, "placement")
         /\ pc = "root" => Lists(dir, "schema")
         /\ Lists(dir, "schema_index") <=>
              /\ pc \in {"row_group_statistics", "placement", "schema", "root"}
              /\ opts.schema_index /\ HasSchemaIndex(original)
BY LaidOut DEF LayoutInv, IndexDone

LEMMA PlainPart ==
  ASSUME NEW kind \in PartKinds, NEW file, NEW i, NEW limit
  PROVE  Plain(Part(file, kind, i, limit))
<1>1. Plain(<<>>)
  BY EmptyIsSeq DEF Plain
<1>2. CASE kind = "row_group_statistics"
  BY <1>1, <1>2, PlainStruct DEF Part, Foreign
<1>3. CASE kind # "row_group_statistics"
  <2>1. \A r : Plain(PageDescriptor(file, kind, r, limit))
    BY PlainStruct DEF PageDescriptor, Foreign
  <2> QED BY <1>1, <1>3, <2>1 DEF Part
<1> QED BY <1>2, <1>3

LEMMA PartsLaid ==
  ASSUME LayoutInv, NEW kind \in PartKinds, SkipParts(kind) \/ PlacePart(kind) \/ EndParts(kind)
  PROVE  LayoutInv'
<1>1. /\ pc = kind /\ pc' \in {kind, After[kind]} /\ UNCHANGED <<original, opts, before>>
      /\ kind \in PlaceSteps /\ After[kind] \in PlaceSteps
  BY DEF SkipParts, PlacePart, EndParts, Goto, PartKinds, After, PlaceSteps, LaySteps
<1>2. /\ After[kind] \notin {"schema", "root"}
      /\ kind \in {"row_group_statistics", "placement", "schema", "root"} <=>
           After[kind] \in {"row_group_statistics", "placement", "schema", "root"}
      /\ kind \notin {"schema", "root", "schema_index"} \cup Foreign
  BY DEF PartKinds, After, Foreign
<1>3. CASE SkipParts(kind)
  <2>1. blob' = blob /\ dir' = dir
    BY <1>3 DEF SkipParts, layoutVars
  <2> QED BY <1>1, <1>2, <2>1, LaidOut, ListedSoFar, Relaid DEF Placed
<1>4. CASE PlacePart(kind)
  <2>1. /\ blob' = blob \o Part(found, kind, Len(offsets), opts.limit) /\ dir' = dir
    BY <1>4 DEF PlacePart
  <2>2. /\ Plain(blob') /\ IsSeq(dir')
        /\ \A n \in DOMAIN dir' : Placed(dir'[n], blob', Len(blob'))
    BY <1>1, <2>1, PlainPart, Grown
  <2> QED BY <1>1, <1>2, <2>1, <2>2, ListedSoFar, Relaid
<1>5. CASE EndParts(kind)
  <2> DEFINE module == Struct(kind, Append(offsets, Len(blob)))
  <2>1. Place(kind, module)
    BY <1>5 DEF EndParts
  <2>2. Plain(module) /\ Len(module) = 2 /\ module[1][1] = kind /\ module[2] = StopCell
    BY <1>2, PlainStruct
  <2> HIDE DEF module
  <2>3. /\ Plain(blob') /\ IsSeq(dir')
        /\ \A n \in DOMAIN dir' : Placed(dir'[n], blob', Len(blob'))
        /\ \A k : Lists(dir', k) <=> Lists(dir, k) \/ k = kind
    BY <1>1, <1>2, <2>1, <2>2, ModulePlaced
  <2> QED BY <1>1, <1>2, <2>3, ListedSoFar, Relaid
<1> QED BY <1>3, <1>4, <1>5

LEMMA OthersLaid ==
  ASSUME LayoutInv,
         PlaceMetadata \/ PlaceSchemaIndex \/ PlacePlacement \/ PlaceSchema,
         Plain(Schema(original))
  PROVE  LayoutInv'
<1>1. UNCHANGED <<original, opts, before>>
  BY DEF PlaceMetadata, PlaceSchemaIndex, PlacePlacement, PlaceSchema, Goto
<1>2. ASSUME NEW kind, NEW module, kind # "schema",
             PlaceIf(TRUE, kind, module), pc \in PlaceSteps,
             Plain(module), Len(module) = 2, module[1][1] = kind, module[2] = StopCell
      PROVE  /\ Plain(blob') /\ IsSeq(dir')
             /\ \A n \in DOMAIN dir' : Placed(dir'[n], blob', Len(blob'))
             /\ \A k : Lists(dir', k) <=> Lists(dir, k) \/ k = kind
  BY <1>1, <1>2, ModulePlaced DEF PlaceIf
<1>3. ASSUME pc \in PlaceSteps, blob' = blob, dir' = dir
      PROVE  /\ Plain(blob') /\ IsSeq(dir')
             /\ \A n \in DOMAIN dir' : Placed(dir'[n], blob', Len(blob'))
  BY <1>1, <1>3, LaidOut DEF Placed
<1>4. CASE PlaceMetadata
  <2>1. pc = "file_metadata" /\ pc' = "schema_index" /\ pc \in PlaceSteps /\ pc' \in PlaceSteps
    BY <1>4 DEF PlaceMetadata, Goto, PlaceSteps, LaySteps
  <2>2. CASE FileMeta(found).metadata
    <3> DEFINE module == Struct("file_metadata", 0)
    <3>1. PlaceIf(TRUE, "file_metadata", module)
      BY <1>4, <2>2 DEF PlaceMetadata, PlaceIf
    <3>2. Plain(module) /\ Len(module) = 2 /\ module[1][1] = "file_metadata"
          /\ module[2] = StopCell
      BY PlainStruct DEF Foreign
    <3> HIDE DEF module
    <3> QED BY <1>1, <1>2, <2>1, <3>1, <3>2, ListedSoFar, Relaid
  <2>3. CASE ~FileMeta(found).metadata
    BY <1>1, <1>3, <1>4, <2>1, <2>3, ListedSoFar, Relaid DEF PlaceMetadata, PlaceIf
  <2> QED BY <2>2, <2>3
<1>5. CASE PlaceSchemaIndex
  <2>1. pc = "schema_index" /\ pc' = "row_group_statistics" /\ pc \in PlaceSteps
        /\ pc' \in PlaceSteps /\ found = original
    BY <1>5, LaidOut DEF PlaceSchemaIndex, Goto, PlaceSteps, LaySteps
  <2>2. CASE opts.schema_index /\ HasSchemaIndex(found)
    <3> DEFINE module == Struct("schema_index", ElementOffsets(found))
    <3>1. PlaceIf(TRUE, "schema_index", module)
      BY <1>5, <2>2 DEF PlaceSchemaIndex, PlaceIf
    <3>2. Plain(module) /\ Len(module) = 2 /\ module[1][1] = "schema_index"
          /\ module[2] = StopCell
      BY PlainStruct DEF Foreign
    <3> HIDE DEF module
    <3> QED BY <1>1, <1>2, <2>1, <2>2, <3>1, <3>2, ListedSoFar, Relaid
  <2>3. CASE ~(opts.schema_index /\ HasSchemaIndex(found))
    <3>1. blob' = blob /\ dir' = dir
      BY <1>5, <2>3 DEF PlaceSchemaIndex, PlaceIf
    <3> QED BY <1>1, <1>3, <2>1, <2>3, <3>1, ListedSoFar, Relaid
  <2> QED BY <2>2, <2>3
<1>6. CASE PlacePlacement
  <2>1. pc = "placement" /\ pc' = "schema" /\ pc \in PlaceSteps /\ pc' \in PlaceSteps
    BY <1>6 DEF PlacePlacement, Goto, PlaceSteps, LaySteps
  <2> DEFINE module == Struct("placement", place)
  <2>2. PlaceIf(TRUE, "placement", module)
    BY <1>6 DEF PlacePlacement
  <2>3. Plain(module) /\ Len(module) = 2 /\ module[1][1] = "placement" /\ module[2] = StopCell
    BY PlainStruct DEF Foreign
  <2> HIDE DEF module
  <2> QED BY <1>1, <1>2, <2>1, <2>2, <2>3, ListedSoFar, Relaid
<1>7. CASE PlaceSchema
  <2>1. pc = "schema" /\ pc' = "root" /\ pc \in PlaceSteps /\ pc' \in PlaceSteps
        /\ found = original
    BY <1>7, LaidOut DEF PlaceSchema, Goto, PlaceSteps, LaySteps
  <2>2. Place("schema", Schema(original))
    BY <1>7, <2>1 DEF PlaceSchema, PlaceIf
  <2>3. /\ Plain(blob') /\ IsSeq(dir')
        /\ \A n \in DOMAIN dir' : Placed(dir'[n], blob', Len(blob'))
        /\ \A k : Lists(dir', k) <=> Lists(dir, k) \/ k = "schema"
    BY <1>1, <2>1, <2>2, ModulePlaced
  <2> QED BY <1>1, <2>1, <2>3, ListedSoFar, Relaid
<1> QED BY <1>4, <1>5, <1>6, <1>7

\* A struct at the end.
LEMMA ConcatAt ==
  ASSUME NEW s, NEW t, IsSeq(s), IsSeq(t), NEW j \in 1 .. Len(t)
  PROVE  (s \o t)[Len(s) + j] = t[j]
BY ConcatCells

LEMMA StructAppended ==
  ASSUME NEW s, Plain(s), NEW t, Plain(t), Len(t) = 2
  PROVE  /\ Plain(s \o t) /\ Len(s \o t) = Len(s) + 2 /\ Len(s) \in Nat
         /\ (s \o t)[Len(s) + 1] = t[1] /\ (s \o t)[Len(s) + 2] = t[2]
<1>1. IsSeq(s) /\ IsSeq(t)
  BY DEF Plain
<1>2. Len(s \o t) = Len(s) + Len(t) /\ Len(s) \in Nat
  BY <1>1, ConcatCells
<1>3. (s \o t)[Len(s) + 1] = t[1] /\ (s \o t)[Len(s) + 2] = t[2]
  <2>1. 1 \in 1 .. Len(t) /\ 2 \in 1 .. Len(t)
    OBVIOUS
  <2> QED BY <1>1, <2>1, ConcatAt
<1>4. Plain(s \o t)
  BY PlainConcat
<1> QED BY <1>2, <1>3, <1>4

LEMMA RootLaid == ASSUME LayoutInv, PlaceRoot PROVE LayoutInv'
<1>1. /\ pc = "root" /\ pc' = "open" /\ UNCHANGED <<original, opts, before, dir>>
      /\ blob' = blob \o Struct("root", dir) /\ pc \in PlaceSteps
  BY DEF PlaceRoot, Goto, PlaceSteps, LaySteps
<1>2. /\ Plain(Struct("root", dir)) /\ Len(Struct("root", dir)) = 2
      /\ IsSeq(Struct("root", dir)) /\ Struct("root", dir)[2] = StopCell
      /\ Struct("root", dir)[1] = <<"root", dir>>
  BY PlainStruct DEF Foreign, Plain, Struct
<1>3. /\ found = original /\ Plain(blob) /\ IsSeq(blob) /\ IsSeq(dir) /\ Len(blob) \in Nat
      /\ \A n \in DOMAIN dir : Placed(dir[n], blob, Len(blob))
  BY <1>1, LaidOut
<1>4. /\ Plain(blob') /\ Len(blob') = Len(blob) + 2
      /\ blob'[Len(blob) + 1] = <<"root", dir>> /\ blob'[Len(blob) + 2] = StopCell
  <2> DEFINE module == Struct("root", dir)
  <2>1. Plain(blob) /\ Plain(module) /\ Len(module) = 2
    BY <1>2, <1>3
  <2> HIDE DEF module
  <2>2. /\ Plain(blob \o module) /\ Len(blob \o module) = Len(blob) + 2
        /\ (blob \o module)[Len(blob) + 1] = module[1]
        /\ (blob \o module)[Len(blob) + 2] = module[2]
    BY <2>1, StructAppended, Zenon
  <2> QED BY <1>1, <1>2, <2>2 DEF module
<1>5. WithRoot' /\ ModulesEnd' = Len(blob) /\ IndexDone'
  BY <1>1, <1>3, <1>4 DEF WithRoot, ModulesEnd, IndexDone
<1>6. \A n \in DOMAIN dir : Placed(dir[n], blob', Len(blob))
  BY <1>1, <1>2, <1>3, PlacedStays
<1>7. \A n \in DOMAIN dir' : Placed(dir[n], blob, ModulesEnd)'
  BY <1>1, <1>5, <1>6 DEF Placed
<1>8. Len(blob') - 1 = Len(blob) + 1 /\ Len(blob') >= 2
  BY <1>3, <1>4
<1>9. found' = original'
  BY <1>1, <1>3 DEF found
<1> QED BY <1>1, <1>2, <1>4, <1>5, <1>7, <1>8, <1>9, ListedSoFar DEF LayoutInv

LEMMA LayLaid == ASSUME FailInv, InputInv, LayoutInv, Lay PROVE LayoutInv'
<1>1. Plain(Schema(original))
  <2>1. pc # "idle"
    BY LayShape DEF LaySteps
  <2> QED BY <2>1, PlainSchema DEF FailInv, FilesInv, LayoutInv, InputInv
<1>2. ASSUME pc = "chunks", pc' \in {"chunks", "offset_index"},
             UNCHANGED <<original, opts, before, blob, dir>>
      PROVE  LayoutInv'
  <2>1. pc \in PlaceSteps /\ pc' \in PlaceSteps
    BY <1>2 DEF PlaceSteps, LaySteps
  <2> QED BY <1>2, <2>1, LaidOut, ListedSoFar, Relaid DEF Placed
<1>3. CASE AddChunk
  BY <1>2, <1>3 DEF AddChunk, Goto
<1>4. CASE EndChunks
  BY <1>2, <1>4 DEF EndChunks, Goto, layoutVars
<1>5. CASE Ragged
  BY <1>5 DEF Ragged, LayoutInv
<1> QED BY <1>1, <1>3, <1>4, <1>5, PartsLaid, OthersLaid, RootLaid DEF Lay

-----------------------------------------------------------------------------
(* Then the output.                                                         *)

LEMMA NoTrailerYet == Init => \A path \in DOMAIN disk : ~HasTrailer(disk[path])
<1> SUFFICES ASSUME Init, NEW path \in DOMAIN disk PROVE ~HasTrailer(disk[path])
  OBVIOUS
<1>1. original \in Inputs /\ disk = [input |-> original, output |-> <<>>]
  BY DEF Init
<1>2. CASE path = "input"
  <2>1. original \in Seq(Range(original))
    BY <1>1, InputsAssumption
  <2>2. ASSUME original # <<>> PROVE Len(original) \in DOMAIN original
    BY <2>1, <2>2
  <2> QED BY <1>1, <1>2, <2>2, InputsAssumption DEF HasTrailer
<1>3. CASE path = "output"
  BY <1>1, <1>3 DEF HasTrailer
<1> QED BY <1>1, <1>2, <1>3

LEMMA InitWhole == Init => WholeInv
<1> SUFFICES ASSUME Init PROVE WholeInv
  OBVIOUS
<1>1. FailInv
  BY InitFails
<1>2. original \in Inputs /\ pc = "idle" /\ result = "none" /\ ~Writing
      /\ disk = [input |-> original, output |-> <<>>]
  BY DEF Init, Writing
<1>3. AcceptedIsWhole
  BY NoTrailerYet DEF AcceptedIsWhole
<1> QED BY <1>1, <1>2, <1>3 DEF WholeInv, InputInv, LayoutInv, StreamInv, WroteUnlessFull

LEMMA StartWhole == ASSUME WholeInv, Start PROVE WholeInv'
<1>1. FailInv'
  BY StartFails DEF WholeInv
<1>2. /\ disk' = disk /\ before' = disk /\ original' = original /\ blob' = <<>> /\ dir' = <<>>
      /\ pc' \in {"idle", "chunks"} /\ result' \in {"none", "error"}
      /\ (pc' # "idle" => ~Refused(disk["input"], opts'))
  BY DEF Start
<1>3. InputInv' /\ AcceptedIsWhole'
  BY <1>2 DEF WholeInv, InputInv, AcceptedIsWhole, WholeFile, Schema, SchemaSpan, HasSchema
<1>4. ~WithRoot' /\ ~Writing' /\ ~IndexDone'
  BY <1>2 DEF WithRoot, Writing, IndexDone
<1>5. LayoutInv'
  <2> SUFFICES ASSUME pc' # "idle" PROVE LayoutInv'
    BY DEF LayoutInv
  <2>1. disk["input"] = original
    <3>1. disk["input"] # <<>>
      BY <1>2 DEF Refused
    <3>2. disk["input"][Len(disk["input"])] = Magic
      BY <1>2 DEF Refused
    <3> QED BY <3>1, <3>2 DEF WholeInv, InputInv
  <2>2. found' = original'
    BY <1>2, <2>1 DEF found
  <2>3. Plain(<<>>) /\ IsSeq(<<>>)
    BY EmptyIsSeq DEF Plain
  <2>4. pc' \notin {"schema", "root"} /\ \A kind : ~Lists(<<>>, kind)
    BY <1>2 DEF Lists
  <2> QED BY <1>2, <1>4, <2>2, <2>3, <2>4 DEF LayoutInv
<1> QED BY <1>1, <1>2, <1>3, <1>4, <1>5 DEF WholeInv, StreamInv, WroteUnlessFull

LEMMA LayWhole == ASSUME WholeInv, Lay PROVE WholeInv'
<1>1. FailInv' /\ LayoutInv'
  BY LayFails, LayLaid DEF WholeInv
<1>2. UNCHANGED <<original, disk>> /\ ~Writing' /\ (pc' = "idle" => result' = "error")
  BY LayShape DEF LaySteps, Writing
<1>3. InputInv' /\ AcceptedIsWhole'
  BY <1>2 DEF WholeInv, InputInv, AcceptedIsWhole, WholeFile, Schema, SchemaSpan, HasSchema
<1> QED BY <1>1, <1>2, <1>3 DEF WholeInv, StreamInv, WroteUnlessFull

\* From the opened output on the modules do not change any more.
LEMMA LayoutStays ==
  ASSUME LayoutInv, WithRoot, pc # "idle", WithRoot' \/ pc' = "idle",
         UNCHANGED <<original, opts, before, layoutVars>>
  PROVE  /\ LayoutInv' /\ HeadLen' = HeadLen /\ WholeLen' = WholeLen /\ Trailer' = Trailer
         /\ \A file : StartsLikeWhole(file)' <=> StartsLikeWhole(file)
<1>1. found' = found /\ blob' = blob /\ dir' = dir
  BY DEF found, layoutVars
<1>2. HeadLen' = HeadLen /\ WholeLen' = WholeLen /\ Trailer' = Trailer
  BY <1>1 DEF HeadLen, WholeLen, Trailer
<1>3. ASSUME NEW j PROVE Cell(j)' = Cell(j)
  BY <1>1, <1>2 DEF Cell
<1>4. ASSUME NEW file PROVE StartsLikeWhole(file)' <=> StartsLikeWhole(file)
  BY <1>2, <1>3 DEF StartsLikeWhole
<1>5. LayoutInv'
  <2>1. CASE pc' = "idle"
    BY <2>1 DEF LayoutInv
  <2>2. CASE WithRoot'
    <3>1. ModulesEnd' = ModulesEnd /\ IndexDone' /\ IndexDone
      BY <1>1, <2>2 DEF ModulesEnd, IndexDone
    <3>2. \A n \in DOMAIN dir' : Placed(dir[n], blob, ModulesEnd)'
      BY <1>1, <3>1 DEF LayoutInv, Placed
    <3> QED BY <1>1, <2>2, <3>1, <3>2 DEF LayoutInv
  <2> QED BY <2>1, <2>2
<1> QED BY <1>2, <1>4, <1>5

LEMMA StillWhole ==
  ASSUME original' = original, NEW path, disk'[path] = disk[path], WholeFile(disk[path])
  PROVE  WholeFile(disk[path])'
BY DEF WholeFile, Schema, SchemaSpan, HasSchema

LEMMA NowWhole ==
  ASSUME original' = original, NEW path, NEW file, disk'[path] = file, WholeFile(file)
  PROVE  WholeFile(disk[path])'
BY DEF WholeFile, Schema, SchemaSpan, HasSchema

\* A step that leaves the files alone.
LEMMA FilesAlone ==
  ASSUME WholeInv, UNCHANGED <<original, disk>>
  PROVE  InputInv' /\ AcceptedIsWhole'
BY DEF WholeInv, InputInv, AcceptedIsWhole, WholeFile, Schema, SchemaSpan, HasSchema

LEMMA OpenOutWhole == ASSUME WholeInv, OpenOut PROVE WholeInv'
<1>1. FailInv'
  BY OpenOutFails DEF WholeInv
<1>2. /\ pc = "open" /\ pc' = IF opts.full_file THEN "copy" ELSE "blob"
      /\ disk' = [disk EXCEPT ![opts.out] = <<>>]
      /\ UNCHANGED <<original, opts, before, layoutVars, stream, copied, bad>>
      /\ stream = <<>> /\ copied = 0 /\ WithRoot /\ WithRoot' /\ pc # "idle" /\ pc' # "idle"
  BY DEF OpenOut, streamVars, WholeInv, FailInv, BeforeOpen, Writing, WithRoot
<1>3. opts.out \in Paths /\ AreFiles(disk) /\ DOMAIN disk = Paths
  BY OptionsAssumption DEF Paths, WholeInv, FailInv, FilesInv, AreFiles
<1>4. disk'[opts.out] = <<>> /\ DOMAIN disk' = Paths
      /\ \A path \in Paths : path # opts.out => disk'[path] = disk[path]
  BY <1>2, <1>3
<1>5. InputInv'
  BY <1>2, <1>3, <1>4 DEF WholeInv, InputInv, Paths
<1>6. AcceptedIsWhole'
  <2>1. ASSUME NEW path \in Paths, HasTrailer(disk'[path]) PROVE WholeFile(disk[path])'
    <3>1. path # opts.out
      BY <1>4, <2>1 DEF HasTrailer
    <3>2. disk'[path] = disk[path]
      BY <1>4, <3>1
    <3>3. WholeFile(disk[path])
      BY <1>3, <2>1, <3>2 DEF WholeInv, AcceptedIsWhole
    <3> QED BY <1>2, <3>2, <3>3, StillWhole
  <2> QED BY <1>4, <2>1 DEF AcceptedIsWhole
<1>7. LayoutInv' /\ HeadLen' = HeadLen /\ WholeLen' = WholeLen
  BY <1>2, LayoutStays DEF WholeInv
<1>8. StreamInv'
  <2>1. WholeLen \in Nat /\ WholeLen >= 1
    BY <1>2, WholeCells DEF WholeInv, WholeLen
  <2>2. Len(<<>>) = 0 /\ IsSeq(<<>>)
    BY EmptyIsSeq
  <2>3. StartsLikeWhole(<<>>)'
    BY <1>7, <2>1, <2>2 DEF StartsLikeWhole
  <2>4. pc' = "blob" => HeadLen' = 0
    BY <1>2 DEF HeadLen
  <2>5. pc' \in {"copy", "blob"}
    BY <1>2
  <2> QED BY <1>2, <1>4, <1>7, <2>1, <2>2, <2>3, <2>4, <2>5 DEF StreamInv
<1> QED BY <1>1, <1>2, <1>5, <1>6, <1>7, <1>8 DEF WholeInv, WroteUnlessFull

\* What a write of the next cells does to the stream.
LEMMA StreamGrows ==
  ASSUME WholeInv, Writing, ~bad, NEW cells, IsSeq(cells),
         Len(stream) + Len(cells) <= WholeLen,
         \A j \in 1 .. Len(cells) : cells[j] = Cell(Len(stream) + j)
  PROVE  /\ StartsLikeWhole(stream \o cells)
         /\ Len(stream \o cells) = Len(stream) + Len(cells)
         /\ Len(stream) \in Nat /\ Len(cells) \in Nat
<1>1. StartsLikeWhole(stream) /\ IsSeq(stream)
  BY DEF WholeInv, StreamInv, StartsLikeWhole
<1>2. /\ IsSeq(stream \o cells) /\ Len(stream \o cells) = Len(stream) + Len(cells)
      /\ Len(stream) \in Nat /\ Len(cells) \in Nat
  BY <1>1, ConcatCells
<1>3. ASSUME NEW j \in 1 .. Len(stream) PROVE (stream \o cells)[j] = Cell(j)
  BY <1>1, ConcatCells DEF StartsLikeWhole
<1>4. ASSUME NEW j \in Len(stream) + 1 .. Len(stream) + Len(cells)
      PROVE  (stream \o cells)[j] = Cell(j)
  <2>1. j - Len(stream) \in 1 .. Len(cells) /\ Len(stream) + (j - Len(stream)) = j
    BY <1>2
  <2>2. (stream \o cells)[j] = cells[j - Len(stream)]
    BY <1>1, ConcatCells
  <2> QED BY <2>1, <2>2
<1> QED BY <1>2, <1>3, <1>4 DEF StartsLikeWhole

\* Steps of the stream alone.
LEMMA StreamStep ==
  ASSUME WholeInv, FailInv', Writing, Writing',
         UNCHANGED <<original, disk, opts, before, layoutVars, bad>>,
         StartsLikeWhole(stream'), Len(stream) <= Len(stream'),
         ~bad => /\ pc' = "copy" => Len(stream') = copied'
                 /\ pc' = "blob" => Len(stream') = HeadLen
                 /\ pc' = "trailer" => Len(stream') = HeadLen + Len(blob)
                 /\ pc' = "close" /\ result' # "error" => Len(stream') = WholeLen
  PROVE  WholeInv'
<1>1. WithRoot /\ WithRoot' /\ pc # "idle" /\ pc' # "idle"
  BY DEF WithRoot, Writing
<1>2. /\ LayoutInv' /\ HeadLen' = HeadLen /\ WholeLen' = WholeLen
      /\ \A file : StartsLikeWhole(file)' <=> StartsLikeWhole(file)
  BY <1>1, LayoutStays DEF WholeInv
<1>3. InputInv' /\ AcceptedIsWhole'
  BY FilesAlone
<1>4. StreamInv'
  <2>1. StartsLikeWhole(stream)' /\ StartsLikeWhole(disk[opts.out])'
    BY <1>2 DEF WholeInv, StreamInv, StartsLikeWhole, Cell, found, HeadLen, Trailer, layoutVars
  <2>2. Len(disk'[opts.out]) <= Len(stream')
    BY DEF WholeInv, StreamInv, StartsLikeWhole, IsSeq
  <2>3. bad => Len(disk'[opts.out]) < WholeLen
    BY DEF WholeInv, StreamInv
  <2>4. blob' = blob
    BY DEF layoutVars
  <2> QED BY <1>2, <2>1, <2>2, <2>3, <2>4 DEF StreamInv
<1> QED BY <1>1, <1>2, <1>3, <1>4 DEF WholeInv, WroteUnlessFull

LEMMA WriteWhole ==
  ASSUME WholeInv, CopyPrefix \/ ShortRead \/ EndCopy \/ WriteBlob \/ WriteTrailer
  PROVE  WholeInv'
<1>1. FailInv' /\ FailInv /\ InputInv /\ LayoutInv /\ StreamInv
  BY CopyFails, WriteFails DEF WholeInv
<1>2. /\ Writing /\ Writing' /\ WithRoot /\ pc # "idle" /\ opts \in Options /\ opts.out \in Paths
      /\ UNCHANGED <<original, disk, opts, before, layoutVars, bad>>
  BY <1>1, OptionsAssumption
     DEF CopyPrefix, ShortRead, EndCopy, WriteBlob, WriteTrailer, Goto, Writing, WithRoot,
         FailInv, FilesInv, Paths, streamVars
<1>3. /\ HeadLen \in 0 .. Len(original) /\ Len(original) \in Nat /\ Len(blob) \in Nat
      /\ Cell(WholeLen) = Trailer
      /\ \A j \in 1 .. Len(blob) : Cell(HeadLen + j) = blob[j]
      /\ \A j \in 1 .. HeadLen : Cell(j) = original[j]
  BY <1>1, <1>2, WholeCells
<1>4. StartsLikeWhole(stream) /\ IsSeq(stream) /\ Len(stream) \in Nat
  BY <1>1, <1>2 DEF StreamInv, StartsLikeWhole, IsSeq
<1>5. CASE CopyPrefix
  <2> DEFINE cells == SubSeq(disk["input"], copied + 1, copied + NextCount)
  <2>0. Write(cells)
    BY <1>5 DEF CopyPrefix
  <2>1. pc = "copy" /\ pc' = "copy" /\ copied' = copied + NextCount /\ copied < FooterStart(found)
        /\ copied + NextCount <= Len(disk["input"])
    BY <1>5 DEF CopyPrefix
  <2>2. /\ opts.full_file /\ found = original /\ HeadLen = FooterStart(found)
        /\ copied \in 0 .. HeadLen /\ copied < HeadLen
    BY <1>1, <1>2, <2>1 DEF FailInv, CopyInv, LayoutInv, HeadLen
  <2>3. NextCount \in 0 .. HeadLen - copied /\ NextCount >= 1
    BY <1>3, <2>1, <2>2, CopyBufferAssumption DEF NextCount
  <2>4. disk["input"] = original
    <3>1. CASE opts.out = "output"
      BY <1>1, <1>2, <2>2, <3>1 DEF FailInv, CopyInv
    <3>2. CASE opts.out = "input"
      <4>1. disk = [before EXCEPT !["input"] = <<>>] /\ copied = 0
        BY <1>1, <1>2, <2>2, <3>2 DEF FailInv, TruncatedInput
      <4>2. disk["input"] = <<>>
        BY <1>1, <4>1 DEF FailInv, FilesInv, AreFiles, Paths
      <4>3. Len(disk["input"]) = 0
        BY <4>2
      <4> QED BY <2>1, <2>3, <4>1, <4>3
    <3> QED BY <1>2, <3>1, <3>2 DEF Paths
  <2>5. CASE bad
    <3>1. stream' = stream
      BY <2>0, <2>5 DEF Write
    <3> QED BY <1>1, <1>2, <1>4, <2>1, <2>5, <3>1, StreamStep
  <2>6. CASE ~bad
    <3>1. original \in Seq(Range(original))
      BY <1>1, InputsAssumption DEF InputInv
    <3>2. /\ IsSeq(cells) /\ Len(cells) = NextCount
          /\ \A j \in 1 .. NextCount : cells[j] = original[copied + j]
      <4>1. cells \in Seq(Range(original)) /\ Len(cells) = NextCount
        BY <1>3, <2>2, <2>3, <2>4, <3>1
      <4>2. \A j \in 1 .. NextCount : cells[j] = original[copied + j]
        BY <1>3, <2>2, <2>3, <2>4, <3>1
      <4> QED BY <4>1, <4>2, SeqOverRange
    <3>3. Len(stream) = copied
      BY <1>1, <1>2, <2>1, <2>6 DEF StreamInv
    <3> HIDE DEF cells
    <3>4. \A j \in 1 .. NextCount : cells[j] = Cell(copied + j)
      <4> TAKE j \in 1 .. NextCount
      <4>1. copied + j \in 1 .. HeadLen
        BY <1>3, <2>2, <2>3
      <4> QED BY <1>3, <3>2, <4>1
    <3>5. StartsLikeWhole(stream \o cells) /\ Len(stream \o cells) = copied + NextCount
      <4>1. Len(stream) + Len(cells) <= WholeLen
        BY <1>3, <2>2, <2>3, <3>2, <3>3 DEF WholeLen
      <4> QED BY <1>2, <2>6, <3>2, <3>3, <3>4, <4>1, StreamGrows
    <3>6. stream' = stream \o cells /\ Len(stream) <= Len(stream')
      <4>1. stream' = stream \o cells
        BY <2>0, <2>6 DEF Write
      <4> QED BY <2>2, <2>3, <3>3, <3>5, <4>1
    <3> QED BY <1>1, <1>2, <2>1, <2>6, <3>5, <3>6, StreamStep
  <2> QED BY <2>5, <2>6
<1>6. CASE ShortRead
  <2>1. pc' = "close" /\ result' = "error" /\ stream' = stream
    BY <1>6 DEF ShortRead, streamVars
  <2> QED BY <1>1, <1>2, <1>4, <2>1, StreamStep
<1>7. CASE EndCopy
  <2>1. pc = "copy" /\ pc' = "blob" /\ stream' = stream /\ copied = FooterStart(found)
    BY <1>7 DEF EndCopy, Goto, streamVars
  <2>2. opts.full_file /\ found = original
    BY <1>1, <1>2, <2>1 DEF FailInv, CopyInv, LayoutInv
  <2>3. ~bad => Len(stream) = HeadLen
    BY <1>1, <1>2, <2>1, <2>2 DEF StreamInv, HeadLen
  <2> QED BY <1>1, <1>2, <1>4, <2>1, <2>3, StreamStep
<1>8. CASE WriteBlob
  <2>1. pc = "blob" /\ pc' = "trailer" /\ stream' = IF bad THEN stream ELSE stream \o blob
    BY <1>8 DEF WriteBlob, Write
  <2>2. CASE bad
    BY <1>1, <1>2, <1>4, <2>1, <2>2, StreamStep
  <2>3. CASE ~bad
    <3>1. Len(stream) = HeadLen /\ IsSeq(blob)
      BY <1>1, <1>2, <2>1, <2>3 DEF StreamInv, LayoutInv, Plain
    <3>2. Len(stream) + Len(blob) <= WholeLen
      BY <1>3, <3>1 DEF WholeLen
    <3>3. StartsLikeWhole(stream \o blob) /\ Len(stream \o blob) = HeadLen + Len(blob)
      BY <1>2, <1>3, <2>3, <3>1, <3>2, StreamGrows
    <3>4. stream' = stream \o blob /\ Len(stream) <= Len(stream')
      BY <1>3, <2>1, <2>3, <3>1, <3>3
    <3> QED BY <1>1, <1>2, <2>1, <2>3, <3>3, <3>4, StreamStep
  <2> QED BY <2>2, <2>3
<1>9. CASE WriteTrailer
  <2> DEFINE cells == <<Trailer>>
  <2>1. pc = "trailer" /\ pc' = "close" /\ stream' = IF bad THEN stream ELSE stream \o cells
    BY <1>9 DEF WriteTrailer, Write
  <2>2. CASE bad
    BY <1>1, <1>2, <1>4, <2>1, <2>2, StreamStep
  <2>3. CASE ~bad
    <3>1. Len(stream) = HeadLen + Len(blob)
      BY <1>1, <1>2, <2>1, <2>3 DEF StreamInv
    <3>2. cells \in Seq({Trailer}) /\ Len(cells) = 1 /\ cells[1] = Trailer
      OBVIOUS
    <3>3. IsSeq(cells)
      BY <3>2, SeqOverRange
    <3> HIDE DEF cells
    <3>4. Len(stream) + Len(cells) = WholeLen
      BY <1>3, <3>1, <3>2 DEF WholeLen
    <3>5. StartsLikeWhole(stream \o cells) /\ Len(stream \o cells) = WholeLen
      <4>1. \A j \in 1 .. Len(cells) : cells[j] = Cell(Len(stream) + j)
        BY <1>3, <3>2, <3>4
      <4> QED BY <1>2, <1>3, <2>3, <3>3, <3>4, <4>1, StreamGrows DEF WholeLen
    <3>6. stream' = stream \o cells /\ Len(stream) <= Len(stream')
      BY <1>3, <2>1, <2>3, <3>1, <3>5 DEF WholeLen
    <3> QED BY <1>1, <1>2, <2>1, <2>3, <3>5, <3>6, StreamStep
  <2> QED BY <2>2, <2>3
<1> QED BY <1>5, <1>6, <1>7, <1>8, <1>9

LEMMA FlushWhole == ASSUME WholeInv, Flush PROVE WholeInv'
<1>1. FailInv' /\ FailInv /\ InputInv /\ LayoutInv /\ StreamInv
  BY FlushFails DEF WholeInv
<1>2. /\ Writing /\ Writing' /\ WithRoot /\ WithRoot' /\ pc # "idle" /\ pc' # "idle" /\ ~bad
      /\ opts \in Options /\ opts.out \in Paths
      /\ UNCHANGED <<original, opts, before, layoutVars, stream, bad, copied, pc, result>>
  BY <1>1, OptionsAssumption DEF Flush, Writing, WithRoot, FailInv, FilesInv, Paths, streamVars
<1> DEFINE old == disk[opts.out]
<1>3. /\ disk' = [disk EXCEPT ![opts.out] = Append(old, stream[Len(old) + 1])]
      /\ Len(old) < Len(stream)
  BY DEF Flush, Pending
<1>4. disk = [path \in Paths |-> disk[path]]
  BY <1>1 DEF FailInv, FilesInv, AreFiles
<1>5. disk'[opts.out] = Append(old, stream[Len(old) + 1]) /\ DOMAIN disk' = Paths
      /\ \A path \in Paths : path # opts.out => disk'[path] = disk[path]
  BY <1>2, <1>3, <1>4
<1>6. StartsLikeWhole(old) /\ StartsLikeWhole(stream)
  BY <1>1, <1>2 DEF StreamInv
<1> HIDE DEF old
<1>7. IsSeq(old) /\ Len(old) \in Nat /\ Len(stream) \in Nat /\ Len(stream) <= WholeLen
      /\ WholeLen \in Nat
  BY <1>1, <1>2, <1>6, WholeCells DEF StartsLikeWhole, IsSeq
<1>8. PICK new : new = Append(old, stream[Len(old) + 1])
  OBVIOUS
<1>9. StartsLikeWhole(new) /\ Len(new) = Len(old) + 1
  <2>1. stream[Len(old) + 1] = Cell(Len(old) + 1)
    BY <1>3, <1>6, <1>7 DEF StartsLikeWhole
  <2>2. /\ IsSeq(new) /\ DOMAIN new = 1 .. Len(old) + 1
        /\ \A n \in 1 .. Len(old) : new[n] = old[n]
        /\ new[Len(old) + 1] = stream[Len(old) + 1]
    BY <1>7, <1>8, AppendCells
  <2>3. Len(new) = Len(old) + 1
    BY <1>7, <2>2 DEF IsSeq
  <2> QED BY <1>3, <1>6, <1>7, <2>1, <2>2, <2>3 DEF StartsLikeWhole
<1>10. disk'[opts.out] = new
  BY <1>5, <1>8
<1>11. InputInv'
  <2>1. CASE opts.out = "output"
    BY <1>1, <1>2, <1>5, <2>1 DEF InputInv, Paths
  <2>2. CASE opts.out = "input"
    <3>1. ~opts.full_file
      <4> SUFFICES ASSUME opts.full_file PROVE FALSE
        OBVIOUS
      <4>1. stream = <<>>
        BY <1>1, <1>2, <2>2 DEF FailInv, TruncatedInput
      <4> QED BY <1>3, <1>7, <4>1
    <3>2. HeadLen = 0
      BY <3>1 DEF HeadLen
    <3>3. new[Len(new)] = Cell(Len(new)) /\ Len(new) \in 1 .. WholeLen
      BY <1>3, <1>7, <1>9 DEF StartsLikeWhole
    <3>4. Cell(Len(new)) # Magic
      <4>1. CASE Len(new) = WholeLen
        BY <1>1, <1>2, <3>1, <4>1, WholeCells DEF Trailer, Magic
      <4>2. CASE Len(new) # WholeLen
        <5>1. Len(new) \in 1 .. Len(blob) /\ Cell(0 + Len(new)) = blob[Len(new)] /\ Plain(blob)
          BY <1>1, <1>2, <3>2, <3>3, <4>2, WholeCells DEF WholeLen, LayoutInv
        <5> QED BY <5>1 DEF Plain, Foreign, Magic
      <4> QED BY <4>1, <4>2
    <3> QED BY <1>1, <1>2, <1>10, <2>2, <3>3, <3>4 DEF InputInv
  <2> QED BY <1>2, <2>1, <2>2 DEF Paths
<1>12. AcceptedIsWhole'
  <2>1. ASSUME HasTrailer(new) PROVE WholeFile(new)
    BY <1>1, <1>2, <1>9, <2>1, TrailerMeansWhole
  <2>2. ASSUME NEW path \in Paths, HasTrailer(disk'[path]) PROVE WholeFile(disk[path])'
    <3>1. CASE path = opts.out
      BY <1>2, <1>10, <2>1, <2>2, <3>1, NowWhole
    <3>2. CASE path # opts.out
      <4>1. disk'[path] = disk[path] /\ WholeFile(disk[path])
        BY <1>4, <1>5, <2>2, <3>2 DEF WholeInv, AcceptedIsWhole
      <4> QED BY <1>2, <4>1, StillWhole
    <3> QED BY <3>1, <3>2
  <2> QED BY <1>5, <2>2 DEF AcceptedIsWhole
<1>13. /\ LayoutInv' /\ HeadLen' = HeadLen /\ WholeLen' = WholeLen
       /\ \A file : StartsLikeWhole(file)' <=> StartsLikeWhole(file)
  BY <1>1, <1>2, LayoutStays
<1>14. StreamInv'
  <2>1. StartsLikeWhole(stream)' /\ StartsLikeWhole(disk[opts.out])'
    BY <1>2, <1>6, <1>9, <1>10, <1>13 DEF StartsLikeWhole, Cell, found, HeadLen, Trailer, layoutVars
  <2>2. Len(disk'[opts.out]) <= Len(stream)
    BY <1>3, <1>7, <1>9, <1>10
  <2>3. blob' = blob
    BY <1>2 DEF layoutVars
  <2> QED BY <1>1, <1>2, <1>13, <2>1, <2>2, <2>3 DEF StreamInv
<1> QED BY <1>1, <1>2, <1>11, <1>12, <1>13, <1>14 DEF WholeInv, WroteUnlessFull

LEMMA DiskFullWhole == ASSUME WholeInv, DiskFull PROVE WholeInv'
<1>1. FailInv' /\ FailInv /\ InputInv /\ LayoutInv /\ StreamInv
  BY DiskFullFails DEF WholeInv
<1>2. /\ Writing /\ Writing' /\ WithRoot /\ WithRoot' /\ pc # "idle" /\ pc' # "idle"
      /\ UNCHANGED <<original, disk, opts, before, layoutVars, stream, copied, pc, result>>
      /\ bad' = TRUE /\ Len(disk[opts.out]) < Len(stream)
  BY DEF DiskFull, Writing, WithRoot, Pending
<1>3. /\ LayoutInv' /\ HeadLen' = HeadLen /\ WholeLen' = WholeLen
      /\ \A file : StartsLikeWhole(file)' <=> StartsLikeWhole(file)
  BY <1>1, <1>2, LayoutStays
<1>4. Len(stream) <= WholeLen /\ Len(stream) \in Nat /\ Len(disk[opts.out]) \in Nat
      /\ WholeLen \in Nat
  BY <1>1, <1>2, WholeCells DEF StreamInv, StartsLikeWhole, IsSeq
<1>5. StreamInv'
  <2>1. StartsLikeWhole(stream)' /\ StartsLikeWhole(disk[opts.out])'
    BY <1>1, <1>2, <1>3 DEF StreamInv, StartsLikeWhole, Cell, found, HeadLen, Trailer, layoutVars
  <2> QED BY <1>2, <1>3, <1>4, <2>1 DEF StreamInv
<1> QED BY <1>1, <1>2, <1>3, <1>5, FilesAlone DEF WholeInv, WroteUnlessFull

\* The steps that end a run.
LEMMA EndWhole == ASSUME WholeInv, OpenFails \/ Close \/ Crash PROVE WholeInv'
<1>1. FailInv' /\ FailInv /\ InputInv /\ LayoutInv /\ StreamInv
  BY EndFails DEF WholeInv
<1>2. /\ pc' = "idle" /\ pc # "idle"
      /\ UNCHANGED <<original, disk, opts, before, layoutVars, bad, stream>>
  BY DEF OpenFails, Close, Crash, streamVars
<1>3. LayoutInv' /\ StreamInv'
  BY <1>2 DEF LayoutInv, StreamInv, Writing
<1>4. WroteUnlessFull'
  <2>1. CASE OpenFails \/ Crash
    BY <2>1 DEF OpenFails, Crash, WroteUnlessFull
  <2>2. CASE Close
    <3> SUFFICES ASSUME result' = "wrote" PROVE WroteUnlessFull'
      BY DEF WroteUnlessFull
    <3> DEFINE file == disk[opts.out]
    <3>1. pc = "close" /\ Writing /\ WithRoot /\ result # "error" /\ (bad \/ ~Pending)
      BY <2>2 DEF Close, Writing, WithRoot
    <3>2. StartsLikeWhole(file) /\ Len(file) <= Len(stream) /\ IsSeq(file) /\ Len(file) \in Nat
          /\ Len(stream) \in Nat
      BY <1>1, <3>1 DEF StreamInv, StartsLikeWhole, IsSeq
    <3>3. WholeLen \in Nat /\ WholeLen >= 1 /\ Cell(WholeLen) = Trailer
      BY <1>1, <1>2, <3>1, WholeCells DEF WholeLen
    <3>4. CASE bad
      <4>1. ~HasTrailer(file)
        <5> SUFFICES ASSUME HasTrailer(file) PROVE FALSE
          OBVIOUS
        <5>1. Len(file) = WholeLen
          BY <1>1, <1>2, <3>1, <3>2, TrailerMeansWhole
        <5> QED BY <1>1, <3>1, <3>2, <3>3, <3>4, <5>1 DEF StreamInv
      <4> QED BY <1>2, <3>4, <4>1 DEF WroteUnlessFull, HasTrailer
    <3>5. CASE ~bad
      <4>1. Len(file) = WholeLen
        BY <1>1, <3>1, <3>2, <3>5 DEF StreamInv, Pending
      <4>2. file[Len(file)] = Trailer /\ file # <<>>
        BY <3>2, <3>3, <4>1 DEF StartsLikeWhole
      <4>3. HasTrailer(file)
        BY <4>2 DEF HasTrailer, Trailer
      <4>4. Directory(file) = dir
        BY <1>1, <1>2, <3>1, <3>2, <4>3, TrailerMeansWhole
      <4>5. /\ Has(file, "placement") /\ Has(file, "schema")
            /\ Has(file, "schema_index") <=> opts.schema_index /\ HasSchemaIndex(original)
        BY <1>1, <1>2, <3>1, <4>4 DEF LayoutInv, Has, Lists, IndexDone
      <4>6. file[Len(file)][1] = "MFT1" <=> ~opts.full_file
        BY <4>2 DEF Trailer
      <4> HIDE DEF file
      <4>7. /\ ResolvesPlacement(file) <=> ~opts.full_file
            /\ ChecksIndex(file) <=> opts.schema_index /\ HasSchemaIndex(original)
            /\ LoadsModular(file) <=> ChecksIndex(file)
        BY <4>3, <4>5, <4>6 DEF ResolvesPlacement, ChecksIndex, LoadsModular
      <4>8. /\ disk'[opts'.out] = file /\ bad' = bad /\ opts' = opts /\ original' = original
        BY <1>2 DEF file
      <4> QED BY <3>5, <4>3, <4>7, <4>8 DEF WroteUnlessFull
    <3> QED BY <3>4, <3>5
  <2> QED BY <2>1, <2>2
<1> QED BY <1>1, <1>2, <1>3, <1>4, FilesAlone DEF WholeInv

LEMMA StepWhole == WholeInv /\ [Next]_vars => WholeInv'
<1> SUFFICES ASSUME WholeInv, [Next]_vars PROVE WholeInv'
  OBVIOUS
<1>1. CASE Start BY <1>1, StartWhole
<1>2. CASE Lay BY <1>2, LayWhole
<1>3. CASE Output
  BY <1>3, OpenOutWhole, WriteWhole, FlushWhole, DiskFullWhole, EndWhole DEF Output
<1>4. CASE Crash BY <1>4, EndWhole
<1>5. CASE UNCHANGED vars
  <2>1. FailInv'
    BY <1>5, StepFails DEF WholeInv
  <2>2. UNCHANGED <<original, disk, opts, before, pc, blob, dir, copied, stream, bad, result>>
    BY <1>5 DEF vars, layoutVars, streamVars
  <2>3. LayoutInv'
    BY <2>2 DEF WholeInv, LayoutInv, WithRoot, Writing, ModulesEnd, IndexDone, Placed, found
  <2>4. StreamInv'
    BY <2>2 DEF WholeInv, StreamInv, Writing, StartsLikeWhole, WholeLen, Cell, HeadLen, Trailer, found
  <2>5. WroteUnlessFull'
    BY <2>2 DEF WholeInv, WroteUnlessFull
  <2> QED BY <2>1, <2>2, <2>3, <2>4, <2>5, FilesAlone DEF WholeInv
<1> QED BY <1>1, <1>2, <1>3, <1>4, <1>5 DEF Next

-----------------------------------------------------------------------------
\* Whatever the input, the options and the runs before, wherever it is killed
\* and whenever the disk is full: a file that has a trailer is whole (main,
\* parquet_to_modular.cc:941-1064; the readers look at nothing else).
THEOREM TrailerIsEnough == Spec => []AcceptedIsWhole
<1>1. WholeInv => AcceptedIsWhole
  BY DEF WholeInv
<1> QED BY <1>1, InitWhole, StepWhole, PTL DEF Spec

\* After "wrote" the readers open the file, unless the disk was full, and then
\* none does (parquet_to_modular.cc:1064-1101).
THEOREM WroteMeansWhole == Spec => []WroteUnlessFull
<1>1. WholeInv => WroteUnlessFull
  BY DEF WholeInv
<1> QED BY <1>1, InitWhole, StepWhole, PTL DEF Spec

-----------------------------------------------------------------------------
(* The bounds of a page, from the column index to the descriptor.           *)

\* A suffix that is cut makes the bound another one.
LEMMA OtherBound ==
  ASSUME NEW p \in Bytes, NEW s \in Bytes, NEW t \in Bytes
  PROVE  p \o s = p \o t => Len(s) = Len(t)
<1>1. Len(p) \in Nat /\ Len(s) \in Nat /\ Len(t) \in Nat
  BY DEF Bytes
<1>2. Len(p \o s) = Len(p) + Len(s) /\ Len(p \o t) = Len(p) + Len(t)
  BY DEF Bytes
<1> QED BY <1>1, <1>2

LEMMA MinOfPage ==
  ASSUME NEW p \in Bytes, NEW s \in Bytes, NEW limit \in Int
  PROVE  /\ LexLeq(p \o TruncateMin(s, TRUE, limit).suffix, p \o s)
         /\ TruncateMin(s, TRUE, limit).exact <=> p \o TruncateMin(s, TRUE, limit).suffix = p \o s
<1> DEFINE t == TruncateMin(s, TRUE, limit)
<1>1. t.suffix \in Bytes /\ t.exact \in BOOLEAN /\ LexLeq(t.suffix, s) /\ (t.exact => t.suffix = s)
  BY MinCut
<1>2. ~t.exact => Len(t.suffix) < Len(s)
  BY CutIsShorter
<1> HIDE DEF t
<1>3. Len(t.suffix) \in Nat /\ Len(s) \in Nat
  BY <1>1 DEF Bytes
<1>4. ~t.exact => p \o t.suffix # p \o s
  BY <1>1, <1>2, <1>3, OtherBound
<1>5. LexLeq(p \o t.suffix, p \o s)
  BY <1>1, LexPrefix
<1> QED BY <1>1, <1>4, <1>5 DEF t

LEMMA MaxOfPage ==
  ASSUME NEW p \in Bytes, NEW s \in Bytes, NEW limit \in Int
  PROVE  /\ LexLeq(p \o s, p \o TruncateMax(s, TRUE, limit).suffix)
         /\ TruncateMax(s, TRUE, limit).exact <=> p \o TruncateMax(s, TRUE, limit).suffix = p \o s
<1> DEFINE t == TruncateMax(s, TRUE, limit)
<1>1. t.suffix \in Bytes /\ t.exact \in BOOLEAN /\ LexLeq(s, t.suffix) /\ (t.exact => t.suffix = s)
  BY MaxCut
<1>2. ~t.exact => Len(t.suffix) < Len(s)
  BY CutIsShorter
<1> HIDE DEF t
<1>3. Len(t.suffix) \in Nat /\ Len(s) \in Nat
  BY <1>1 DEF Bytes
<1>4. ~t.exact => p \o t.suffix # p \o s
  BY <1>1, <1>2, <1>3, OtherBound
<1>5. LexLeq(p \o s, p \o t.suffix)
  BY <1>1, LexPrefix
<1> QED BY <1>1, <1>4, <1>5 DEF t

IsColumnIndex(ci) ==
  /\ ci.null_pages \in Seq({0, 1}) /\ ci.mins \in Seq(Bytes) /\ ci.maxs \in Seq(Bytes)
  /\ Len(ci.mins) = Len(ci.null_pages) /\ Len(ci.maxs) = Len(ci.null_pages)

\* Of any column index and for any limit: every page that is not null keeps its
\* bounds, not tighter, and exact where they are called so, and a null page gets
\* none (BuildColumnIndexChunk, parquet_to_modular.cc:602-681).
THEOREM BoundsSurvive ==
  ASSUME NEW ci, IsColumnIndex(ci), NEW limit \in Int
  PROVE  BoundsKept(ci, ColumnIndexChunk(ci, limit))
<1> DEFINE pages == {p \in DOMAIN ci.null_pages : ci.null_pages[p] = 0}
           n(p) == CommonPrefix(ci.mins[p], ci.maxs[p])
           min(p) == TruncateMin(Suffix(ci.mins[p], n(p)), TRUE, limit)
           max(p) == TruncateMax(Suffix(ci.maxs[p], n(p)), TRUE, limit)
           chunk == ColumnIndexChunk(ci, limit)
<1>1. /\ DOMAIN ci.null_pages = 1 .. Len(ci.null_pages)
      /\ Len(ci.null_pages) \in Nat
      /\ \A p \in pages : p <= Len(ci.mins) /\ p <= Len(ci.maxs)
                          /\ ci.mins[p] \in Bytes /\ ci.maxs[p] \in Bytes
  BY DEF IsColumnIndex
<1>2. Bounded(ci) = pages
  BY <1>1 DEF Bounded
<1>3. /\ chunk.prefixes = [p \in pages |-> Prefix(ci.mins[p], n(p))]
      /\ chunk.min_suffixes = [p \in pages |-> min(p).suffix]
      /\ chunk.max_suffixes = [p \in pages |-> max(p).suffix]
  BY <1>2 DEF ColumnIndexChunk
<1>4. /\ chunk.min_is_exact = [p \in {} |-> min(p).exact] \/ chunk.min_is_exact = [p \in pages |-> min(p).exact]
      /\ chunk.max_is_exact = [p \in {} |-> max(p).exact] \/ chunk.max_is_exact = [p \in pages |-> max(p).exact]
      /\ chunk.min_is_exact = [p \in {} |-> min(p).exact] => \A p \in pages : min(p).exact
      /\ chunk.max_is_exact = [p \in {} |-> max(p).exact] => \A p \in pages : max(p).exact
  <2> DEFINE inexact == {p \in pages : ~min(p).exact \/ ~max(p).exact}
  <2>1. CASE inexact = {}
    BY <1>2, <2>1 DEF ColumnIndexChunk
  <2>2. CASE inexact # {}
    <3>1. chunk.min_is_exact = [p \in pages |-> min(p).exact]
          /\ chunk.max_is_exact = [p \in pages |-> max(p).exact]
      BY <1>2, <2>2 DEF ColumnIndexChunk
    <3>2. pages # {} BY <2>2
    <3>3. DOMAIN chunk.min_is_exact # {} /\ DOMAIN chunk.max_is_exact # {}
      <4> HIDE DEF chunk, pages, min, max
      <4> QED BY <3>1, <3>2
    <3> QED BY <3>1, <3>3
  <2> QED BY <2>1, <2>2
<1>5. ASSUME NEW p \in pages
      PROVE  LET low == chunk.prefixes[p] \o chunk.min_suffixes[p]
                 high == chunk.prefixes[p] \o chunk.max_suffixes[p]
             IN /\ LexLeq(low, ci.mins[p]) /\ LexLeq(ci.maxs[p], high)
                /\ Exact(chunk.min_is_exact, p) <=> low = ci.mins[p]
                /\ Exact(chunk.max_is_exact, p) <=> high = ci.maxs[p]
  <2> DEFINE a == ci.mins[p]
             b == ci.maxs[p]
             shared == Prefix(a, n(p))
  <2>1. a \in Bytes /\ b \in Bytes
    BY <1>1
  <2>2. n(p) \in 0 .. Len(a) /\ n(p) \in 0 .. Len(b)
    BY <2>1, CommonPrefixIs
  <2>3. shared \in Bytes /\ Suffix(a, n(p)) \in Bytes /\ Suffix(b, n(p)) \in Bytes
    BY <2>1, <2>2, Split
  <2>4. shared \o Suffix(a, n(p)) = a /\ shared \o Suffix(b, n(p)) = b
    BY <2>1, StripCommonPrefix
  <2>5. /\ LexLeq(shared \o min(p).suffix, a) /\ (min(p).exact <=> shared \o min(p).suffix = a)
        /\ LexLeq(b, shared \o max(p).suffix) /\ (max(p).exact <=> shared \o max(p).suffix = b)
    <3>1. /\ LexLeq(shared \o min(p).suffix, shared \o Suffix(a, n(p)))
          /\ min(p).exact <=> shared \o min(p).suffix = shared \o Suffix(a, n(p))
      BY <2>3, MinOfPage
    <3>2. /\ LexLeq(shared \o Suffix(b, n(p)), shared \o max(p).suffix)
          /\ max(p).exact <=> shared \o max(p).suffix = shared \o Suffix(b, n(p))
      BY <2>3, MaxOfPage
    <3> HIDE DEF shared, min, max, n
    <3> QED BY <2>4, <3>1, <3>2
  <2> HIDE DEF chunk, min, max, n, pages
  <2>6. /\ chunk.prefixes[p] = shared /\ chunk.min_suffixes[p] = min(p).suffix
        /\ chunk.max_suffixes[p] = max(p).suffix
    BY <1>3
  <2>7. Exact(chunk.min_is_exact, p) <=> min(p).exact
    BY <1>4 DEF Exact
  <2>8. Exact(chunk.max_is_exact, p) <=> max(p).exact
    BY <1>4 DEF Exact
  <2> QED BY <2>5, <2>6, <2>7, <2>8
<1>6. DOMAIN chunk.prefixes = pages
  BY <1>3
<1> QED BY <1>5, <1>6 DEF BoundsKept
-----------------------------------------------------------------------------
(* The fields of a chunk.                                                   *)

Ranges == [has : BOOLEAN, off : Int, len : Int]
Chunks(fields) ==
  [meta : {NoChunk.meta} \cup {f.value : f \in Range(fields)},
   offset_index : Ranges, column_index : Ranges]
IsFields(fields) ==
  /\ fields \in Seq(Range(fields))
  /\ \A f \in Range(fields) : f.id \in 3 .. 7 /\ (f.id # 3 => f.value \in Int)

LEMMA TakenField ==
  ASSUME NEW fields, IsFields(fields), NEW c \in Chunks(fields), NEW f \in Range(fields)
  PROVE  TakeField(c, f) \in Chunks(fields)
<1>1. NoChunk \in Chunks(fields)
  BY DEF NoChunk, NoRange, Chunks, Ranges
<1>2. f.id \in 3 .. 7 /\ (f.id # 3 => f.value \in Int)
  BY DEF IsFields
<1>3. CASE f.id = 3
  BY <1>1, <1>3 DEF TakeField, Chunks
<1>4. CASE f.id \in 4 .. 7
  <2>1. c.offset_index \in Ranges /\ c.column_index \in Ranges
    BY DEF Chunks
  <2>2. CASE f.id = 4
    <3> DEFINE d == [c EXCEPT !.offset_index.off = f.value]
    <3>1. TakeField(c, f) = [c EXCEPT !.offset_index.off = f.value, !.offset_index.has = TRUE]
      BY <2>2 DEF TakeField
    <3>2. TakeField(c, f) = [d EXCEPT !.offset_index.has = TRUE]
      BY <3>1
    <3>3. d \in Chunks(fields)
      BY <1>2, <2>1, <2>2 DEF Chunks, Ranges
    <3> HIDE DEF d
    <3>4. d.offset_index \in Ranges
      BY <3>3 DEF Chunks
    <3> QED BY <3>2, <3>3, <3>4 DEF Chunks, Ranges
  <2>3. CASE f.id = 5
    <3>1. TakeField(c, f) = [c EXCEPT !.offset_index.len = f.value]
      BY <2>3 DEF TakeField
    <3> QED BY <1>2, <2>1, <2>3, <3>1 DEF Chunks, Ranges
  <2>4. CASE f.id = 6
    <3> DEFINE d == [c EXCEPT !.column_index.off = f.value]
    <3>1. TakeField(c, f) = [c EXCEPT !.column_index.off = f.value, !.column_index.has = TRUE]
      BY <2>4 DEF TakeField
    <3>2. TakeField(c, f) = [d EXCEPT !.column_index.has = TRUE]
      BY <3>1
    <3>3. d \in Chunks(fields)
      BY <1>2, <2>1, <2>4 DEF Chunks, Ranges
    <3> HIDE DEF d
    <3>4. d.column_index \in Ranges
      BY <3>3 DEF Chunks
    <3> QED BY <3>2, <3>3, <3>4 DEF Chunks, Ranges
  <2>5. CASE f.id = 7
    <3>1. TakeField(c, f) = [c EXCEPT !.column_index.len = f.value]
      BY <2>5 DEF TakeField
    <3> QED BY <1>2, <2>1, <2>5, <3>1 DEF Chunks, Ranges
  <2> QED BY <1>4, <2>2, <2>3, <2>4, <2>5
<1> QED BY <1>2, <1>3, <1>4

LEMMA GreatestOf ==
  ASSUME NEW n \in Nat, NEW s \in SUBSET (1 .. n), s # {}
  PROVE  Max(s) \in s
<1>1. s \subseteq 0 .. n
  OBVIOUS
<1>2. PICK x \in s : \A y \in s : y <= x
  BY <1>1, GreatestNatural
<1>3. \A y \in s : x >= y
  BY <1>1, <1>2
<1> QED BY <1>3 DEF Max

\* A fold over a sequence is a recursion over its positions, which there is.
FieldsTaken(it, fields) ==
  it = [s \in SUBSET DOMAIN fields |->
          IF s = {} THEN NoChunk ELSE TakeField(it[s \ {Max(s)}], fields[Max(s)])]

LEMMA FieldsCanBeTaken ==
  ASSUME NEW fields, IsFields(fields)
  PROVE  \E it : FieldsTaken(it, fields)
<1> DEFINE S == SUBSET DOMAIN fields
           A == [S -> Chunks(fields)]
           Round(s, g) == IF s = {} THEN NoChunk ELSE TakeField(g[s \ {Max(s)}], fields[Max(s)])
           H == [k \in Nat |-> [g \in A |-> [s \in S |-> Round(s, g)]]]
           none == [s \in S |-> NoChunk]
<1>1. DOMAIN fields = 1 .. Len(fields) /\ Len(fields) \in Nat
  BY DEF IsFields
<1>2. ASSUME NEW s \in S, s # {}
      PROVE  Max(s) \in s /\ fields[Max(s)] \in Range(fields) /\ s \ {Max(s)} \in S
  <2>1. Max(s) \in s
    BY <1>1, <1>2, GreatestOf
  <2> QED BY <2>1 DEF Range
<1>3. NoChunk \in Chunks(fields)
  BY DEF NoChunk, NoRange, Chunks, Ranges
<1>4. none \in A
  BY <1>3
<1>5. ASSUME NEW g \in A, NEW s \in S PROVE Round(s, g) \in Chunks(fields)
  <2> HIDE DEF S
  <2> QED BY <1>2, <1>3, TakenField
<1>6. H \in [Nat -> [A -> A]]
  <2>1. \A g \in A : [s \in S |-> Round(s, g)] \in A
    BY <1>5
  <2> HIDE DEF A, Round, S
  <2> QED BY <2>1
<1>7. PICK f : IsRecursion(f, A, none, H)
  <2> HIDE DEF A, H, none
  <2> QED BY <1>4, <1>6, RecursionExists
<1>8. f \in [Nat -> A] /\ f[0] = none /\ \A k \in Nat : f[k + 1] = [s \in S |-> Round(s, f[k])]
  <2>1. f \in [Nat -> A] /\ f[0] = none /\ \A k \in Nat : f[k + 1] = H[k][f[k]]
    BY <1>7 DEF IsRecursion
  <2> HIDE DEF A, Round, S, none
  <2> QED BY <2>1
<1>9. \A s \in S : IsFiniteSet(s) /\ Cardinality(s) \in Nat
  <2>1. IsFiniteSet(DOMAIN fields)
    BY <1>1, FS_Interval
  <2> QED BY <2>1, FS_Subset, FS_CardinalityType
<1> DEFINE it == [s \in S |-> f[Cardinality(s)][s]]
<1>10. ASSUME NEW s \in S PROVE it[s] = Round(s, it)
  <2>1. CASE s = {}
    <3>1. Cardinality(s) = 0
      BY <2>1, FS_EmptySet
    <3>2. none[s] = NoChunk
      OBVIOUS
    <3> QED BY <1>8, <2>1, <3>1, <3>2
  <2>2. CASE s # {}
    <3> DEFINE rest == s \ {Max(s)}
    <3>1. Max(s) \in s /\ rest \in S
      BY <1>2, <2>2
    <3>2. Cardinality(rest) = Cardinality(s) - 1
      BY <1>9, <3>1, FS_RemoveElement
    <3>3. Cardinality(rest) \in Nat /\ Cardinality(s) = Cardinality(rest) + 1
      BY <1>9, <3>1, <3>2
    <3>4. f[Cardinality(rest) + 1][s] = Round(s, f[Cardinality(rest)])
      BY <1>8, <3>3
    <3>5. it[rest] = f[Cardinality(rest)][rest]
      BY <3>1
    <3> QED BY <2>2, <3>3, <3>4, <3>5
  <2> QED BY <2>1, <2>2
<1>11. it = [s \in S |-> Round(s, it)]
  <2> HIDE DEF Round
  <2> QED BY <1>10
<1> QED BY <1>11 DEF FieldsTaken

LEMMA ParsedChunk ==
  ASSUME NEW fields, IsFields(fields)
  PROVE  ParseColumnChunk(fields) \in Chunks(fields)
<1> DEFINE it == CHOOSE it : FieldsTaken(it, fields)
           S == SUBSET DOMAIN fields
           wrong == {Cardinality(s) : s \in {t \in S : it[t] \notin Chunks(fields)}}
<1>1. ParseColumnChunk(fields) = it[DOMAIN fields]
  BY DEF ParseColumnChunk, FoldLeft, MapThenFoldSet, FieldsTaken
<1>2. FieldsTaken(it, fields)
  BY FieldsCanBeTaken
<1>3. \A s \in S : it[s] = IF s = {} THEN NoChunk ELSE TakeField(it[s \ {Max(s)}], fields[Max(s)])
  <2> HIDE DEF it
  <2> QED BY <1>2 DEF FieldsTaken
<1> HIDE DEF it
<1>4. DOMAIN fields = 1 .. Len(fields) /\ Len(fields) \in Nat
  BY DEF IsFields
<1>5. \A s \in S : IsFiniteSet(s) /\ Cardinality(s) \in Nat
  <2>1. IsFiniteSet(DOMAIN fields)
    BY <1>4, FS_Interval
  <2> QED BY <2>1, FS_Subset, FS_CardinalityType
<1>6. wrong = {}
  <2> SUFFICES ASSUME wrong # {} PROVE FALSE
    OBVIOUS
  <2>1. wrong \subseteq Nat
    BY <1>5
  <2>2. PICK k \in wrong : \A l \in wrong : k <= l
    <3> HIDE DEF wrong
    <3> QED BY <2>1, LeastNatural
  <2>3. PICK s \in S : it[s] \notin Chunks(fields) /\ k = Cardinality(s)
    BY <2>2
  <2>4. s # {}
    <3>1. NoChunk \in Chunks(fields)
      BY DEF NoChunk, NoRange, Chunks, Ranges
    <3> QED BY <1>3, <2>3, <3>1
  <2>5. Max(s) \in s
    BY <1>4, <2>4, GreatestOf
  <2>6. s \ {Max(s)} \in S /\ Cardinality(s \ {Max(s)}) = Cardinality(s) - 1
    BY <1>5, <2>5, FS_RemoveElement
  <2>7. it[s \ {Max(s)}] \in Chunks(fields)
    <3> SUFFICES ASSUME it[s \ {Max(s)}] \notin Chunks(fields) PROVE FALSE
      OBVIOUS
    <3>1. Cardinality(s \ {Max(s)}) \in wrong
      BY <2>6
    <3> QED BY <1>5, <2>2, <2>3, <2>6, <3>1
  <2>8. fields[Max(s)] \in Range(fields)
    BY <2>5 DEF Range
  <2>9. it[s] = TakeField(it[s \ {Max(s)}], fields[Max(s)])
    BY <1>3, <2>4
  <2> QED BY <2>3, <2>7, <2>8, <2>9, TakenField
<1>7. DOMAIN fields \in S /\ Cardinality(DOMAIN fields) \in Nat
  BY <1>5
<1> QED BY <1>1, <1>6, <1>7

-----------------------------------------------------------------------------
(* What the modules hold.                                                   *)

\* The i-th and the next offset delimit a part.
PartAt(cells, offs, i, part) ==
  /\ offs[i] \in Nat /\ offs[i + 1] = offs[i] + Len(part) /\ offs[i + 1] <= Len(cells)
  /\ \A j \in 1 .. Len(part) : cells[offs[i] + j] = part[j]

PartsAt(cells, offs, kind, n) ==
  \A i \in 1 .. n : PartAt(cells, offs, i, Part(original, kind, i - 1, opts.limit))

\* The arrays are right about chunk i, which is there.
ChunkPlaced(arrays, i) ==
  LET c == i \div G(original)
      g == i % G(original)
      meta == Chunk(original, c, g).meta
      first == arrays.first_dict
  IN /\ c < Len(RowGroups(original)[g + 1])
     /\ arrays.data_page_offsets[i + 1] = meta.data_page_offset
     /\ first[i + 1] \in Nat
     /\ IF meta.dict_offset = NoField
        THEN first[i + 2] = first[i + 1]
        ELSE /\ first[i + 2] = first[i + 1] + 1
             /\ first[i + 2] <= Len(arrays.dict_offsets)
             /\ arrays.dict_offsets[first[i + 1] + 1] = meta.dict_offset

ChunksPlaced(arrays) ==
  LET n == Len(arrays.data_page_offsets) IN
  /\ IsSeq(arrays.data_page_offsets) /\ IsSeq(arrays.first_dict) /\ IsSeq(arrays.dict_offsets)
  /\ Len(arrays.first_dict) = n + 1 /\ n <= N(original)
  /\ arrays.first_dict[n + 1] = Len(arrays.dict_offsets)
  /\ \A i \in 0 .. n - 1 : ChunkPlaced(arrays, i)

\* Entry e leads to what a module of its kind is to hold.
Holds(e, cells) ==
  LET value == cells[e.off + 1][2] IN
  /\ e.kind = "placement" => ChunksPlaced(value) /\ Len(value.data_page_offsets) = N(original)
  /\ e.kind \in PartKinds => PartsAt(cells, value, e.kind, Parts(original, e.kind))
  /\ e.kind = "schema_index" => HasSchemaIndex(original) /\ value = ElementOffsets(original)

\* The offsets a module of parts is being given, with the one that ends it.
OffsetsInv ==
  IF pc \in PartKinds
  THEN /\ IsSeq(offsets) /\ Len(offsets) <= Parts(original, pc)
       /\ ~Wanted(pc) => offsets = <<>>
       /\ PartsAt(blob, Append(offsets, Len(blob)), pc, Len(offsets))
  ELSE offsets = <<>>

ContentInv ==
  pc # "idle" =>
    /\ ChunksPlaced(place) /\ (pc # "chunks" => nextChunk = N(original))
    /\ OffsetsInv
    /\ \A n \in DOMAIN dir : Holds(dir[n], blob)

\* What is known of the footer of an input that is accepted.
LEMMA FooterShape ==
  ASSUME NEW file \in Inputs, NEW o, ~Refused(file, o)
  PROVE  /\ Len(file) \in Nat /\ FooterStart(file) \in 0 .. Len(file)
         /\ G(file) \in Nat \ {0} /\ C(file) \in Nat /\ N(file) \in Nat
         /\ \A g \in 0 .. G(file) - 1 :
              /\ Len(RowGroups(file)[g + 1]) \in Nat
              /\ \A c \in 0 .. Len(RowGroups(file)[g + 1]) - 1 :
                   /\ Chunk(file, c, g).offset_index \in Ranges
                   /\ Chunk(file, c, g).column_index \in Ranges
<1>1. IsSeq(file) /\ Len(file) \in Nat /\ Len(file) >= 2
  BY InputsAssumption DEF IsSeq, Refused
<1>2. FooterStart(file) \in 0 .. Len(file) /\ FooterStart(file) + 1 \in 1 .. Len(file)
  BY <1>1 DEF Refused, FooterStart
<1>3. FooterStart(file) + 1 \in DOMAIN file
  BY <1>1, <1>2 DEF IsSeq
<1> DEFINE groups == RowGroups(file)
<1>4. /\ file[FooterStart(file) + 1][1] = "footer" /\ groups # <<>>
      /\ groups = file[FooterStart(file) + 1][2].row_groups
  BY DEF Refused, RowGroups, FileMeta
<1> HIDE DEF groups
<1>5. /\ groups \in Seq(Range(groups))
      /\ \A group \in Range(groups) :
           group \in Seq(Range(group)) /\ \A fields \in Range(group) : IsFields(fields)
  BY <1>3, <1>4, FooterAssumption DEF IsFields
<1>6. G(file) \in Nat \ {0} /\ DOMAIN groups = 1 .. G(file)
  BY <1>4, <1>5 DEF G, groups
<1>7. ASSUME NEW g \in 0 .. G(file) - 1
      PROVE  /\ groups[g + 1] \in Seq(Range(groups[g + 1]))
             /\ \A fields \in Range(groups[g + 1]) : IsFields(fields)
  <2>1. g + 1 \in DOMAIN groups
    BY <1>6
  <2>2. groups[g + 1] \in Range(groups)
    BY <2>1 DEF Range
  <2> QED BY <1>5, <2>2
<1>8. C(file) \in Nat
  <2>1. groups[0 + 1] \in Seq(Range(groups[0 + 1]))
    BY <1>6, <1>7
  <2> QED BY <2>1 DEF C, groups
<1>9. N(file) \in Nat
  BY <1>6, <1>8 DEF N
<1>10. ASSUME NEW g \in 0 .. G(file) - 1, NEW c \in 0 .. Len(groups[g + 1]) - 1
       PROVE  /\ Chunk(file, c, g).offset_index \in Ranges
              /\ Chunk(file, c, g).column_index \in Ranges
  <2>1. c + 1 \in DOMAIN groups[g + 1]
    BY <1>7
  <2>2. groups[g + 1][c + 1] \in Range(groups[g + 1])
    BY <2>1 DEF Range
  <2>3. IsFields(groups[g + 1][c + 1])
    BY <1>7, <2>2
  <2>4. Chunk(file, c, g) \in Chunks(groups[g + 1][c + 1])
    BY <2>3, ParsedChunk DEF Chunk, groups
  <2> QED BY <2>4 DEF Chunks
<1>11. \A g \in 0 .. G(file) - 1 : Len(groups[g + 1]) \in Nat
  BY <1>7
<1> QED BY <1>1, <1>2, <1>6, <1>8, <1>9, <1>10, <1>11 DEF groups

LEMMA OfOriginal ==
  ASSUME FailInv, InputInv, LayoutInv, pc # "idle"
  PROVE  original \in Inputs /\ ~Refused(original, opts) /\ found = original /\ opts \in Options
BY DEF FailInv, FilesInv, InputInv, LayoutInv

\* Chunk (c, g) is the one of number c * G + g.
LEMMA ChunkNumber ==
  ASSUME NEW cs \in Nat, NEW gs \in Nat \ {0}, NEW c \in 0 .. cs - 1, NEW g \in 0 .. gs - 1
  PROVE  /\ c * gs + g \in 0 .. cs * gs - 1
         /\ (c * gs + g) \div gs = c /\ (c * gs + g) % gs = g
<1> DEFINE i == c * gs + g
           q == i \div gs
           r == i % gs
<1>1. c * gs \in Nat /\ cs * gs \in Nat /\ gs * c = c * gs /\ gs * cs = cs * gs
  OBVIOUS
<1>2. c \in Int /\ cs \in Int /\ c < cs
  OBVIOUS
<1>3. c * gs + gs <= cs * gs
  BY <1>1, <1>2, QuotientGap
<1>4. i \in Nat /\ i <= cs * gs - 1
  <2>1. \A x \in Nat, y \in Nat : x + gs <= y => x + g \in Nat /\ x + g <= y - 1
    OBVIOUS
  <2> QED BY <1>1, <1>3, <2>1
<1>5. i = gs * q + r /\ q \in Nat /\ r \in 0 .. gs - 1
  <2> HIDE DEF i
  <2> QED BY <1>4, DivMod
<1>6. q = c
  <2>1. gs * q \in Int /\ gs * c \in Int
    BY <1>5
  <2>2. \A x \in Int, y \in Int : x + g = y + r => x < y + gs /\ y < x + gs
    BY <1>5
  <2>3. gs * c < gs * q + gs /\ gs * q < gs * c + gs
    <3>1. gs * c + g = gs * q + r
      BY <1>1, <1>5
    <3> HIDE DEF q, r
    <3> QED BY <2>1, <2>2, <3>1
  <2> HIDE DEF q, r, i
  <2>4. ~(q < c)
    <3> SUFFICES ASSUME q < c PROVE FALSE
      OBVIOUS
    <3>1. gs * q + gs <= gs * c
      BY <1>5, QuotientGap
    <3> QED BY <2>1, <2>3, <3>1
  <2>5. ~(c < q)
    <3> SUFFICES ASSUME c < q PROVE FALSE
      OBVIOUS
    <3>1. gs * c + gs <= gs * q
      BY <1>5, QuotientGap
    <3> QED BY <2>1, <2>3, <3>1
  <2> QED BY <1>5, <2>4, <2>5
<1>7. r = g
  <2>1. gs * c + g = gs * c + r /\ gs * c \in Int
    BY <1>1, <1>5, <1>6
  <2> HIDE DEF q, r, i
  <2>2. \A x \in Int : x + g = x + r => r = g
    BY <1>5
  <2> QED BY <2>1, <2>2
<1> QED BY <1>1, <1>4, <1>6, <1>7

LEMMA PartIsSeq ==
  ASSUME NEW kind \in PartKinds, NEW file, NEW i, NEW limit
  PROVE  IsSeq(Part(file, kind, i, limit)) /\ Len(Part(file, kind, i, limit)) \in Nat
BY PlainPart DEF Plain, IsSeq

\* What follows does not disturb a part.
LEMMA PartStays ==
  ASSUME NEW s, NEW t, IsSeq(s), IsSeq(t), NEW offs, NEW i, NEW part, Len(part) \in Nat,
         PartAt(s, offs, i, part)
  PROVE  PartAt(s \o t, offs, i, part)
<1>1. /\ Len(s) \in Nat /\ Len(s \o t) = Len(s) + Len(t) /\ Len(t) \in Nat
      /\ \A j \in 1 .. Len(s) : (s \o t)[j] = s[j]
  BY ConcatCells
<1>2. offs[i] \in Nat /\ offs[i + 1] = offs[i] + Len(part) /\ offs[i + 1] <= Len(s)
  BY DEF PartAt
<1>3. \A j \in 1 .. Len(part) : (s \o t)[offs[i] + j] = s[offs[i] + j]
  <2> TAKE j \in 1 .. Len(part)
  <2>1. offs[i] + j \in 1 .. Len(s)
    BY <1>1, <1>2
  <2> QED BY <1>1, <2>1
<1>4. offs[i + 1] <= Len(s \o t)
  BY <1>1, <1>2
<1> QED BY <1>2, <1>3, <1>4 DEF PartAt

\* The next part.
LEMMA PartAdded ==
  ASSUME NEW offs, IsSeq(offs), NEW s, IsSeq(s), NEW part, IsSeq(part)
  PROVE  LET old == Append(offs, Len(s))
             new == Append(old, Len(s \o part))
         IN /\ Len(old) = Len(offs) + 1 /\ IsSeq(old) /\ Len(offs) \in Nat
            /\ \A i \in 1 .. Len(offs) : \A p : Len(p) \in Nat /\ PartAt(s, old, i, p) =>
                 PartAt(s \o part, new, i, p)
            /\ PartAt(s \o part, new, Len(offs) + 1, part)
<1> DEFINE old == Append(offs, Len(s))
           whole == s \o part
           new == Append(old, Len(whole))
<1>1. /\ IsSeq(old) /\ Len(offs) \in Nat /\ DOMAIN old = 1 .. Len(offs) + 1
      /\ old[Len(offs) + 1] = Len(s)
  BY AppendCells
<1>2. Len(old) = Len(offs) + 1
  <2> HIDE DEF old
  <2> QED BY <1>1 DEF IsSeq
<1>3. /\ Len(whole) = Len(s) + Len(part) /\ Len(s) \in Nat /\ Len(part) \in Nat
      /\ \A j \in 1 .. Len(part) : whole[Len(s) + j] = part[j]
  BY ConcatCells
<1> HIDE DEF old
<1>4. /\ \A i \in 1 .. Len(offs) + 1 : new[i] = old[i]
      /\ new[Len(offs) + 2] = Len(whole)
  <2>1. /\ \A i \in 1 .. Len(old) : new[i] = old[i]
        /\ new[Len(old) + 1] = Len(whole)
    BY <1>1, AppendCells
  <2> QED BY <1>1, <1>2, <2>1
<1> HIDE DEF new
<1>5. ASSUME NEW i \in 1 .. Len(offs), NEW p, Len(p) \in Nat, PartAt(s, old, i, p)
      PROVE  PartAt(whole, new, i, p)
  <2>1. PartAt(whole, old, i, p)
    BY <1>5, PartStays
  <2>2. new[i] = old[i] /\ new[i + 1] = old[i + 1]
    BY <1>1, <1>4
  <2> HIDE DEF whole
  <2> QED BY <2>1, <2>2 DEF PartAt
<1>6. PartAt(whole, new, Len(offs) + 1, part)
  <2>1. new[Len(offs) + 1] = Len(s) /\ (Len(offs) + 1) + 1 = Len(offs) + 2
    BY <1>1, <1>4
  <2> HIDE DEF whole
  <2> QED BY <1>3, <1>4, <2>1 DEF PartAt
<1> QED BY <1>1, <1>2, <1>5, <1>6 DEF old, new

\* What follows does not disturb what a module holds.
LEMMA HoldsStays ==
  ASSUME NEW s, NEW t, IsSeq(s), IsSeq(t), NEW e, Placed(e, s, Len(s)), Holds(e, s)
  PROVE  Holds(e, s \o t)
<1> DEFINE value == s[e.off + 1][2]
<1>1. Len(s) \in Nat /\ \A j \in 1 .. Len(s) : (s \o t)[j] = s[j]
  BY ConcatCells
<1>2. e.kind # "schema" => e.off + 1 \in 1 .. Len(s)
  BY <1>1 DEF Placed
<1>3. e.kind # "schema" => (s \o t)[e.off + 1][2] = value
  BY <1>1, <1>2
<1>4. e.kind \in PartKinds => PartsAt(s \o t, value, e.kind, Parts(original, e.kind))
  <2> SUFFICES ASSUME e.kind \in PartKinds, NEW i \in 1 .. Parts(original, e.kind)
               PROVE  PartAt(s \o t, value, i, Part(original, e.kind, i - 1, opts.limit))
    BY DEF PartsAt
  <2>1. PartAt(s, value, i, Part(original, e.kind, i - 1, opts.limit))
    BY DEF Holds, PartsAt
  <2> QED BY <2>1, PartIsSeq, PartStays
<1>5. "schema" \notin PartKinds /\ "schema" # "placement" /\ "schema" # "schema_index"
  BY DEF PartKinds
<1> HIDE DEF value
<1>6. /\ e.kind = "placement" => ChunksPlaced(value) /\ Len(value.data_page_offsets) = N(original)
      /\ e.kind = "schema_index" => HasSchemaIndex(original) /\ value = ElementOffsets(original)
  BY DEF Holds, value
<1> QED BY <1>3, <1>4, <1>5, <1>6 DEF Holds

\* The directory's claims after a step that changes neither input nor options.
LEMMA HoldsNow ==
  ASSUME UNCHANGED <<original, opts>>, \A n \in DOMAIN dir' : Holds(dir'[n], blob')
  PROVE  (\A n \in DOMAIN dir : Holds(dir[n], blob))'
BY DEF Holds, PartsAt, ChunksPlaced, ChunkPlaced

LEMMA DirHolds ==
  ASSUME LayoutInv, ContentInv, pc \in PlaceSteps, NEW cells, IsSeq(cells),
         blob' = blob \o cells, dir' = dir
  PROVE  \A n \in DOMAIN dir' : Holds(dir'[n], blob')
<1>1. \A n \in DOMAIN dir : Placed(dir[n], blob, Len(blob)) /\ Holds(dir[n], blob)
  BY LaidOut DEF ContentInv
<1>2. IsSeq(blob)
  BY LaidOut
<1> QED BY <1>1, <1>2, HoldsStays

\* A new module, with what it is to hold.
LEMMA ModuleHolds ==
  ASSUME LayoutInv, ContentInv, pc \in PlaceSteps,
         NEW kind, NEW module, IsSeq(module), Place(kind, module),
         kind # "schema" => 1 <= Len(module),
         kind = "placement" =>
           ChunksPlaced(module[1][2]) /\ Len(module[1][2].data_page_offsets) = N(original),
         kind \in PartKinds => PartsAt(blob, module[1][2], kind, Parts(original, kind)),
         kind = "schema_index" => HasSchemaIndex(original) /\ module[1][2] = ElementOffsets(original)
  PROVE  \A n \in DOMAIN dir' : Holds(dir'[n], blob')
<1> DEFINE e == [kind |-> kind, off |-> Len(blob), len |-> Len(module)]
           whole == blob \o module
           value == module[1][2]
<1>1. IsSeq(blob) /\ IsSeq(dir) /\ \A n \in DOMAIN dir : Placed(dir[n], blob, Len(blob))
  BY LaidOut
<1>2. \A n \in DOMAIN dir : Holds(dir[n], whole)
  <2>1. \A n \in DOMAIN dir : Holds(dir[n], blob)
    BY LaidOut DEF ContentInv
  <2> QED BY <1>1, <2>1, HoldsStays
<1>3. blob' = whole /\ dir' = Append(dir, e)
  BY DEF Place
<1>4. Len(module) \in Nat /\ Len(blob) \in Nat
  BY <1>1 DEF IsSeq
<1>5. kind # "schema" => whole[Len(blob) + 1] = module[1]
  <2>1. kind # "schema" => 1 \in 1 .. Len(module)
    BY <1>4
  <2> QED BY <1>1, <2>1, ConcatAt
<1>6. kind \in PartKinds => PartsAt(whole, value, kind, Parts(original, kind))
  <2> SUFFICES ASSUME kind \in PartKinds, NEW i \in 1 .. Parts(original, kind)
               PROVE  PartAt(whole, value, i, Part(original, kind, i - 1, opts.limit))
    BY DEF PartsAt
  <2>1. PartAt(blob, value, i, Part(original, kind, i - 1, opts.limit))
    BY DEF PartsAt
  <2> QED BY <1>1, <2>1, PartIsSeq, PartStays
<1>7. Holds(e, whole)
  <2>1. "schema" \notin PartKinds
    BY DEF PartKinds
  <2>2. e.kind = kind /\ e.off = Len(blob)
    OBVIOUS
  <2>3. kind # "schema" => whole[e.off + 1][2] = value
    BY <1>5, <2>2
  <2> HIDE DEF e, whole, value
  <2>4. CASE kind = "schema"
    BY <2>1, <2>2, <2>4 DEF Holds
  <2>5. CASE kind # "schema"
    BY <1>6, <2>2, <2>3, <2>5 DEF Holds, value
  <2> QED BY <2>4, <2>5
<1>8. /\ DOMAIN dir = 1 .. Len(dir) /\ Len(dir) \in Nat
      /\ DOMAIN dir' = 1 .. Len(dir) + 1
      /\ \A n \in 1 .. Len(dir) : dir'[n] = dir[n]
      /\ dir'[Len(dir) + 1] = e
  BY <1>1, <1>3, AppendCells
<1> HIDE DEF e, whole
<1>9. \A n \in DOMAIN dir' : Holds(dir'[n], whole)
  BY <1>2, <1>7, <1>8
<1> QED BY <1>3, <1>9

\* No offsets yet.
LEMMA NoOffsets ==
  ASSUME FailInv, InputInv, LayoutInv, pc # "idle", UNCHANGED <<original, opts>>, offsets' = <<>>
  PROVE  OffsetsInv'
<1>1. C(original) \in Nat /\ N(original) \in Nat
  BY OfOriginal, FooterShape
<1>2. \A kind : Parts(original, kind) \in Nat
  BY <1>1 DEF Parts
<1>3. Len(<<>>) = 0 /\ IsSeq(<<>>)
  BY EmptyIsSeq
<1>4. Len(<<>>) <= Parts(original', pc')
  BY <1>2, <1>3
<1>5. IsSeq(offsets') /\ Len(offsets') = 0 /\ Len(offsets') <= Parts(original', pc')
  BY <1>3, <1>4
<1> QED BY <1>5 DEF OffsetsInv, PartsAt

LEMMA ChunkHolds ==
  ASSUME FailInv, InputInv, LayoutInv, ContentInv, AddChunk
  PROVE  ChunksPlaced(place')
<1>1. pc = "chunks" /\ pc # "idle" /\ nextChunk < N(found) /\ ~Missing
  BY DEF AddChunk, Goto
<1>2. found = original /\ original \in Inputs /\ ~Refused(original, opts)
  BY <1>1, OfOriginal
<1>3. G(original) \in Nat \ {0} /\ C(original) \in Nat /\ N(original) \in Nat
      /\ \A g \in 0 .. G(original) - 1 : Len(RowGroups(original)[g + 1]) \in Nat
  BY <1>2, FooterShape
<1> DEFINE n == nextChunk
           c == n \div G(original)
           g == n % G(original)
           meta == Chunk(original, c, g).meta
           has == meta.dict_offset # NoField
           pages == place.data_page_offsets
           first == place.first_dict
           dicts == place.dict_offsets
           more == first[n + 1] + (IF has THEN 1 ELSE 0)
<1>4. /\ IsSeq(pages) /\ IsSeq(first) /\ IsSeq(dicts) /\ n = Len(pages)
      /\ Len(first) = n + 1 /\ first[n + 1] = Len(dicts)
      /\ \A i \in 0 .. n - 1 : ChunkPlaced(place, i)
  BY <1>1 DEF ContentInv, ChunksPlaced, nextChunk
<1>5. place' = [data_page_offsets |-> Append(pages, meta.data_page_offset),
                first_dict |-> Append(first, more),
                dict_offsets |-> IF has THEN Append(dicts, meta.dict_offset) ELSE dicts]
  BY <1>2 DEF AddChunk, ColumnOf, GroupOf
<1>6. c < Len(RowGroups(original)[g + 1])
  <2>1. n \in Nat
    BY <1>4 DEF IsSeq
  <2>2. c \in Nat /\ g \in 0 .. G(original) - 1
    <3> HIDE DEF n
    <3> QED BY <1>3, <2>1, DivMod
  <2>3. ~(c >= Len(RowGroups(original)[g + 1]))
    BY <1>1, <1>2 DEF Missing, ColumnOf, GroupOf
  <2> HIDE DEF c, g
  <2> QED BY <1>3, <2>2, <2>3
<1>7. n < N(original)
  BY <1>1, <1>2
<1> HIDE DEF n, meta, has
<1>8. n \in Nat /\ Len(dicts) \in Nat /\ first[n + 1] \in Nat
  BY <1>4 DEF IsSeq
<1> DEFINE pages2 == Append(pages, meta.data_page_offset)
           first2 == Append(first, more)
           dicts2 == IF has THEN Append(dicts, meta.dict_offset) ELSE dicts
<1>9. /\ IsSeq(pages2) /\ Len(pages2) = n + 1 /\ pages2[n + 1] = meta.data_page_offset
      /\ \A i \in 1 .. n : pages2[i] = pages[i]
  <2> DEFINE x == meta.data_page_offset
  <2> HIDE DEF x
  <2>1. /\ IsSeq(pages2) /\ DOMAIN pages2 = 1 .. n + 1 /\ pages2[n + 1] = x
        /\ \A i \in 1 .. n : pages2[i] = pages[i]
    BY <1>4, AppendCells DEF x
  <2> HIDE DEF pages2
  <2>2. Len(pages2) = n + 1
    BY <1>8, <2>1 DEF IsSeq
  <2> QED BY <2>1, <2>2 DEF x
<1>10. /\ IsSeq(first2) /\ Len(first2) = n + 2 /\ first2[n + 2] = more
       /\ \A i \in 1 .. n + 1 : first2[i] = first[i]
  <2> HIDE DEF more
  <2>1. /\ IsSeq(first2) /\ DOMAIN first2 = 1 .. (n + 1) + 1 /\ first2[(n + 1) + 1] = more
        /\ \A i \in 1 .. n + 1 : first2[i] = first[i]
    BY <1>4, AppendCells
  <2> HIDE DEF first2
  <2>2. (n + 1) + 1 = n + 2 /\ n + 2 \in Nat
    BY <1>8
  <2>3. Len(first2) = n + 2
    BY <2>1, <2>2 DEF IsSeq
  <2> QED BY <2>1, <2>2, <2>3
<1>11. /\ IsSeq(dicts2) /\ Len(dicts2) = (IF has THEN Len(dicts) + 1 ELSE Len(dicts))
       /\ has => dicts2[Len(dicts) + 1] = meta.dict_offset
       /\ \A i \in 1 .. Len(dicts) : dicts2[i] = dicts[i]
  <2>1. CASE ~has
    BY <1>4, <2>1
  <2>2. CASE has
    <3> DEFINE longer == Append(dicts, meta.dict_offset)
    <3>1. /\ IsSeq(longer) /\ DOMAIN longer = 1 .. Len(dicts) + 1
          /\ longer[Len(dicts) + 1] = meta.dict_offset
          /\ \A i \in 1 .. Len(dicts) : longer[i] = dicts[i]
      BY <1>4, AppendCells
    <3>2. dicts2 = longer
      BY <2>2
    <3> HIDE DEF longer, dicts2
    <3>3. Len(longer) = Len(dicts) + 1
      BY <1>8, <3>1 DEF IsSeq
    <3> QED BY <2>2, <3>1, <3>2, <3>3
  <2> QED BY <2>1, <2>2
<1>12. place'.data_page_offsets = pages2 /\ place'.first_dict = first2 /\ place'.dict_offsets = dicts2
  BY <1>5
<1> HIDE DEF pages2, first2, dicts2, pages, first, dicts
<1>13. ASSUME NEW i \in 0 .. n - 1 PROVE ChunkPlaced(place', i)
  <2>1. ChunkPlaced(place, i)
    BY <1>4
  <2>2. pages2[i + 1] = pages[i + 1] /\ first2[i + 1] = first[i + 1] /\ first2[i + 2] = first[i + 2]
    <3>1. i + 1 \in 1 .. n /\ i + 1 \in 1 .. n + 1 /\ i + 2 \in 1 .. n + 1
      BY <1>8
    <3> QED BY <1>9, <1>10, <3>1
  <2> DEFINE m == Chunk(original, i \div G(original), i % G(original)).meta
  <2>3. /\ i \div G(original) < Len(RowGroups(original)[(i % G(original)) + 1])
        /\ pages[i + 1] = m.data_page_offset /\ first[i + 1] \in Nat
        /\ m.dict_offset = NoField => first[i + 2] = first[i + 1]
        /\ m.dict_offset # NoField =>
             /\ first[i + 2] = first[i + 1] + 1 /\ first[i + 2] <= Len(dicts)
             /\ dicts[first[i + 1] + 1] = m.dict_offset
    BY <2>1 DEF ChunkPlaced, pages, first, dicts
  <2> HIDE DEF m
  <2>4. m.dict_offset # NoField =>
          first2[i + 2] <= Len(dicts2) /\ dicts2[first2[i + 1] + 1] = m.dict_offset
    <3> SUFFICES ASSUME m.dict_offset # NoField
                 PROVE  first2[i + 2] <= Len(dicts2) /\ dicts2[first2[i + 1] + 1] = m.dict_offset
      OBVIOUS
    <3>1. first[i + 1] + 1 \in 1 .. Len(dicts) /\ first[i + 2] \in Nat
      BY <1>8, <2>3
    <3>2. Len(dicts) <= Len(dicts2)
      BY <1>8, <1>11
    <3>3. Len(dicts2) \in Nat
      BY <1>11 DEF IsSeq
    <3> QED BY <1>8, <1>11, <2>2, <2>3, <3>1, <3>2, <3>3
  <2> QED BY <1>12, <2>2, <2>3, <2>4 DEF ChunkPlaced, m
<1>14. ChunkPlaced(place', n)
  <2>1. first2[n + 1] = first[n + 1]
    BY <1>8, <1>10
  <2>2. has <=> meta.dict_offset # NoField
    BY DEF has
  <2>3. more = IF has THEN first[n + 1] + 1 ELSE first[n + 1]
    BY <1>8
  <2>4. meta = Chunk(original, n \div G(original), n % G(original)).meta
    BY DEF meta
  <2>5. has => /\ first2[n + 2] = first2[n + 1] + 1 /\ first2[n + 2] <= Len(dicts2)
               /\ dicts2[first2[n + 1] + 1] = meta.dict_offset
    BY <1>4, <1>8, <1>10, <1>11, <2>1, <2>3 DEF first, dicts
  <2>6. ~has => first2[n + 2] = first2[n + 1]
    BY <1>10, <2>1, <2>3
  <2>7. first2[n + 1] \in Nat
    BY <1>8, <2>1
  <2> HIDE DEF more
  <2> QED BY <1>6, <1>9, <1>12, <2>2, <2>4, <2>5, <2>6, <2>7 DEF ChunkPlaced
<1>15. \A i \in 0 .. (n + 1) - 1 : ChunkPlaced(place', i)
  <2> TAKE i \in 0 .. (n + 1) - 1
  <2>1. i \in 0 .. n - 1 \/ i = n
    BY <1>8
  <2> QED BY <1>13, <1>14, <2>1
<1>16. first2[(n + 1) + 1] = Len(dicts2)
  <2>1. (n + 1) + 1 = n + 2
    BY <1>8
  <2>2. first2[n + 2] = more /\ first[n + 1] = Len(dicts)
    BY <1>4, <1>10 DEF first, dicts
  <2>3. CASE has
    BY <1>11, <2>1, <2>2, <2>3
  <2>4. CASE ~has
    <3>1. more = first[n + 1] + 0
      BY <2>4
    <3> QED BY <1>8, <1>11, <2>1, <2>2, <2>4, <3>1
  <2> QED BY <2>3, <2>4
<1>17. Len(first2) = (n + 1) + 1 /\ n + 1 <= N(original)
  BY <1>3, <1>7, <1>8, <1>10
<1> QED BY <1>9, <1>10, <1>11, <1>12, <1>15, <1>16, <1>17 DEF ChunksPlaced

\* Steps between two modules that leave the placement arrays alone.
LEMMA ContentStep ==
  ASSUME ContentInv, pc # "idle", pc # "chunks" \/ nextChunk = N(original), pc' # "chunks",
         UNCHANGED <<original, opts, place>>, OffsetsInv',
         \A n \in DOMAIN dir' : Holds(dir'[n], blob')
  PROVE  ContentInv'
<1>1. (\A n \in DOMAIN dir : Holds(dir[n], blob))'
  BY HoldsNow
<1>2. ChunksPlaced(place)' /\ (nextChunk = N(original))'
  BY DEF ContentInv, ChunksPlaced, ChunkPlaced, nextChunk
<1> QED BY <1>1, <1>2 DEF ContentInv

LEMMA PartsHold ==
  ASSUME FailInv, InputInv, LayoutInv, ContentInv, NEW kind \in PartKinds,
         SkipParts(kind) \/ PlacePart(kind) \/ EndParts(kind)
  PROVE  ContentInv'
<1>1. /\ pc = kind /\ pc' \in {kind, After[kind]} /\ UNCHANGED <<original, opts, before, place>>
      /\ pc # "idle" /\ pc # "chunks" /\ pc' # "chunks" /\ pc \in PlaceSteps
      /\ kind # "schema" /\ kind # "placement" /\ kind # "schema_index"
  BY DEF SkipParts, PlacePart, EndParts, Goto, PartKinds, After, PlaceSteps, LaySteps, Place,
         layoutVars
<1>2. found = original /\ original \in Inputs /\ ~Refused(original, opts)
      /\ IsSeq(blob) /\ Len(blob) \in Nat
  BY <1>1, OfOriginal, LaidOut
<1>3. /\ IsSeq(offsets) /\ Len(offsets) <= Parts(original, kind)
      /\ ~Wanted(kind) => offsets = <<>>
      /\ PartsAt(blob, Append(offsets, Len(blob)), kind, Len(offsets))
  BY <1>1 DEF ContentInv, OffsetsInv
<1>4. CASE SkipParts(kind)
  <2>1. blob' = blob /\ dir' = dir /\ offsets' = <<>>
    BY <1>3, <1>4 DEF SkipParts, layoutVars
  <2>2. OffsetsInv'
    BY <1>1, <2>1, NoOffsets
  <2>3. \A n \in DOMAIN dir' : Holds(dir'[n], blob')
    BY <1>1, <2>1 DEF ContentInv
  <2> QED BY <1>1, <2>2, <2>3, ContentStep
<1>5. CASE PlacePart(kind)
  <2> DEFINE k == Len(offsets)
             part == Part(original, kind, k, opts.limit)
  <2>1. /\ pc' = kind /\ Wanted(kind) /\ k < Parts(original, kind)
        /\ offsets' = Append(offsets, Len(blob)) /\ blob' = blob \o part /\ dir' = dir
    BY <1>1, <1>2, <1>5 DEF PlacePart, Goto
  <2>2. IsSeq(part)
    BY PartIsSeq
  <2>3. \A n \in DOMAIN dir' : Holds(dir'[n], blob')
    BY <1>1, <2>1, <2>2, DirHolds
  <2>4. /\ IsSeq(offsets') /\ Len(offsets') = k + 1 /\ k \in Nat
        /\ \A i \in 1 .. k : \A p :
             Len(p) \in Nat /\ PartAt(blob, Append(offsets, Len(blob)), i, p) =>
               PartAt(blob', Append(offsets', Len(blob')), i, p)
        /\ PartAt(blob', Append(offsets', Len(blob')), k + 1, part)
    BY <1>2, <1>3, <2>1, <2>2, PartAdded
  <2>5. \A i \in 1 .. k + 1 :
          PartAt(blob', Append(offsets', Len(blob')), i, Part(original, kind, i - 1, opts.limit))
    <3> TAKE i \in 1 .. k + 1
    <3>1. CASE i \in 1 .. k
      BY <1>3, <2>4, <3>1, PartIsSeq DEF PartsAt
    <3>2. CASE i = k + 1
      <4>1. i - 1 = k
        BY <2>4, <3>2
      <4> QED BY <2>4, <3>2, <4>1
    <3> QED BY <2>4, <3>1, <3>2
  <2>6. Parts(original, kind) \in Nat
    BY <1>2, FooterShape DEF Parts
  <2> HIDE DEF part
  <2>7. OffsetsInv'
    <3>1. Wanted(pc)'
      <4>1. found' = found
        BY <1>1 DEF found
      <4> QED BY <1>1, <2>1, <4>1 DEF Wanted
    <3>2. Len(offsets') <= Parts(original', pc')
      BY <1>1, <2>1, <2>4, <2>6
    <3>3. pc' \in PartKinds /\ pc' = kind /\ original' = original /\ opts' = opts
      BY <1>1, <2>1
    <3> HIDE DEF k
    <3> QED BY <2>4, <2>5, <3>1, <3>2, <3>3 DEF OffsetsInv, PartsAt
  <2> QED BY <1>1, <2>3, <2>7, ContentStep
<1>6. CASE EndParts(kind)
  <2> DEFINE value == Append(offsets, Len(blob))
             module == Struct(kind, value)
  <2>1. Place(kind, module) /\ offsets' = <<>> /\ Len(offsets) = Parts(original, kind)
    BY <1>2, <1>6 DEF EndParts
  <2>2. IsSeq(module) /\ Len(module) = 2 /\ module[1][2] = value
    <3>1. kind \notin Foreign
      BY DEF PartKinds, Foreign
    <3> QED BY <3>1, PlainStruct DEF Plain, Struct
  <2>3. PartsAt(blob, value, kind, Parts(original, kind))
    BY <1>3, <2>1
  <2> HIDE DEF module, value
  <2>4. 1 <= Len(module) /\ PartsAt(blob, module[1][2], kind, Parts(original, kind))
    BY <2>2, <2>3
  <2>5. \A n \in DOMAIN dir' : Holds(dir'[n], blob')
    BY <1>1, <2>1, <2>2, <2>4, ModuleHolds
  <2>6. OffsetsInv'
    BY <1>1, <2>1, NoOffsets
  <2> QED BY <1>1, <2>5, <2>6, ContentStep
<1> QED BY <1>4, <1>5, <1>6

LEMMA OthersHold ==
  ASSUME FailInv, InputInv, LayoutInv, ContentInv,
         PlaceMetadata \/ PlaceSchemaIndex \/ PlacePlacement \/ PlaceSchema
  PROVE  ContentInv'
<1>1. /\ UNCHANGED <<original, opts, place, offsets>> /\ pc \in PlaceSteps /\ pc # "idle"
      /\ pc # "chunks" /\ pc' # "chunks" /\ pc \notin PartKinds
  BY DEF PlaceMetadata, PlaceSchemaIndex, PlacePlacement, PlaceSchema, Goto, PlaceIf, Place,
         PlaceSteps, LaySteps, PartKinds
<1>2. found = original /\ original \in Inputs /\ ~Refused(original, opts) /\ offsets' = <<>>
  BY <1>1, OfOriginal DEF ContentInv, OffsetsInv
<1>3. OffsetsInv'
  BY <1>1, <1>2, NoOffsets
<1>4. ASSUME blob' = blob, dir' = dir PROVE ContentInv'
  <2>1. \A n \in DOMAIN dir' : Holds(dir'[n], blob')
    BY <1>1, <1>4 DEF ContentInv
  <2> QED BY <1>1, <1>3, <2>1, ContentStep
<1>5. ASSUME NEW kind, NEW value, kind \notin Foreign, kind # "schema", kind \notin PartKinds,
             Place(kind, Struct(kind, value)),
             kind = "placement" => ChunksPlaced(value) /\ Len(value.data_page_offsets) = N(original),
             kind = "schema_index" => HasSchemaIndex(original) /\ value = ElementOffsets(original)
      PROVE  ContentInv'
  <2> DEFINE module == Struct(kind, value)
  <2>1. IsSeq(module) /\ Len(module) = 2 /\ module[1][2] = value
    BY <1>5, PlainStruct DEF Plain, Struct
  <2>2. Place(kind, module)
    BY <1>5
  <2> HIDE DEF module
  <2>3. /\ 1 <= Len(module)
        /\ kind = "placement" =>
             ChunksPlaced(module[1][2]) /\ Len(module[1][2].data_page_offsets) = N(original)
        /\ kind = "schema_index" =>
             HasSchemaIndex(original) /\ module[1][2] = ElementOffsets(original)
        /\ kind \in PartKinds => PartsAt(blob, module[1][2], kind, Parts(original, kind))
    BY <1>5, <2>1
  <2>4. \A n \in DOMAIN dir' : Holds(dir'[n], blob')
    BY <1>1, <2>1, <2>2, <2>3, ModuleHolds
  <2> QED BY <1>1, <1>3, <2>4, ContentStep
<1>6. CASE PlaceMetadata
  <2>1. CASE FileMeta(found).metadata
    <3>1. Place("file_metadata", Struct("file_metadata", 0))
      BY <1>6, <2>1 DEF PlaceMetadata, PlaceIf
    <3> QED BY <1>5, <3>1 DEF Foreign, PartKinds
  <2>2. CASE ~FileMeta(found).metadata
    BY <1>4, <1>6, <2>2 DEF PlaceMetadata, PlaceIf
  <2> QED BY <2>1, <2>2
<1>7. CASE PlaceSchemaIndex
  <2>1. CASE opts.schema_index /\ HasSchemaIndex(found)
    <3>1. Place("schema_index", Struct("schema_index", ElementOffsets(original)))
      BY <1>2, <1>7, <2>1 DEF PlaceSchemaIndex, PlaceIf
    <3> QED BY <1>2, <1>5, <2>1, <3>1 DEF Foreign, PartKinds
  <2>2. CASE ~(opts.schema_index /\ HasSchemaIndex(found))
    BY <1>4, <1>7, <2>2 DEF PlaceSchemaIndex, PlaceIf
  <2> QED BY <2>1, <2>2
<1>8. CASE PlacePlacement
  <2>1. Place("placement", Struct("placement", place))
    BY <1>8 DEF PlacePlacement, PlaceIf
  <2>2. ChunksPlaced(place) /\ Len(place.data_page_offsets) = N(original)
    BY <1>1 DEF ContentInv, nextChunk
  <2> QED BY <1>5, <2>1, <2>2 DEF Foreign, PartKinds
<1>9. CASE PlaceSchema
  <2>1. Place("schema", Schema(original))
    BY <1>2, <1>9 DEF PlaceSchema, PlaceIf
  <2>2. IsSeq(Schema(original))
    BY <1>2, PlainSchema DEF Plain
  <2>3. "schema" \notin PartKinds
    BY DEF PartKinds
  <2>4. \A n \in DOMAIN dir' : Holds(dir'[n], blob')
    BY <1>1, <2>1, <2>2, <2>3, ModuleHolds
  <2> QED BY <1>1, <1>3, <2>4, ContentStep
<1> QED BY <1>6, <1>7, <1>8, <1>9

LEMMA LayHolds == ASSUME FailInv, InputInv, LayoutInv, ContentInv, Lay PROVE ContentInv'
<1>1. CASE AddChunk
  <2>1. /\ pc = "chunks" /\ pc' = "chunks" /\ pc # "idle" /\ pc \notin PartKinds
        /\ UNCHANGED <<original, opts, offsets, blob, dir>>
    BY <1>1 DEF AddChunk, Goto, PartKinds
  <2>2. ChunksPlaced(place')
    BY <1>1, ChunkHolds
  <2>3. ChunksPlaced(place)'
    BY <2>1, <2>2 DEF ChunksPlaced, ChunkPlaced
  <2>4. offsets' = <<>>
    BY <2>1 DEF ContentInv, OffsetsInv
  <2>5. OffsetsInv'
    BY <2>1, <2>4, NoOffsets
  <2>6. \A n \in DOMAIN dir' : Holds(dir'[n], blob')
    BY <2>1 DEF ContentInv
  <2>7. (\A n \in DOMAIN dir : Holds(dir[n], blob))'
    BY <2>1, <2>6, HoldsNow
  <2> QED BY <2>1, <2>3, <2>5, <2>7 DEF ContentInv
<1>2. CASE Ragged
  BY <1>2 DEF Ragged, ContentInv
<1>3. CASE EndChunks
  <2>1. /\ pc = "chunks" /\ pc' = "offset_index" /\ pc # "idle" /\ pc \notin PartKinds
        /\ UNCHANGED <<original, opts, place, offsets, blob, dir, before>> /\ nextChunk = N(found)
    BY <1>3 DEF EndChunks, Goto, PartKinds, layoutVars
  <2>2. found = original
    BY <2>1, OfOriginal
  <2>3. offsets' = <<>>
    BY <2>1 DEF ContentInv, OffsetsInv
  <2>4. OffsetsInv'
    BY <2>1, <2>3, NoOffsets
  <2>5. \A n \in DOMAIN dir' : Holds(dir'[n], blob')
    BY <2>1 DEF ContentInv
  <2> QED BY <2>1, <2>2, <2>4, <2>5, ContentStep
<1>4. CASE PlaceRoot
  <2>1. /\ pc = "root" /\ pc' = "open" /\ pc # "idle" /\ pc \notin PartKinds /\ pc \in PlaceSteps
        /\ UNCHANGED <<original, opts, place, offsets, dir>> /\ blob' = blob \o Struct("root", dir)
    BY <1>4 DEF PlaceRoot, Goto, PartKinds, PlaceSteps, LaySteps
  <2>2. offsets' = <<>>
    BY <2>1 DEF ContentInv, OffsetsInv
  <2>3. OffsetsInv'
    BY <2>1, <2>2, NoOffsets
  <2>4. IsSeq(Struct("root", dir))
    BY PlainStruct DEF Foreign, Plain
  <2>5. \A n \in DOMAIN dir' : Holds(dir'[n], blob')
    BY <2>1, <2>4, DirHolds
  <2> QED BY <2>1, <2>3, <2>5, ContentStep
<1> QED BY <1>1, <1>2, <1>3, <1>4, PartsHold, OthersHold DEF Lay

-----------------------------------------------------------------------------
(* What a reader finds in a file with a trailer.                            *)

FileLands(file) ==
  \A n \in DOMAIN Directory(file) :
    LET e == Directory(file)[n]
    IN ContentRight(file, e.kind, At(file, e.off)[2])

FileBounds(file) ==
  \A n \in DOMAIN Directory(file) : Directory(file)[n].kind = "column_index" =>
    LET offs == At(file, Directory(file)[n].off)[2] IN
    \A c \in 0 .. C(original) - 1, g \in 0 .. G(original) - 1 :
      LET i == c * G(original) + g + 1 IN
      offs[i] # offs[i + 1] =>
        BoundsKept(ReadRange(original, Chunk(original, c, g).column_index), At(file, offs[i])[2])

SeeksInv == WholeInv /\ ContentInv /\ SeeksLand /\ PageBoundsKept

\* A part of the blob is that part of the file.
LEMMA PartLands ==
  ASSUME NEW file, NEW cells, Len(cells) \in Nat,
         \A off \in 0 .. Len(cells) - 1 : At(file, off) = cells[off + 1],
         NEW offs, NEW i, NEW part, Len(part) \in Nat, PartAt(cells, offs, i, part)
  PROVE  Delimited(file, offs, i, part)
<1>1. offs[i] \in Nat /\ offs[i + 1] = offs[i] + Len(part) /\ offs[i + 1] <= Len(cells)
      /\ \A j \in 1 .. Len(part) : cells[offs[i] + j] = part[j]
  BY DEF PartAt
<1>2. \A j \in 1 .. Len(part) : At(file, offs[i] + j - 1) = part[j]
  <2> TAKE j \in 1 .. Len(part)
  <2>1. offs[i] + j - 1 \in 0 .. Len(cells) - 1 /\ (offs[i] + j - 1) + 1 = offs[i] + j
    BY <1>1
  <2> QED BY <1>1, <2>1
<1> QED BY <1>1, <1>2 DEF Delimited

\* Arrays that are right about every chunk are right.
LEMMA ChunksArePlaced ==
  ASSUME original \in Inputs, NEW o, ~Refused(original, o),
         NEW arrays, ChunksPlaced(arrays), Len(arrays.data_page_offsets) = N(original)
  PROVE  /\ PlacementRight(arrays)
         /\ \A c \in 0 .. C(original) - 1, g \in 0 .. G(original) - 1 :
              c < Len(RowGroups(original)[g + 1])
<1>1. G(original) \in Nat \ {0} /\ C(original) \in Nat /\ N(original) \in Nat
  BY FooterShape
<1>2. ASSUME NEW c \in 0 .. C(original) - 1, NEW g \in 0 .. G(original) - 1
      PROVE  LET meta == Chunk(original, c, g).meta
                 n == c * G(original) + g + 1
                 first == arrays.first_dict
             IN /\ arrays.data_page_offsets[n] = meta.data_page_offset
                /\ IF meta.dict_offset = NoField
                   THEN first[n + 1] = first[n]
                   ELSE first[n + 1] = first[n] + 1
                        /\ arrays.dict_offsets[first[n] + 1] = meta.dict_offset
                /\ c < Len(RowGroups(original)[g + 1])
  <2> DEFINE i == c * G(original) + g
  <2>1. i \in 0 .. N(original) - 1 /\ i \div G(original) = c /\ i % G(original) = g
    <3>1. i \in 0 .. C(original) * G(original) - 1 /\ i \div G(original) = c /\ i % G(original) = g
      <4>1. PICK cs \in Nat, gs \in Nat \ {0} : cs = C(original) /\ gs = G(original)
        BY <1>1
      <4>2. c \in 0 .. cs - 1 /\ g \in 0 .. gs - 1
        BY <4>1
      <4>3. c * gs + g \in 0 .. cs * gs - 1 /\ (c * gs + g) \div gs = c /\ (c * gs + g) % gs = g
        BY <4>2, ChunkNumber
      <4> QED BY <4>1, <4>3, Zenon
    <3>2. N(original) = C(original) * G(original)
      BY DEF N
    <3> QED BY <3>1, <3>2, Zenon
  <2> HIDE DEF i
  <2>2. ChunkPlaced(arrays, i)
    BY <2>1 DEF ChunksPlaced
  <2>3. (i + 1) + 1 = i + 2
    BY <1>1, <2>1
  <2> QED BY <2>1, <2>2, <2>3 DEF ChunkPlaced, i
<1> QED BY <1>2 DEF PlacementRight

\* A range is taken for usable when it lies before the footer.
LEMMA UsableIs ==
  ASSUME NEW file, FooterStart(file) \in Nat, NEW r \in Ranges
  PROVE  Usable(file, r) <=> r.has /\ r.len > 0 /\ r.off \in 0 .. FooterStart(file) - r.len
<1>1. r.off \in Int /\ r.len \in Int /\ r.has \in BOOLEAN
  BY DEF Ranges
<1> QED BY <1>1 DEF Usable

\* The offset of an element in the schema module is that of its first cell.
LEMMA ElementIs ==
  ASSUME original \in Inputs, NEW o, ~Refused(original, o), HasSchema(original),
         NEW n \in DOMAIN ElementOffsets(original)
  PROVE  LET off == ElementOffsets(original)[n]
         IN off \in Nat /\ off + 1 \in 1 .. Len(Schema(original))
            /\ Schema(original)[off + 1] = <<"element", <<n, 1>>>>
<1> DEFINE span == FileMeta(original).schema
           at == SpanOffsets(span)[n]
           head == <<<<"field 1", 0>>>>
           tail == <<StopCell>>
<1>1. IsSeq(original) /\ Len(original) \in Nat /\ Len(original) >= 2
  BY InputsAssumption DEF IsSeq, Refused
<1>2. FooterStart(original) + 1 \in 1 .. Len(original)
  BY <1>1 DEF Refused, FooterStart
<1>3. FooterStart(original) + 1 \in DOMAIN original
  BY <1>1, <1>2 DEF IsSeq
<1>4. original[FooterStart(original) + 1][1] = "footer"
      /\ span = original[FooterStart(original) + 1][2].schema /\ span # NoField
  BY DEF Refused, FileMeta, HasSchema
<1>5. n \in 1 .. span[1][2] /\ ElementOffsets(original)[n] = 1 + at
  BY DEF ElementOffsets, SpanOffsets, ElementsBase
<1>6. /\ IsSeq(span)
      /\ \E k \in 1 .. Len(span) - 1 : span[k + 1] = <<"element", <<n, 1>>>>
  BY <1>3, <1>4, <1>5, InputsAssumption DEF IsSeq
<1>7. at \in 1 .. Len(span) - 1 /\ span[at + 1] = <<"element", <<n, 1>>>>
  BY <1>5, <1>6 DEF SpanOffsets
<1>8. Schema(original) = head \o span \o tail
  BY DEF Schema, SchemaSpan
<1>9. IsSeq(head) /\ IsSeq(tail) /\ Len(head) = 1 /\ Len(tail) = 1
  BY PlainCell DEF Plain, Foreign, StopCell
<1> HIDE DEF span, at, head, tail
<1>10. Len(span) \in Nat /\ at + 1 \in 1 .. Len(span) /\ at \in Nat
  BY <1>6, <1>7 DEF IsSeq
<1>11. /\ IsSeq(head \o span) /\ Len(head \o span) = 1 + Len(span)
       /\ (head \o span)[1 + (at + 1)] = span[at + 1]
  <2>1. IsSeq(head \o span) /\ Len(head \o span) = Len(head) + Len(span)
    BY <1>6, <1>9, ConcatCells
  <2>2. (head \o span)[Len(head) + (at + 1)] = span[at + 1]
    BY <1>6, <1>9, <1>10, ConcatAt, ZenonT(30)
  <2> QED BY <1>9, <2>1, <2>2
<1>12. /\ Len((head \o span) \o tail) = Len(head \o span) + Len(tail)
       /\ \A j \in 1 .. Len(head \o span) : ((head \o span) \o tail)[j] = (head \o span)[j]
  BY <1>9, <1>11, ConcatCells
<1>13. /\ Len(Schema(original)) = Len(span) + 2
       /\ Schema(original)[1 + (at + 1)] = (head \o span)[1 + (at + 1)]
  BY <1>8, <1>9, <1>10, <1>11, <1>12
<1>14. (1 + at) + 1 = 1 + (at + 1)
  BY <1>10
<1> QED BY <1>5, <1>7, <1>10, <1>11, <1>13, <1>14

LEMMA TrailerMeansLanding ==
  ASSUME FailInv, InputInv, LayoutInv, ContentInv, pc # "idle", WithRoot,
         NEW file, StartsLikeWhole(file), HasTrailer(file)
  PROVE  FileLands(file) /\ FileBounds(file)
<1>1. original \in Inputs /\ ~Refused(original, opts) /\ opts \in Options /\ opts.limit \in Int
  BY OfOriginal, OptionsAssumption
<1>2. /\ FooterStart(original) \in 0 .. Len(original) /\ Len(original) \in Nat
      /\ G(original) \in Nat \ {0} /\ C(original) \in Nat /\ N(original) \in Nat
  BY <1>1, FooterShape
<1>3. \A c \in 0 .. C(original) - 1, g \in 0 .. G(original) - 1 :
        c \in 0 .. Len(RowGroups(original)[g + 1]) - 1
  <2>1. ChunksPlaced(place) /\ Len(place.data_page_offsets) = N(original)
    BY DEF ContentInv, WithRoot, Writing, nextChunk
  <2>2. \A g \in 0 .. G(original) - 1 : Len(RowGroups(original)[g + 1]) \in Nat
    BY <1>1, FooterShape
  <2>3. \A c \in 0 .. C(original) - 1, g \in 0 .. G(original) - 1 :
          c < Len(RowGroups(original)[g + 1])
    BY <1>1, <2>1, ChunksArePlaced
  <2> QED BY <1>2, <2>2, <2>3
<1>4. Directory(file) = dir /\ Len(blob) \in Nat
      /\ \A off \in 0 .. Len(blob) - 1 : At(file, off) = blob[off + 1]
  BY CellsOfWhole, TrailerMeansWhole
<1>5. ASSUME NEW n \in DOMAIN dir
      PROVE  /\ Placed(dir[n], blob, Len(blob) - 2) /\ Holds(dir[n], blob)
             /\ dir[n].kind # "schema" => At(file, dir[n].off) = blob[dir[n].off + 1]
  <2>1. Placed(dir[n], blob, Len(blob) - 2) /\ Holds(dir[n], blob)
    BY DEF LayoutInv, ModulesEnd, ContentInv
  <2>2. dir[n].kind # "schema" => dir[n].off \in 0 .. Len(blob) - 1
    BY <1>4, <2>1 DEF Placed
  <2> QED BY <1>4, <2>1, <2>2
\* The page index of chunk (c, g).
<1>6. ASSUME NEW n \in DOMAIN dir, dir[n].kind \in {"offset_index", "column_index"},
             NEW c \in 0 .. C(original) - 1, NEW g \in 0 .. G(original) - 1
      PROVE  LET r == Chunk(original, c, g)[dir[n].kind]
                 offs == At(file, dir[n].off)[2]
                 i == c * G(original) + g + 1
                 usable == r.has /\ r.len > 0 /\ r.off \in 0 .. FooterStart(original) - r.len
             IN /\ offs[i] \in Nat /\ (usable <=> Usable(original, r))
                /\ usable => Delimited(file, offs, i, PageDescriptor(original, dir[n].kind, r, opts.limit))
                /\ ~usable => Delimited(file, offs, i, <<>>)
  <2> DEFINE kind == dir[n].kind
             r == Chunk(original, c, g)[kind]
             offs == At(file, dir[n].off)[2]
             k == c * G(original) + g
             part == Part(original, kind, k, opts.limit)
             usable == r.has /\ r.len > 0 /\ r.off \in 0 .. FooterStart(original) - r.len
  <2>1. kind \in PartKinds /\ kind # "row_group_statistics" /\ kind # "schema"
    BY <1>6 DEF PartKinds
  <2>2. PartsAt(blob, offs, kind, N(original))
    <3>1. PartsAt(blob, blob[dir[n].off + 1][2], kind, Parts(original, kind))
      BY <1>5, <2>1 DEF Holds
    <3> QED BY <1>5, <2>1, <3>1 DEF Parts
  <2>3. k \in 0 .. N(original) - 1 /\ k \div G(original) = c /\ k % G(original) = g
    <3>1. PICK cs \in Nat, gs \in Nat \ {0} : cs = C(original) /\ gs = G(original)
      BY <1>2
    <3>2. c \in 0 .. cs - 1 /\ g \in 0 .. gs - 1
      BY <3>1
    <3>3. c * gs + g \in 0 .. cs * gs - 1 /\ (c * gs + g) \div gs = c /\ (c * gs + g) % gs = g
      BY <3>2, ChunkNumber
    <3>4. N(original) = cs * gs
      BY <3>1 DEF N
    <3> QED BY <3>1, <3>3, <3>4, Zenon
  <2> HIDE DEF k
  <2>4. PartAt(blob, offs, k + 1, part)
    <3>1. k + 1 \in 1 .. N(original) /\ (k + 1) - 1 = k
      BY <1>2, <2>3
    <3>2. PartAt(blob, offs, k + 1, Part(original, kind, (k + 1) - 1, opts.limit))
      BY <2>2, <3>1 DEF PartsAt
    <3> QED BY <3>1, <3>2
  <2>5. Delimited(file, offs, k + 1, part)
    <3>1. Len(part) \in Nat
      BY <2>1, PartIsSeq
    <3> HIDE DEF part, offs
    <3> QED BY <1>4, <2>4, <3>1, PartLands
  <2>6. r \in Ranges
    <3>1. c \in 0 .. Len(RowGroups(original)[g + 1]) - 1
      BY <1>3
    <3>2. /\ Chunk(original, c, g).offset_index \in Ranges
          /\ Chunk(original, c, g).column_index \in Ranges
      BY <1>1, <3>1, FooterShape
    <3> QED BY <1>6, <3>2
  <2>7. part = IF Usable(original, r) THEN PageDescriptor(original, kind, r, opts.limit) ELSE <<>>
    BY <2>1, <2>3 DEF Part
  <2>8. usable <=> Usable(original, r)
    <3>1. FooterStart(original) \in Nat
      BY <1>2
    <3> HIDE DEF r
    <3> QED BY <2>6, <3>1, UsableIs
  <2> HIDE DEF usable, offs, r, kind, part
  <2>9. /\ offs[k + 1] \in Nat /\ (usable <=> Usable(original, r))
        /\ usable => Delimited(file, offs, k + 1, PageDescriptor(original, kind, r, opts.limit))
        /\ ~usable => Delimited(file, offs, k + 1, <<>>)
    BY <2>4, <2>5, <2>7, <2>8 DEF PartAt
  <2> QED BY <2>9 DEF k, usable, offs, r, kind
<1>7. ASSUME NEW n \in DOMAIN dir
      PROVE  ContentRight(file, dir[n].kind, At(file, dir[n].off)[2])
  <2> DEFINE value == At(file, dir[n].off)[2]
  <2>1. dir[n].kind # "schema" => value = blob[dir[n].off + 1][2]
    BY <1>5
  <2> HIDE DEF value
  <2>2. CASE dir[n].kind = "placement"
    <3>1. ChunksPlaced(value) /\ Len(value.data_page_offsets) = N(original)
      BY <1>5, <2>1, <2>2 DEF Holds
    <3>2. PlacementRight(value)
      BY <1>1, <3>1, ChunksArePlaced
    <3> QED BY <2>2, <3>2 DEF ContentRight, value
  <2>3. CASE dir[n].kind = "row_group_statistics"
    <3>1. PartsAt(blob, value, "row_group_statistics", C(original))
      BY <1>5, <2>1, <2>3 DEF Holds, PartKinds, Parts
    <3>2. ASSUME NEW c \in 0 .. C(original) - 1
          PROVE  Delimited(file, value, c + 1, Part(original, "row_group_statistics", c, opts.limit))
      <4> DEFINE part == Part(original, "row_group_statistics", c, opts.limit)
      <4>1. c + 1 \in 1 .. C(original) /\ (c + 1) - 1 = c
        BY <1>2
      <4>2. PartAt(blob, value, c + 1, Part(original, "row_group_statistics", (c + 1) - 1, opts.limit))
        BY <3>1, <4>1 DEF PartsAt
      <4>3. Len(part) \in Nat
        BY PartIsSeq DEF PartKinds
      <4>4. PartAt(blob, value, c + 1, part)
        BY <4>1, <4>2
      <4> HIDE DEF part
      <4> QED BY <1>4, <4>3, <4>4, PartLands DEF part
    <3>3. StatisticsLand(file, value)
      BY <3>2 DEF StatisticsLand, Part, HasStats
    <3> QED BY <2>3, <3>3 DEF ContentRight, value
  <2>4. CASE dir[n].kind \in {"offset_index", "column_index"}
    <3>1. PagesLand(file, dir[n].kind, value)
      BY <1>1, <1>6, <2>4 DEF PagesLand, value
    <3> QED BY <2>4, <3>1 DEF ContentRight, value
  <2>5. CASE dir[n].kind = "schema_index"
    <3>1. HasSchema(original) /\ value = ElementOffsets(original)
      BY <1>5, <2>1, <2>5 DEF Holds, HasSchemaIndex
    <3>2. ASSUME NEW s \in DOMAIN dir, dir[s].kind = "schema", NEW m \in DOMAIN value
          PROVE  At(file, dir[s].off + value[m]) = <<"element", <<m, 1>>>>
      <4>1. value[m] + 1 \in 1 .. Len(Schema(original))
            /\ Schema(original)[value[m] + 1] = <<"element", <<m, 1>>>>
        BY <1>1, <3>1, ElementIs
      <4>2. /\ dir[s].off \in Nat /\ dir[s].len \in Nat /\ dir[s].off + dir[s].len <= Len(blob) - 2
            /\ dir[s].len = Len(Schema(original))
            /\ \A j \in 1 .. dir[s].len : blob[dir[s].off + j] = Schema(original)[j]
        BY <1>5, <3>2 DEF Placed
      <4>3. value[m] \in Nat
        BY <1>1, <3>1, <3>2, ElementIs
      <4>4. dir[s].off + value[m] \in 0 .. Len(blob) - 1
            /\ dir[s].off + value[m] + 1 = dir[s].off + (value[m] + 1)
        <5>1. \A a \in Nat, b \in Nat, l \in Nat, n1 \in Nat :
                b + 1 \in 1 .. l /\ a + l <= n1 - 2 =>
                  a + b \in 0 .. n1 - 1 /\ a + b + 1 = a + (b + 1)
          OBVIOUS
        <5>2. value[m] + 1 \in 1 .. dir[s].len
          BY <4>1, <4>2
        <5> QED BY <1>4, <4>2, <4>3, <5>1, <5>2
      <4>5. At(file, dir[s].off + value[m]) = blob[dir[s].off + value[m] + 1]
        BY <1>4, <4>4
      <4>6. blob[dir[s].off + (value[m] + 1)] = Schema(original)[value[m] + 1]
        BY <4>1, <4>2
      <4> QED BY <4>1, <4>4, <4>5, <4>6
    <3>3. ElementsLand(file, value)
      BY <1>4, <3>2 DEF ElementsLand
    <3> QED BY <2>5, <3>3 DEF ContentRight, value
  <2>6. CASE dir[n].kind \notin {"placement", "row_group_statistics", "offset_index",
                                 "column_index", "schema_index"}
    BY <2>6 DEF ContentRight
  <2> QED BY <2>2, <2>3, <2>4, <2>5, <2>6
<1>8. ASSUME NEW n \in DOMAIN dir, dir[n].kind = "column_index",
             NEW c \in 0 .. C(original) - 1, NEW g \in 0 .. G(original) - 1
      PROVE  LET offs == At(file, dir[n].off)[2]
                 i == c * G(original) + g + 1
             IN offs[i] # offs[i + 1] =>
                  BoundsKept(ReadRange(original, Chunk(original, c, g).column_index),
                             At(file, offs[i])[2])
  <2> DEFINE offs == At(file, dir[n].off)[2]
             i == c * G(original) + g + 1
             r == Chunk(original, c, g).column_index
             ci == ReadRange(original, r)
             part == PageDescriptor(original, "column_index", r, opts.limit)
  <2> HIDE DEF offs, i
  <2>1. /\ Usable(original, r) => Delimited(file, offs, i, part)
        /\ ~Usable(original, r) => Delimited(file, offs, i, <<>>)
    BY <1>6, <1>8 DEF offs, i
  <2>2. SUFFICES ASSUME offs[i] # offs[i + 1] PROVE BoundsKept(ci, At(file, offs[i])[2])
    BY DEF offs, i
  <2>3. part = <<<<"ColumnIndexChunk", ColumnIndexChunk(ci, opts.limit)>>, StopCell>>
    BY DEF PageDescriptor, Struct
  <2> HIDE DEF part
  <2>4. Usable(original, r)
    <3> SUFFICES ASSUME ~Usable(original, r) PROVE FALSE
      OBVIOUS
    <3>1. offs[i + 1] = offs[i] + Len(<<>>)
      BY <2>1 DEF Delimited
    <3>2. offs[i] \in Nat
      BY <1>6, <1>8 DEF offs, i
    <3> QED BY <2>2, <3>1, <3>2
  <2>5. At(file, offs[i] + 1 - 1) = part[1]
    <3>1. 1 \in 1 .. Len(part)
      BY <2>3
    <3> QED BY <2>1, <2>4, <3>1 DEF Delimited
  <2>6. offs[i] \in Nat
    BY <1>6, <1>8 DEF offs, i
  <2>7. At(file, offs[i])[2] = ColumnIndexChunk(ci, opts.limit)
    BY <2>3, <2>5, <2>6
  <2>8. IsColumnIndex(ci)
    <3>1. c \in 0 .. Len(RowGroups(original)[g + 1]) - 1
      BY <1>3
    <3> QED BY <1>1, <2>4, <3>1, ColumnIndexAssumption DEF IsColumnIndex
  <2> QED BY <1>1, <2>7, <2>8, BoundsSurvive
<1>9. FileLands(file)
  BY <1>4, <1>7 DEF FileLands
<1>10. FileBounds(file)
  BY <1>4, <1>8 DEF FileBounds
<1> QED BY <1>9, <1>10

-----------------------------------------------------------------------------
(* Each step keeps what the files lead to.                                  *)

LEMMA FileStays ==
  ASSUME original' = original
  PROVE  /\ \A file : FileLands(file)' <=> FileLands(file)
         /\ \A file : FileBounds(file)' <=> FileBounds(file)
<1>1. ASSUME NEW file, NEW kind, NEW value
      PROVE  ContentRight(file, kind, value)' <=> ContentRight(file, kind, value)
  BY DEF ContentRight, PlacementRight, StatisticsLand, PagesLand, ElementsLand
<1>2. ASSUME NEW file PROVE FileLands(file)' <=> FileLands(file)
  BY <1>1 DEF FileLands
<1>3. ASSUME NEW file PROVE FileBounds(file)' <=> FileBounds(file)
  BY DEF FileBounds
<1> QED BY <1>2, <1>3

\* The two properties, file by file.
LEMMA FileByFile ==
  /\ SeeksLand <=>
       \A path \in DOMAIN disk : \A file :
         file = disk[path] /\ HasTrailer(file) => FileLands(file)
  /\ PageBoundsKept <=>
       \A path \in DOMAIN disk : \A file :
         file = disk[path] /\ HasTrailer(file) => FileBounds(file)
BY DEF SeeksLand, PageBoundsKept, FileLands, FileBounds

\* A step that changes no file but the output, and that in a good way.
LEMMA FilesLand ==
  ASSUME SeeksLand, PageBoundsKept, original' = original, DOMAIN disk' = DOMAIN disk,
         NEW new,
         \A path \in DOMAIN disk : disk'[path] = disk[path] \/ disk'[path] = new,
         HasTrailer(new) => FileLands(new) /\ FileBounds(new)
  PROVE  SeeksLand' /\ PageBoundsKept'
<1>1. ASSUME NEW path \in DOMAIN disk', NEW file, file = disk'[path], HasTrailer(file)
      PROVE  FileLands(file)' /\ FileBounds(file)'
  <2>1. FileLands(file) /\ FileBounds(file)
    BY <1>1, FileByFile
  <2> QED BY <2>1, FileStays
<1>2. /\ SeeksLand' <=>
           (\A path \in DOMAIN disk : \A file :
              file = disk[path] /\ HasTrailer(file) => FileLands(file))'
      /\ PageBoundsKept' <=>
           (\A path \in DOMAIN disk : \A file :
              file = disk[path] /\ HasTrailer(file) => FileBounds(file))'
  BY FileByFile, PTL
<1> QED BY <1>1, <1>2

LEMMA FilesLandStill ==
  ASSUME SeeksLand, PageBoundsKept, UNCHANGED <<original, disk>>
  PROVE  SeeksLand' /\ PageBoundsKept'
BY FilesLand DEF HasTrailer

\* From the opened output on the modules hold what they held.
LEMMA ContentStays ==
  ASSUME ContentInv, WithRoot, pc # "idle", WithRoot' \/ pc' = "idle",
         UNCHANGED <<original, opts, before, layoutVars>>
  PROVE  ContentInv'
<1>1. CASE pc' = "idle"
  BY <1>1 DEF ContentInv
<1>2. CASE pc' # "idle"
  <2>1. pc # "chunks" /\ pc' # "chunks" /\ pc \notin PartKinds /\ pc' \notin PartKinds
    BY <1>2 DEF WithRoot, Writing, PartKinds
  <2>2. UNCHANGED <<place, offsets, blob, dir>>
    BY DEF layoutVars
  <2>3. offsets' = <<>>
    BY <2>1, <2>2 DEF ContentInv, OffsetsInv
  <2>4. OffsetsInv'
    BY <2>1, <2>3 DEF OffsetsInv
  <2>5. \A n \in DOMAIN dir' : Holds(dir'[n], blob')
    BY <2>2 DEF ContentInv
  <2> QED BY <2>1, <2>2, <2>4, <2>5, ContentStep DEF ContentInv
<1> QED BY <1>1, <1>2

LEMMA InitSeeks == Init => SeeksInv
<1> SUFFICES ASSUME Init PROVE SeeksInv
  OBVIOUS
<1>1. ContentInv
  BY DEF Init, ContentInv
<1>2. SeeksLand /\ PageBoundsKept
  BY NoTrailerYet DEF SeeksLand, PageBoundsKept
<1> QED BY <1>1, <1>2, InitWhole DEF SeeksInv

LEMMA StartSeeks == ASSUME SeeksInv, Start PROVE SeeksInv'
<1>1. WholeInv'
  BY StartWhole DEF SeeksInv
<1>2. /\ place' = NoPlace /\ offsets' = <<>> /\ blob' = <<>> /\ dir' = <<>>
      /\ pc' \in {"idle", "chunks"} /\ UNCHANGED <<original, disk>>
  BY DEF Start
<1>3. ContentInv'
  <2> SUFFICES ASSUME pc' # "idle" PROVE ContentInv'
    BY DEF ContentInv
  <2>1. N(original') \in Nat
    <3>1. original' \in Inputs /\ ~Refused(original', opts')
      BY <1>1 DEF WholeInv, FailInv, FilesInv, InputInv, LayoutInv
    <3> QED BY <3>1, FooterShape
  <2>2. ChunksPlaced(place)'
    <3>1. IsSeq(<<>>) /\ IsSeq(<<0>>)
      BY EmptyIsSeq, AppendIsSeq DEF IsSeq, Range
    <3>2. /\ NoPlace.data_page_offsets = <<>> /\ NoPlace.first_dict = <<0>>
          /\ NoPlace.dict_offsets = <<>> /\ Len(<<>>) = 0 /\ Len(<<0>>) = 1 /\ <<0>>[1] = 0
      BY DEF NoPlace
    <3> QED BY <1>2, <2>1, <3>1, <3>2 DEF ChunksPlaced
  <2>3. OffsetsInv' /\ pc' = "chunks"
    BY <1>2 DEF OffsetsInv, PartKinds
  <2>4. DOMAIN dir' = {}
    BY <1>2
  <2> QED BY <2>2, <2>3, <2>4 DEF ContentInv
<1> QED BY <1>1, <1>2, <1>3, FilesLandStill DEF SeeksInv

LEMMA LaySeeks == ASSUME SeeksInv, Lay PROVE SeeksInv'
<1>1. WholeInv' /\ ContentInv'
  BY LayWhole, LayHolds DEF SeeksInv, WholeInv
<1>2. UNCHANGED <<original, disk>>
  BY LayShape
<1> QED BY <1>1, <1>2, FilesLandStill DEF SeeksInv

LEMMA OpenOutSeeks == ASSUME SeeksInv, OpenOut PROVE SeeksInv'
<1>1. WholeInv'
  BY OpenOutWhole DEF SeeksInv
<1>2. /\ disk' = [disk EXCEPT ![opts.out] = <<>>]
      /\ UNCHANGED <<original, opts, before, layoutVars>>
      /\ WithRoot /\ WithRoot' /\ pc # "idle"
  BY DEF OpenOut, WithRoot, Writing
<1>3. ContentInv'
  BY <1>2, ContentStays DEF SeeksInv
<1>4. DOMAIN disk' = DOMAIN disk
      /\ \A path \in DOMAIN disk : disk'[path] = disk[path] \/ disk'[path] = <<>>
  BY <1>2
<1>5. ~HasTrailer(<<>>)
  BY DEF HasTrailer
<1> QED BY <1>1, <1>2, <1>3, <1>4, <1>5, FilesLand DEF SeeksInv

LEMMA OutputStarts ==
  StreamInv /\ Writing => \A file : file = disk[opts.out] => StartsLikeWhole(file)
BY DEF StreamInv

\* The cell that completes a file completes the one the modules were laid for.
LEMMA FlushSeeks == ASSUME SeeksInv, Flush PROVE SeeksInv'
<1>1. WholeInv' /\ FailInv /\ InputInv /\ LayoutInv /\ ContentInv
  BY FlushWhole DEF SeeksInv, WholeInv
<1>2. /\ Writing /\ Writing' /\ WithRoot /\ WithRoot' /\ pc # "idle"
      /\ UNCHANGED <<original, opts, before, layoutVars>>
      /\ disk' = [disk EXCEPT ![opts.out] = Append(@, stream[Len(@) + 1])]
  BY DEF Flush, Writing, WithRoot
<1>3. ContentInv'
  BY <1>2, ContentStays DEF SeeksInv
<1>4. PICK new : new = disk'[opts.out]
  OBVIOUS
<1>5. StartsLikeWhole(new)
  <2>1. \A file : StartsLikeWhole(file)' <=> StartsLikeWhole(file)
    BY <1>1, <1>2, LayoutStays
  <2>2. (\A file : file = disk[opts.out] => StartsLikeWhole(file))'
    <3>1. StreamInv' /\ Writing'
      BY <1>1, <1>2 DEF WholeInv
    <3> QED BY <3>1, OutputStarts, PTL
  <2>3. StartsLikeWhole(new)'
    BY <1>2, <1>4, <2>2
  <2> QED BY <2>1, <2>3
<1>6. HasTrailer(new) => FileLands(new) /\ FileBounds(new)
  BY <1>1, <1>2, <1>5, TrailerMeansLanding
<1>7. DOMAIN disk' = DOMAIN disk
      /\ \A path \in DOMAIN disk : disk'[path] = disk[path] \/ disk'[path] = new
  BY <1>2, <1>4
<1> QED BY <1>1, <1>2, <1>3, <1>6, <1>7, FilesLand DEF SeeksInv

LEMMA WriteSeeks ==
  ASSUME SeeksInv,
         CopyPrefix \/ ShortRead \/ EndCopy \/ WriteBlob \/ WriteTrailer \/ DiskFull
  PROVE  SeeksInv'
<1>1. WholeInv'
  BY WriteWhole, DiskFullWhole DEF SeeksInv
<1>2. UNCHANGED <<original, disk, opts, before, layoutVars>> /\ WithRoot /\ WithRoot' /\ pc # "idle"
  BY DEF CopyPrefix, ShortRead, EndCopy, WriteBlob, WriteTrailer, DiskFull, Goto, Writing, WithRoot
<1>3. ContentInv'
  BY <1>2, ContentStays DEF SeeksInv
<1> QED BY <1>1, <1>2, <1>3, FilesLandStill DEF SeeksInv

LEMMA EndSeeks == ASSUME SeeksInv, OpenFails \/ Close \/ Crash PROVE SeeksInv'
<1>1. WholeInv'
  BY EndWhole DEF SeeksInv
<1>2. UNCHANGED <<original, disk>> /\ pc' = "idle"
  BY DEF OpenFails, Close, Crash
<1> QED BY <1>1, <1>2, FilesLandStill DEF SeeksInv, ContentInv

LEMMA StepSeeks == SeeksInv /\ [Next]_vars => SeeksInv'
<1> SUFFICES ASSUME SeeksInv, [Next]_vars PROVE SeeksInv'
  OBVIOUS
<1>1. CASE Start BY <1>1, StartSeeks
<1>2. CASE Lay BY <1>2, LaySeeks
<1>3. CASE Output
  BY <1>3, OpenOutSeeks, FlushSeeks, WriteSeeks, EndSeeks DEF Output
<1>4. CASE Crash BY <1>4, EndSeeks
<1>5. CASE UNCHANGED vars
  <2>1. WholeInv'
    BY <1>5, StepWhole DEF SeeksInv
  <2>2. UNCHANGED <<original, disk, opts, before, pc, place, offsets, blob, dir>>
    BY <1>5 DEF vars, layoutVars
  <2>3. (\A n \in DOMAIN dir : Holds(dir[n], blob))' <=> \A n \in DOMAIN dir : Holds(dir[n], blob)
    BY <2>2 DEF Holds, ChunksPlaced, ChunkPlaced, PartsAt
  <2>4. ContentInv'
    BY <2>2, <2>3 DEF SeeksInv, ContentInv, OffsetsInv, PartsAt, ChunksPlaced, ChunkPlaced,
                     Wanted, found, nextChunk
  <2> QED BY <2>1, <2>2, <2>4, FilesLandStill DEF SeeksInv
<1> QED BY <1>1, <1>2, <1>3, <1>4, <1>5 DEF Next

-----------------------------------------------------------------------------
\* Whatever the input, the options and the runs before: in a file with a
\* trailer every offset leads to what it is about, chunk by chunk, column by
\* column and schema element by schema element (parquet_to_modular.cc:870-889,
\* 941-984; the readers' way back, footer_formats.h:430).
THEOREM OffsetsLand == Spec => []SeeksLand
<1>1. SeeksInv => SeeksLand
  BY DEF SeeksInv
<1> QED BY <1>1, InitSeeks, StepSeeks, PTL DEF Spec

\* Whatever the limit on their length: where a file with a trailer has bounds of
\* a page, they enclose those of the input, and are those of the input where
\* they are said to be exact (parquet_to_modular.cc:644-683).
THEOREM BoundsKeptInFiles == Spec => []PageBoundsKept
<1>1. SeeksInv => PageBoundsKept
  BY DEF SeeksInv
<1> QED BY <1>1, InitSeeks, StepSeeks, PTL DEF Spec
=============================================================================

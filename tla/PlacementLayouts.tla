-------------------------- MODULE PlacementLayouts --------------------------
(***************************************************************************)
(* pfb-harness: the seven placement layouts of layouts.cc, built from one  *)
(* model of a file, resolved for the three queries and compared with the   *)
(* model, as RunShape of main.cc and Check of fidelity_test.cc do.         *)
(*                                                                         *)
(* A list of varints is decoded as a whole and is a sequence of numbers    *)
(* here.  What is read in place, the packed lists, the page-index blob and *)
(* the structs behind the directory of indexed_struct, is bytes.           *)
(***************************************************************************)
EXTENDS BitNumbers, Ordering, FiniteSetsExt, SequencesExt

CONSTANTS Shapes,     \* columns, row_groups, pages (per chunk), projected, rows (per group)
          DictLens,   \* lengths of a dictionary page, drawn by rng
          PageLens,   \* lengths of a data page, drawn by rng
          Windows,    \* --row-select values: first row and number of rows
          RowLimit,   \* rows in the default window at most (1000)
          Base,       \* first byte after the magic (4)
          Pad         \* zero bytes ReadPaddedByteList adds (16)

VARIABLES model,   \* the Model
          layout,  \* index of the layout under test
          step,    \* what RunShape does next
          blob,    \* what the layout built
          resolved,     \* query -> the locators the layout resolved
          ok       \* no layout failed the comparison so far

layoutVars == <<model, layout, step, blob, resolved, ok>>

-----------------------------------------------------------------------------
\* The model.  Chunk cc = c * row_groups + r has blocks Per(m) * cc + 1 (the
\* dictionary page) up to Per(m) * (cc + 1); blocks lie one behind the other.

Total(s, a, b) == SumFunctionOnSet(s, a .. b)
Chunks(m) == m.columns * m.row_groups
ChunkIds(m) == 0 .. Chunks(m) - 1
Per(m) == m.pages + 1
FirstBlock(m, cc) == Per(m) * cc + 1

BlockLens(s) ==
  {lens \in [1 .. Chunks(s) * Per(s) -> DictLens \cup PageLens] :
     \A k \in DOMAIN lens : lens[k] \in IF (k - 1) % Per(s) = 0 THEN DictLens ELSE PageLens}

\* Offsets fit an i64, and so do the rows of a group.
ASSUME LayoutsAssumption ==
  /\ DictLens \subseteq Nat /\ PageLens \subseteq Nat
  /\ RowLimit \in Nat /\ Base \in Nat /\ Pad \in Nat /\ Pad >= Window - 1
  /\ \A s \in Shapes :
       /\ s.columns \in Nat \ {0} /\ s.row_groups \in Nat \ {0}
       /\ s.pages \in Nat /\ s.projected \in Nat /\ s.rows \in Nat /\ s.rows < 2 ^ WordBits
       /\ \A lens \in BlockLens(s) :
            2 * (Base + Total(lens, 1, Chunks(s) * Per(s))) < 2 ^ WordBits
  /\ \A w \in Windows : w.first \in Int /\ w.num \in Nat

RowsPerPage(s) == IF s.pages > 0 THEN s.rows \div s.pages ELSE 0
PageRows(s, p) ==
  CASE p = 0 -> 0
    [] p = s.pages /\ p > 0 -> s.rows - (s.pages - 1) * RowsPerPage(s)
    [] OTHER -> RowsPerPage(s)

DefaultWindow(s) == [first |-> s.rows \div 2, num |-> Min({s.rows, RowLimit})]

BuildModel(s, lens, chosen, window) ==
  [columns |-> s.columns, row_groups |-> s.row_groups, pages |-> s.pages, rows |-> s.rows,
   window |-> window,
   selected |-> InOrder(chosen),
   block_len |-> lens,
   block_rows |-> [k \in DOMAIN lens |-> PageRows(s, (k - 1) % Per(s))],
   chunk_off |-> [k \in 1 .. Chunks(s) |-> Base + Total(lens, 1, Per(s) * (k - 1))],
   chunk_size |-> [k \in 1 .. Chunks(s) |-> Total(lens, FirstBlock(s, k - 1), Per(s) * k)]]

-----------------------------------------------------------------------------
\* What a query touches, and what it should be answered.

Locator(offset, size) == [offset |-> offset, size |-> size]

Touched(m, q) ==
  IF q = "full" THEN [k \in 1 .. Chunks(m) |-> k - 1]
  ELSE [k \in 1 .. Len(m.selected) * m.row_groups |->
          m.selected[((k - 1) \div m.row_groups) + 1] * m.row_groups + ((k - 1) % m.row_groups)]
ForEachSelected(m, q, emit) == [k \in DOMAIN Touched(m, q) |-> emit[Touched(m, q)[k]]]

OverlapsTooFew(m, cursor, rows) ==
  cursor < m.window.first + m.window.num /\ m.window.first + 1 < cursor + rows
OverlapsTooMany(m, cursor, rows) ==
  cursor <= m.window.first + m.window.num /\ m.window.first < cursor + rows
Overlaps(m, cursor, rows) ==
  cursor < m.window.first + m.window.num /\ m.window.first < cursor + rows

\* The dictionary page, and every data page that overlaps the row window.
EmitRowRangePages(m, cc, chunk_offset, blen, brows) ==
  LET fb == FirstBlock(m, cc)
      Page(p) == Locator(chunk_offset + Total(blen, fb, fb + p - 1), blen[fb + p])
      fetched == {p \in 1 .. m.pages :
                    Overlaps(m, Total(brows, fb + 1, fb + p - 1), brows[fb + p])}
      order == InOrder(fetched)
  IN  <<Page(0)>> \o [k \in DOMAIN order |-> Page(order[k])]

Expected(m, q) ==
  ForEachSelected(m, q, [cc \in ChunkIds(m) |-> Locator(m.chunk_off[cc + 1], m.chunk_size[cc + 1])])
ExpectedRowsPages(m) ==
  FlattenSeq(ForEachSelected(m, "rows", [cc \in ChunkIds(m) |->
    EmitRowRangePages(m, cc, m.chunk_off[cc + 1], m.block_len, m.block_rows)]))

-----------------------------------------------------------------------------
\* Packed lists: the width is that of the greatest value.

ByteList(list) ==
  [width |-> WidthFor(Numbers(list)), bytes |-> PackBits(Numbers(list), WidthFor(Numbers(list)))]
ReadPaddedByteList(bytes) == bytes \o [k \in 1 .. Pad |-> {}]
Extracted(bytes, idx, w) == NumberOf(ExtractBits(ReadPaddedByteList(bytes), idx, w))
Unpacked(list, cc) == Extracted(list.bytes, cc, list.width)

-----------------------------------------------------------------------------
\* The layouts.

BuildSoa(m) == [offsets |-> m.chunk_off, sizes |-> m.chunk_size]
ResolveSoa(b, m, q) ==
  ForEachSelected(m, q, [cc \in ChunkIds(m) |-> Locator(b.offsets[cc + 1], b.sizes[cc + 1])])

BuildAos(m) ==
  [pairs |-> FlattenSeq([k \in 1 .. Chunks(m) |-> <<m.chunk_off[k], m.chunk_size[k]>>])]
ResolveAos(b, m, q) ==
  ForEachSelected(m, q, [cc \in ChunkIds(m) |-> Locator(b.pairs[cc * 2 + 1], b.pairs[cc * 2 + 2])])

\* A field header is a delta of one from the id before, an i64 a zig-zag varint,
\* and a zero byte ends a struct.
I64(v) == UlebOf(BitsOf(2 * v))
Struct(offset, size) == <<{0}>> \o I64(offset) \o <<{0}>> \o I64(size) \o <<{}>>
BuildIndexed(m) ==
  LET structs == [k \in 1 .. Chunks(m) |-> Struct(m.chunk_off[k], m.chunk_size[k])]
  IN  [directory |-> [k \in 1 .. Chunks(m) |-> Total(Lens(structs), 1, k - 1)],
       structs |-> FlattenSeq(structs)]
FirstField(bytes, start) == [at |-> start + 1, id |-> 0, off |-> 0, sz |-> 0]
NextField(bytes, f) ==
  IF bytes[f.at] = {} THEN f
  ELSE LET n == UlebLen(bytes, f.at + 1)
           v == NumberOf(UlebValue(SubSeq(bytes, f.at + 1, f.at + n))) \div 2
           id == f.id + 1
       IN  [at |-> f.at + 1 + n, id |-> id,
            off |-> IF id = 1 THEN v ELSE f.off, sz |-> IF id = 1 THEN f.sz ELSE v]
Fields(bytes, start) ==
  LET field[k \in 0 .. Len(bytes)] ==
        IF k = 0 THEN FirstField(bytes, start) ELSE NextField(bytes, field[k - 1])
  IN  field[Len(bytes)]
ResolveIndexed(b, m, q) ==
  ForEachSelected(m, q, [cc \in ChunkIds(m) |->
    LET f == Fields(b.structs, b.directory[cc + 1]) IN Locator(f.off, f.sz)])

BuildOffsetIndex(m) ==
  [base |-> Base, block_lengths |-> m.block_len, page_rows |-> m.block_rows,
   first_block |-> [k \in 1 .. Chunks(m) |-> (k - 1) * Per(m)]]
ResolveOffsetIndex(b, m, q) ==
  LET block_off == [k \in 1 .. Len(b.block_lengths) + 1 |-> b.base + Total(b.block_lengths, 1, k - 1)]
      Start(cc) == block_off[b.first_block[cc + 1] + 1]
      Size(cc) == Total(b.block_lengths, b.first_block[cc + 1] + 1, b.first_block[cc + 1] + Per(m))
  IN  IF q = "rows"
      THEN FlattenSeq(ForEachSelected(m, q, [cc \in ChunkIds(m) |->
             EmitRowRangePages(m, cc, Start(cc), b.block_lengths, b.page_rows)]))
      ELSE ForEachSelected(m, q, [cc \in ChunkIds(m) |-> Locator(Start(cc), Size(cc))])

BuildSoaBitpack(m) == [offsets |-> ByteList(m.chunk_off), sizes |-> ByteList(m.chunk_size)]
ResolveSoaBitpack(b, m, q) ==
  ForEachSelected(m, q, [cc \in ChunkIds(m) |-> Locator(Unpacked(b.offsets, cc), Unpacked(b.sizes, cc))])

BuildSoaDeltaBitpack(m) ==
  [base |-> Base,
   deltas |-> ByteList([k \in 1 .. Chunks(m) |->
                m.chunk_off[k] - IF k = 1 THEN Base ELSE m.chunk_off[k - 1]]),
   sizes |-> ByteList(m.chunk_size)]
ResolveSoaDeltaBitpack(b, m, q) ==
  LET delta == [k \in 1 .. Chunks(m) |-> Unpacked(b.deltas, k - 1)]
      off == [k \in 1 .. Chunks(m) |-> b.base + Total(delta, 1, k)]
  IN  ForEachSelected(m, q, [cc \in ChunkIds(m) |-> Locator(off[cc + 1], Unpacked(b.sizes, cc))])

\* The page index is one blob: two width bytes and two packed lists.
BuildPageIndexBlob(m) ==
  LET lens == ByteList(m.block_len)
      rows == ByteList(m.block_rows)
  IN  <<BitsOf(lens.width), BitsOf(rows.width)>> \o lens.bytes \o rows.bytes
BuildPlacementPlusPageIndex(m) ==
  [offsets |-> ByteList(m.chunk_off), sizes |-> ByteList(m.chunk_size), page_index |-> BuildPageIndexBlob(m)]
RowBufTooEarly(n, lb) == 2 + (n * lb) \div ByteBits
RowBufAt(n, lb) == 2 + BytesFor(n, lb)
ResolvePlacementPlusPageIndex(b, m, q) ==
  LET lb == NumberOf(b.page_index[1])
      rb == NumberOf(b.page_index[2])
      n == Chunks(m) * Per(m)
      size == Len(b.page_index)
      blen == [k \in 1 .. n |-> Extracted(SubSeq(b.page_index, 3, size), k - 1, lb)]
      brows == [k \in 1 .. n |->
                  Extracted(SubSeq(b.page_index, RowBufAt(n, lb) + 1, size), k - 1, rb)]
  IN  IF q = "rows"
      THEN FlattenSeq(ForEachSelected(m, q, [cc \in ChunkIds(m) |->
             EmitRowRangePages(m, cc, Unpacked(b.offsets, cc), blen, brows)]))
      ELSE ResolveSoaBitpack(b, m, q)

-----------------------------------------------------------------------------
\* RunShape: every layout in turn is built, resolved three times and compared.

Layouts == <<"soa_flat", "aos_flat", "soa_bitpack", "soa_delta_bitpack", "indexed_struct",
             "offset_index", "placement_plus_pageindex">>
PageAware == {"offset_index", "placement_plus_pageindex"}
Current == Layouts[layout]
Queries == {"project", "full", "rows"}

Build(name, m) ==
  CASE name = "soa_flat" -> BuildSoa(m)
    [] name = "aos_flat" -> BuildAos(m)
    [] name = "soa_bitpack" -> BuildSoaBitpack(m)
    [] name = "soa_delta_bitpack" -> BuildSoaDeltaBitpack(m)
    [] name = "indexed_struct" -> BuildIndexed(m)
    [] name = "offset_index" -> BuildOffsetIndex(m)
    [] name = "placement_plus_pageindex" -> BuildPlacementPlusPageIndex(m)
Resolve(name, b, m, q) ==
  CASE name = "soa_flat" -> ResolveSoa(b, m, q)
    [] name = "aos_flat" -> ResolveAos(b, m, q)
    [] name = "soa_bitpack" -> ResolveSoaBitpack(b, m, q)
    [] name = "soa_delta_bitpack" -> ResolveSoaDeltaBitpack(b, m, q)
    [] name = "indexed_struct" -> ResolveIndexed(b, m, q)
    [] name = "offset_index" -> ResolveOffsetIndex(b, m, q)
    [] name = "placement_plus_pageindex" -> ResolvePlacementPlusPageIndex(b, m, q)

\* Only a layout with page information can narrow a row range down to pages.
Want(q) ==
  IF q = "rows" THEN IF Current \in PageAware THEN ExpectedRowsPages(model) ELSE Expected(model, "project")
  ELSE Expected(model, q)

NoBlob == <<>>

\* A model that BuildModel can return, with its own row window or --row-select's.
IsModel(m) ==
  \E s \in Shapes : \E lens \in BlockLens(s),
                      chosen \in kSubset(Min({s.projected, s.columns}), 0 .. s.columns - 1),
                      window \in {DefaultWindow(s)} \cup Windows :
    m = BuildModel(s, lens, chosen, window)

LayoutInit ==
  /\ IsModel(model)
  /\ layout = 1 /\ step = "build" /\ blob = NoBlob /\ ok = TRUE
  /\ resolved = [q \in {} |-> <<>>]

BuildStep ==
  /\ step = "build" /\ step' = "project"
  /\ blob' = Build(Current, model)
  /\ UNCHANGED <<model, layout, resolved, ok>>

ResolveStep ==
  /\ step \in Queries
  /\ resolved' = [q \in DOMAIN resolved \cup {step} |->
               IF q = step THEN Resolve(Current, blob, model, q) ELSE resolved[q]]
  /\ step' = CASE step = "project" -> "full" [] step = "full" -> "rows" [] step = "rows" -> "compare"
  /\ UNCHANGED <<model, layout, blob, ok>>

Agree == \A q \in Queries : resolved[q] = Want(q)

CompareStep ==
  /\ step = "compare" /\ (Agree => \A q \in Queries : resolved[q] # <<>>)
  /\ ok' = (ok /\ Agree)
  /\ resolved' = [q \in {} |-> <<>>] /\ blob' = NoBlob
  /\ IF layout < Len(Layouts) THEN layout' = layout + 1 /\ step' = "build"
     ELSE step' = "done" /\ UNCHANGED layout
  /\ UNCHANGED model

\* A layout that agrees is timed, and an answer without locators, of a projection
\* of no columns, ends the program there.
AbortStep ==
  /\ step = "compare" /\ Agree /\ \E q \in Queries : resolved[q] = <<>>
  /\ step' = "aborted"
  /\ UNCHANGED <<model, layout, blob, resolved, ok>>

LayoutNext == BuildStep \/ ResolveStep \/ CompareStep \/ AbortStep

LayoutSpec == LayoutInit /\ [][LayoutNext]_layoutVars

-----------------------------------------------------------------------------
\* What holds at every step: the blob is the one built from the model, and each
\* query answered so far has the answer that the comparison will look for.
LayoutInv ==
  /\ IsModel(model) /\ layout \in DOMAIN Layouts /\ ok = TRUE
  /\ step \in {"build", "compare", "done", "aborted"} \cup Queries
  /\ step \in Queries => blob = Build(Current, model)
  /\ DOMAIN resolved = CASE step = "full" -> {"project"} [] step = "rows" -> {"project", "full"}
                          [] step \in {"compare", "aborted"} -> Queries [] OTHER -> {}
  /\ \A q \in DOMAIN resolved : resolved[q] = Want(q)

\* The comparison of main.cc:124 and fidelity_test.cc never fails: every layout
\* gives every query the locators the model has, whatever the widths of the
\* packed lists, the varints' lengths and the number of pages.
Fidelity == ok

\* The comparison cannot tell whether a row range is answered well: the layouts
\* and the model share one idea of an overlap.  These two say it by rows.
Row(r) == r \in 0 .. model.rows - 1 /\ model.window.first <= r
          /\ r < model.window.first + model.window.num
HoldsRow(p, r) == p = IF RowsPerPage(model) = 0 THEN model.pages
                      ELSE Min({model.pages, (r \div RowsPerPage(model)) + 1})
PageAt(cc, p) ==
  LET k == FirstBlock(model, cc) + p
  IN  Locator(Base + Total(model.block_len, 1, k - 1), model.block_len[k])
RowsAnswered == "rows" \in DOMAIN resolved /\ Current \in PageAware
Selected == ToSet(Touched(model, "rows"))

\* A row in the window is in a page that is fetched, at its place in the file,
\* and so is the dictionary page it needs (harness.h:121).
RowsCovered ==
  RowsAnswered =>
    \A cc \in Selected :
      /\ PageAt(cc, 0) \in ToSet(resolved["rows"])
      /\ \A r \in 0 .. model.rows - 1, p \in 1 .. model.pages :
           Row(r) /\ HoldsRow(p, r) => PageAt(cc, p) \in ToSet(resolved["rows"])

\* Nothing else is fetched, and nothing twice: what rowsel_bytes_fetched counts
\* is what the window needs.  (An empty window, or one that starts before row
\* 0, may still fetch a page it only touches.)
NoNeedlessPage ==
  RowsAnswered /\ model.window.num > 0 /\ model.window.first >= 0 =>
    /\ \A x \in ToSet(resolved["rows"]) : \E cc \in Selected, p \in 0 .. model.pages :
         /\ x = PageAt(cc, p)
         /\ p = 0 \/ \E r \in 0 .. model.rows - 1 : Row(r) /\ HoldsRow(p, r)
    /\ \A j, k \in DOMAIN resolved["rows"] : j < k =>
         resolved["rows"][j].offset + resolved["rows"][j].size <= resolved["rows"][k].offset
=============================================================================

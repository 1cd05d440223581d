# Verification of parquet-footer-bench

TLA+ models of parquet-footer-bench: the two converters that re-encode a
Parquet footer, the readers that resolve columns from the result, the
bit-packed arrays both rest on, the harness that compares placement
layouts, and the script that downloads the corpus. TLC checks the models on
small instances; TLAPS proves the theorems named below for every value of their
constants.

Paths in this file are relative to `src/`.

## 1. The system

All programs are sequential C++17 or Python; nothing in the repository runs
threads. Interleaving comes in twice only: two runs of the download script share
an output directory, and a converter may be killed, or its disk fill up, between
any two cells it writes. Elsewhere what is hard is agreement: every footer variation
has a writer and one or more independent readers, and they share only a byte
layout. A writer's loop, its corner cases and its size computations must be
matched by a reader that seeks, skips, over-reads and reuses buffers.

| Component | State | Operations | Hard behaviour | Correct when |
|---|---|---|---|---|
| schema walk (`modular-footer/parquet_to_modular.cc` 731-760, `schema_index_check.cc` 273-289, `name_resolve_bench.cc` 147-175) | stack of open groups, parent links, paths, leaf list | visit an element, close groups | child counts that do not add up, groups that close together | every element gets the parent its counts say, paths tell nesting apart, leaves are in document order |
| schema index (`parquet_to_modular.cc` 718-803; readers `schema_index_check.cc` 231-336, `name_resolve_bench.cc` 298-353) | open-addressing table of (discriminator, ordinal + 1), parent ordinals | insert, publish, look up | collisions, a probe without a bound, two encodings of the schema, a path rebuilt differently than hashed | the first leaf of a path is found, absent names are reported absent, all loops end |
| row-group statistics (`parquet_to_modular.cc` 340-374, 482-552, 927-1000; reader `footer_formats.h` 371-475) | sparse arrays per column, descriptors, column offsets; the reader's reused buffers | collect, cut, emit, lay out; seek, decode, emit | stale buffers, columns of no bytes, rounding a cut maximum up | nothing leaks between columns or calls, a bound bounds, exact means equal |
| EncodedArray (`parquet_to_modular.cc` 235-311; readers `footer_formats.h` 311-366) | two byte blobs | dense, sparse and byte-string write; in-place read | width 0, varint length, reads past the blob | what was written is read, from inside the file |
| bit packing (`include/pfb/bitpack.h`, `thrift_codec.h` 138-147) | 128-bit accumulator | PackBits, ExtractBits | values across nine bytes, accumulator at its limit | read equals written |
| name resolution on a jump-table file (`jumptable-footer/parquet_to_jumptable.cc` 404-475; reader `name_resolve_bench.cc` 245-353) | slots of bytes over all elements, the list of ordinals by field id | insert, look up, confirm | slot width found by dividing, insertion that gives up, no parents to confirm a path with | every element is in the table, top-level columns are found, a field id leads to its leaf |
| jump-table converter (`jumptable-footer/parquet_to_jumptable.cc`) and seeking reader (`footer_formats.h` 164-305) | walk of offsets, moved footer, index blob, pointer | walk, move, index, patch; open, seek | the first header is re-encoded and moves everything but itself, converting an output again | an old reader sees the same footer, each offset lands, all resolvers agree |
| harness (`pfb-harness/`) | a synthetic model of a file, seven layouts | build, resolve three queries, compare | page windows, packed regions inside one blob | each layout answers as the model; a row range fetches the pages with its rows |
| modular file (`parquet_to_modular.cc` 807-1107) | placement arrays, blob, directory, output stream | refuse, append module, write, close | unchecked writes, output equal to input, page-index ranges | a reader finds each module, or finds no file |
| page index (`parquet_to_modular.cc` 564-683) | the two descriptors of a chunk | convert OffsetIndex and ColumnIndex | null pages, lists shorter than the pages, cut bounds | bounds stay with their page and still bound |
| corpus download (`real-footer-size/download.py`) | destination and `.part` files | fetch, replace, verify, unlink | crash between replace and verify, two runs at once | what runs report saved is the pinned file, a valid one is not lost needlessly |
| measurement scripts (`real-footer-size/*.py`, plots) | none to speak of | count and draw | | |
| Modular Footer V2 (`footer-pages/`) | a format definition | none in this repository | | |

The components meet in files. `parquet_to_modular` and `parquet_to_jumptable`
read a Parquet footer and write a file; `footer_decode_bench` opens both and
requires four resolvers to agree on placement and statistics;
`name_resolve_bench` and `schema_index_check` look names up in them. The harness
shares `bitpack.h` with the converters and nothing else.

## 2. The modules

```
SchemaTree --> NameHash --> SchemaIndex --> SchemaProofs   NameMap (abstract map)
                       \--> JumpNames ---/
StatBounds --> StatBoundsProofs, ColumnStats --> ColumnStatsProofs
           \-> PageIndex --> ModularFile --> ModularFileProofs
Bits --> BitPack -------------------------> EncodingProofs
    \--> BitNumbers --> EncodedArray ------/
                   \--> PlacementLayouts --/
ThriftCursor --> JumpTable --> JumpTableProofs
Download --> DownloadProofs
Ordering (a set of integers in order), NumberFacts (arithmetic, sums, the pigeonhole)
MC* give constants their small values.
```

**SchemaTree** is the walk that four places of the code share. One action per
loop round: `VisitElement` is the parent loop with its `while` over finished
groups inside (`PopFinished`), `NameElement` the path and leaf loops. Names are
members of a set, texts sequences of symbols; lower-casing is the function
`LowerText`, which may give two names one text, and joining with NUL is a
concatenation, because two of the properties are about exactly that.

**NameHash** is what both name tables take from the path of an element: its hash and the
discriminator cut from the top of it. **SchemaIndex** extends it: after `LayOut` it counts slots
(`DoubleSlots` is NextPow2), inserts leaf by leaf, one probe per step
(`SkipTaken`, `StoreLeaf`), and publishes. Then a caller asks any of its texts
any number of times (`Ask`), and each lookup probes slot by slot (`PassSlot`,
`AnswerFound`, `AnswerAbsent`). `hash` is any function of a chosen set, so that
collisions of the home slot and of the discriminator are chosen, not hoped for.
A slot is the pair of its discriminator and ordinal + 1; its packing is
BitPack's matter. `Flat` decides, as in the code, whether the parent and leaf
arrays are left out and `ordinal + 1` and "no parent" used instead.

**NameMap** says what an index promises: texts are added, the map is sealed, a
lookup answers the number of the first equal text or `Absent`. `ImplementsNameMap`
is the refinement: `added` are the paths of the leaves stored so far, and every
probe but the last is a stutter.

**StatBounds** has the pure part of statistics: common prefix, suffixes and
`TruncateSuffix`. **ColumnStats** drives it: `AddRowGroup`/`EndColumn` are
BuildColumnStatistics, `LayOutColumn` the payload and its C + 1 offsets;
`StartColumn`, `ReadField`, `EndFields`, `EmitColumn` the modular resolver, whose
buffers `buf` are variables because the code reuses them: only flags are lowered
when a column starts. A sparse EncodedArray is a function here, from positions
to values, as EncodedArray shows it to be.

**Bits** defines bytes and words as sets of bit positions, with PackBits and
ExtractBits in closed form. **BitPack** is the loop of PackBits (`TakeValue`,
`DrainByte`, `EndPack`) with its accumulator, and ExtractBits over its output and
what follows it. **BitNumbers** adds numbers and varints, both as what they do to bits: a
number is the sum of the powers of its bits, a varint cuts a word into pieces of seven.
**EncodedArray** puts arrays in byte blobs and reads them in place: what is written is a list
of positions and a list of values, in the order in which the writers get them, and `reach`
remembers the furthest byte read.

**ThriftCursor** is the Reader of `parquet_to_jumptable.cc` and `thrift_codec.h` over tokens: headers with deltas
or long ids, Skip, NextField. Skip calls itself for what is inside a value; here its pending calls are a list
(`todo`, so many values of a type), `SkipStep` is one of them, and `Ends` runs them until nothing is left or the cursor is behind
the blob, where the converter's reader is no longer `ok`. A boolean takes no token, as its value is in a header.
**JumpTable** walks a footer field by field
(`WalkField`), computes shift, offsets, index blob and pointer (`Write`), may
convert its output again, opens it (`ReadFooterIndex`) and answers projections
by seeking; the walking and the materializing resolver are operators over the
same tokens. A footer that breaks off is refused (`Parsed`). Of the types in `parquet.thrift` the converter relies on one thing,
that the lists it walks are of structs; so does the model (`ListsOfStructs`). Offsets count tokens and are stored in as many bytes as the
greatest needs, with bytes of three bits (`ByteBits`) so that two-byte offsets occur.

**JumpNames** takes the same walk and hash and builds the other name table: every element,
the root and the groups too, in slots of little-endian bytes (`ElementVal`, `PutLE`),
one element per step. The reader divides the table's size by the number of slots
for the width and probes up to the first slot that is empty or confirmed: `LookUp` is that,
as an operator of the set of elements that a reader would confirm. `HashResolve` is the look-up
of the repository's reader, which confirms a candidate by its own name only, as
the file has no parent array; `WalkResolve` is the walk it is compared with. `FieldIdMapping` is one of three: none where no leaf has an id, the
identity where each leaf's id is its position, and the explicit pairs otherwise.

**PageIndex** converts one chunk's OffsetIndex and ColumnIndex, with StatBounds for
the cuts. **ModularFile** is `main` of the converter around it: `Start` reads the
input and refuses it or not, `AddChunk` is a round of the placement loop,
`PlacePart` a descriptor of a page index or of a column's statistics, `EndParts`
their directory, and the `Place...` actions one module each in the order of
the code. There is no schema index where nothing behind the root is a leaf, which is told from
the child counts alone. Then the output: `OpenOut` truncates, `CopyPrefix` is a round of the
copy for `--full-file`, `WriteBlob`, `WriteTrailer`, `Close`. The stream takes
what is written; `Flush` brings one cell of it to the disk at any time and
`DiskFull` ends that for good, without anybody looking. `Crash` may come at any
step, and the next run may take the same files, with its input as its output. A file
is a sequence of cells, a struct is the cell of its value and a stop; what is in
the bytes of an array is EncodedArray's matter. Two things are taken from how
files behave and not from the code: the disk holds a prefix of the stream, in
order, and data that is cut short somewhere does not end in what looks like a
trailer (`InputsAssumption`).

**Download** is `fetch` for one corpus entry, by any number of runs that share
the two names. A name leads to an inode and an open handle stays with its inode, so that
the renamed or unlinked file of one run may still be written by another. Every
call that touches the file system is one action, those of `matches` and `sha256` too: `IsFile`, `Stat`,
two opens of the name, the reads at both ends, and one `ReadPiece` for each piece hashed, with other runs
at work in between. Three pairs of calls are one action, as nothing between them can matter: `urlopen` touches no
file before `open` does; `exists` and `unlink` of the clean-up end the run in the same way if the name
comes or goes between them; and a handle is closed with its last read or write. `Crash` comes between any two
actions, and the server sends any pieces. A run that has crashed or ended may be
started again, with or without `--force`.

**PlacementLayouts** is the harness: `BuildModel` with the random lengths left
open, the seven Build/Resolve pairs, and RunShape's loop over them, which aborts at an answer
without a chunk (`AbortStep`, met with `--projected 0`). Varint lists
that are decoded as a whole are sequences of numbers; packed lists, the
page-index blob and the structs behind a directory are bytes, since their
readers compute where to read. A struct is read field by field (`FirstField`, `NextField`),
each one from where the last varint ended.

Definitions that begin like an action and are called a mutant in their comment
(`PopOneFinished`, `TargetFull`, ...) are plausible bugs. No specification uses
them; each is put in place of the definition next to it to see that a property
notices.

## 3. The runs

| Run | Checks | Bounds |
|---|---|---|
| schema_index | probe chains, a spare slot, rebuilt paths, first leaf wins, builds end, lookups are answered, refinement of NameMap | thirteen tree shapes, three names (two on the larger shapes), 27 hash functions on colliding homes and discriminators |
| column_stats | the inductive invariant, nothing stale, a cut bound bounds, exact means equal, agreement with the walk when uncut | two columns, two row groups, six kinds of Statistics, limits 0 and 1; one column with all pairs of byte strings up to three bytes over 0 .. 2 (2 is 0xFF), limits -1 .. 2; any sequence of projections |
| bit_pack | the accumulator's invariant, windows inside, the stream as stated, read back | three-bit bytes, five-bit words, lists up to four |
| encoded_array | round trip, reads inside the file | up to five positions, varints of two bytes, byte strings longer than a window |
| jump_table | same fields, offsets land, pointer true, resolvers agree, outputs open | 591 footers: eight field orders, short or long headers, 0-3 columns, 0-2 row groups, or one that breaks off at each of its tokens; converted twice |
| jump_names | parents enclose as the counts say, paths distinguish, no element is lost in the table, its hash lookup answers a column that has a name of its own as the walk does, field ids | child counts -1 .. 3 on up to five elements; three names (two equal when lower-cased, one empty) on up to four; colliding hashes; bytes of two bits |
| modular_file | a file with a trailer is whole, offsets land, page bounds kept, what "wrote" means, errors leave the files alone | twelve inputs (eight convert or fail late, four are refused), all sixteen combinations of four options, two runs, copies of two cells |
| download | saved means valid, no `.part` left, how a valid file may be lost | two runs started any number of times, four inodes, files of up to two pieces, right or wrong, read while they are written |
| placement_layouts | fidelity, rows covered, no needless page | nine shapes (one projects no column), two lengths per page, all selections, eighteen windows beside the default |

Why these bounds are enough. The loops look at one element, slot, column or
value at a time and compare it with at most one other, so that two or three of
each show every pair. Three boundaries need care and are in the instances: the
table of one to four leaves, where the load-factor rounding decides whether a
slot stays free; a value that straddles the whole window (five bits in three-bit
bytes straddle three as 63 in eight-bit bytes straddle nine); and byte 0xFF,
which is the top of the small byte too. A wider byte adds no new case: the code
treats widths uniformly, and EncodingProofs proves it for all. In jump_names bytes
of two bits make a slot one byte for up to three elements and two for four and more, so
that the boundary of `slot_bytes` (four elements need the number four) is met. Two runs of a
converter are enough because a run looks at nothing but the files the last one left;
two runs of the download because every step touches the two names and one other run's inode
at most (DownloadProofs proves it for any number).

Three runs are expected to find a violation. Each shows a place where the
repository's own words and its code part.

* `case_fold`: sibling columns `A` and `a` have one canonical path. The comment
  "Every leaf must resolve to its own ordinal" (`schema_index_check.cc:327`) is
  not true of them: the second resolves to the first.
* `empty_group`: below a group with an empty name the writer hashes NUL followed
  by the leaf, and the reader rebuilds the leaf alone. An existing column is
  reported absent.
* `nested_names`: "Both return the same ordinals (cross-checked)" (`name_resolve_bench.cc` 27-32) is not
  so on a jump-table file with a nested column. Its path is hashed and stored whole, but a candidate is confirmed
  by the text of its own name, since the loader fills in no parents ("fixtures are flat", line 293). The walk
  finds the column, the hash does not, and the cross-check ends the run. `ShortCutAgrees` is what holds: where a path
  is the name of the elements that have it and of no other, the root included, the two agree.

Three properties say what the code does where a reader might expect more.

* `UncutAgrees`: only without `--truncate-minmax` do the statistics equal the walk's. Otherwise the modular resolver
  reports a cut bound as the bound, and "every resolver must agree with the walk on placement + stats"
  (`footer_decode_bench.cc:134`) fails; `BoundsHold` is what is left.
* `ValidKept`: two runs that overlap may lose a file that one of them has reported saved. The other still has the renamed
  `.part` open and writes on into it, and its own `replace` then finds no `.part`. The script is made for one run at a
  time; a run on its own loses a valid file only if it is forced and renames a complete wrong copy over it.
* `WroteUnlessFull`: "wrote" and exit code 0 say that the last call was reached. The
  trailer is the only sign of a complete file, and it is a sufficient one
  (`AcceptedIsWhole`).

`ModularFooter.thrift` (125, 197, 249) calls several offsets "absolute file
offsets". The converter stores them relative to the start of the modular blob, which its
readers add, and which is 0 unless `--full-file`; `SeeksLand` states the code's reading, in
which `modular_start` matters.

Deadlock checking is off where a program ends: a converter that refused a file,
an array that was read, an index with no caller left.

**Fairness.** SchemaIndex and ColumnStats assume weak fairness of the builder
and of the reader, separately. Both are loops of one thread without waiting, so
that an enabled step is taken; nothing makes a caller ask, so that `Ask` has no
fairness. `IndexBuilt` and `LookupAnswered` need no more. The other modules
state safety only.

## 4. The proofs

**The schema walk** (`SchemaProofs`). `WalkInvariant`, for every schema, whatever its
child counts: the stack of the parent loop is the chain of the groups that enclose the next
element, root first, each with the number of children it still waits for. So `parent[i]`
is the innermost group with room for *i*, and the paths and leaves taken from it are those of the
layout. Enclosure is defined without a stack, by what the child counts still expect (`Expected`), and the
proof is that the two agree at every element: `ChargeTop` counts one off what the innermost group
expects, `OpenGroup` adds what a new one does, and `PopFinished` takes off the groups that now
expect nothing, however many. `ParentsCorrect` is `ParentEncloses`
for SchemaIndex, whose builder is this walk. `PathsToldApart` is `PathsDistinguish`: two elements
have one path exactly when their lower-cased names are equal, and so are those of the groups above them, level by level. The proof goes up
both chains of parents at once; the last NUL of a path is where its own name begins
(`JoinsDiffer`), which is why the theorem asks that no name holds a NUL itself (`WithoutNul`).

**The index** (`SchemaProofs`). `IndexTypeCorrect`: the table has more
slots than leaves and holds values of inserted leaves only; the load-factor
target exceeds the number of leaves for every number (`TargetExceedsLeaves`).
`ProbeChain` alone is not inductive. An insertion under way must itself be on
a gap-free walk (`InsertChain`), and a lookup must know that what it passed is
taken and is not what it looks for (`ReadChain`): their conjunction with the
type invariant and the answer's correctness is `IInv`. A store can break the
chain of another leaf only by filling an empty slot, and no chain crosses one;
the modular arithmetic for this is in `NumberFacts`. `LookupCorrect` follows for
every set of schemas, every hash function and every query. It speaks of the
first leaf that can be *confirmed*, because empty group names make a rebuilt
path differ; where no name is empty it says no more than `ResolveFirst`, so that no run repeats it. `SlotToSpare` counts: no leaf is stored twice (`OnceOnly`) and there are more
slots than leaves, so that by the pigeonhole principle a slot stays empty, which is all that
ends the insertion's loop.

What a reader confirms is the path it rebuilds, and what a caller asks is the path the writer
hashed. `PathsRebuilt` proves them equal where every group has a name (`GroupsNamed`); the
condition is needed, as the run `empty_group` shows. The proof goes up the chain of parents that
`WalkInvariant` describes, by induction on the element. With it `FirstLeafAnswered` strengthens
`LookupCorrect` to the first leaf *with that path*, and `IndexIsNameMap` is the safety part of
the refinement: every step is a step of NameMap or leaves its variables alone. Where a leaf is
published its path joins `added`; where a lookup ends, its answer is NameMap's.

**The jump table's names** (`SchemaProofs`). This table has no values to speak of, only bytes, and
its insertion may give up in silence. `NamesInvariant` (`NamesInv`) says that it never does: each slot is
free or has the bytes of one inserted element, no element has two, and its probe passes
elements inserted earlier and then meets it (`SlotsInv`). A store finds a free slot because there are at least
twice as many slots as elements (the pigeonhole principle), and takes the first, so that it ends a chain and breaks none. Two
facts connect this with the reader: a value has as many base-256 digits as the slot has bytes, so that
its digits sum to it (`DigitsSum`, `ElementValIs`), and the quotient of the table's length by the number of slots is
the width (`ReadBytesIs`). `EveryPathResolves` follows: by its path, every element or an earlier one of the same path is found.
`ShortCutIsSound` says for which columns the repository's reader, which compares names, gets by with less (`ShortCutAgrees`), and `FieldIdsLeadToColumns` that each of the three mappings leads to the columns with an
id, and to no others.

**Bounds** (`StatBoundsProofs`). `MinCut` and `MaxCut`: whatever the limit and
the bytes, the cut minimum is not above and the cut maximum not below, and both
are equal unless marked inexact. Rounding up changes the last byte below 0xFF of
the kept part; where there is none the maximum is kept whole.

**Statistics** (`ColumnStatsProofs`). `StatsInv` says what each phase has: the
draft holds the entries of the row groups visited, a descriptor is complete
(`Describes`), each stands in the payload where its offsets say (`LayoutInv`),
every raised flag of a buffer belongs to the present column (`BufferInv`), and
each Loc answered is right (`RightLoc`). The buffers are why an invariant is
needed at all: nothing in a buffer is cleared but its flags. `NothingLeaks`,
`BoundsStayBounds`, `ExactIsEqual` and `UncutIsTheWalk` are its consequences.

**Bit packing** (`EncodingProofs`). `PackInv`: bit *b* of value *j* is at stream
position *j \* width + b*, in a byte already out or in the accumulator, and the
accumulator has no bit past those in use. From it follow that a window never
leaves the buffer when Window - 1 bytes follow (`WindowStaysInside`) and that
ExtractBits inverts PackBits (`PackedReadsBack`). With no bit behind the last value either
(`Padded`), the bytes are the stated stream (`PackedIsStream`). All this holds for all byte, word and
window sizes that satisfy `WidthsAssumption`.

**Encoded arrays** (`EncodingProofs`). `ArrayRoundTrips`: for every domain, every list of positions
and values, and whatever lies between and behind the blobs, a reader has only positions that were
written, each with its own value, and all of them when it is done; `ArrayReadsInside`: no window leaves the
file. The invariant `ArrayInv` is short, for the file does not change once it is written: the blobs lie
where they were put, ParsePresence answers what was written, and after *k* rounds the first *k* positions
have been read. The work is in what a read returns, one lemma for each layer of the encoding:

* a packed list reads back wherever it lies (`ReadPacked`, `ReadAt`), which is ExtractBits alone, for
  lists that no accumulator made;
* the width of the greatest number is enough for all (`WidthSuffices`), and a number is the sum of the
  powers of its bits (`NumberIs`). The provers know nothing of `^`; that powers double is obtained by counting the
  subsets of 1 .. *n* (`Doubling`);
* the varint ends at the first byte that does not say "more", and its pieces make the word (`UlebKeepsWord`);
* string *k* begins where the lengths before it add up to (`FlattenedParts`). Sums are folds over sets,
  whose recursion is unfolded by hand (`SumsCanBeTaken`) and shown not to depend on the order (`SumSplits`).

**The layouts** (`EncodingProofs`). `LayoutsKeepAnswers`: for every shape of file, all lengths of its pages, every
selection and window, the blob is the one built from the model and each query answered so far has its answer
(`LayoutInv`). `EveryLayoutAnswers` is `Fidelity`, that the comparison of `RunShape` never fails. One lemma per layout says that
what it reads is what the model has:

* flat and interleaved lists by indexing, packed lists by EncodingProofs' `ReadPacked`, with the zero bytes
  that ReadPaddedByteList adds behind (`ByteListReadsBack`) or the second list behind the first (`TailReads`);
* the deltas sum to the offsets again (`Telescopes`) and none is negative (`ChunksAdjoin`); the offsets summed from
  block lengths meet those of the chunks (`SumsMeet`);
* a struct of `indexed_struct` starts where the sizes before it add up to (`FlattenedParts`); its two varints are found
  where they end, and the zero byte then stops the reader (`StructReads`).

Since the layouts and the model share their idea of an overlap, `Fidelity` says nothing of it. `EveryRowFetched` and
`NoPageInVain` do, by rows: the rows before page *p* number (*p* - 1) times the rows per page (`RowsBefore`), so that the
rows of a page are an interval, the last page has the remainder, and a page without rows overlaps no window
(`RowsOfPage`). What a query returns is a concatenation over the chunks, in which
every page has its place, in the order of the file (`FlattenedAt`, `RowsPages`).

**Download** (`DownloadProofs`). `DownloadInv` says, for each step of `fetch`, what the run
that stands there may know: an inode behind the final name was renamed from `.part`
and is not written by a run that is alone; a run that passed its digest held the inode
that the name led to then, and what it had hashed stood there (`Judges`), so that when all have passed the last digest was
of one whole file and not of a torn reading (`LastReader`); a `.part` without a live run is a
crash's (`Litter`). `SavedIsValid`, `PartRemoved` and `ValidStays` follow for any number of runs.

**Modular file** (`ModularFileProofs`). A file that has a trailer must have come from a
run that got as far as writing it, and nobody looks at the stream on the way. `WholeInv` says
what each phase knows: the blob laid out so far has the placement and schema modules at the
places that the directory will name (`LayoutInv`), the stream is a beginning of prefix, blob
and trailer, in that order, while the output is written (`StreamInv`), and the disk holds a
beginning of the stream. What ends in a trailer is then all of it, for data that is cut short
does not (`InputsAssumption`). `TrailerIsEnough` and `WroteMeansWhole` are its
consequences, for any inputs, any number of runs, and a kill or a full disk at any step;
`ErrorsLeaveFiles` follows from the smaller `FailInv`: before `OpenOut` no file has changed.

What a directory's offsets lead to is proved in two parts. `ContentInv` is about the blob under
construction: each module that has been placed holds what its kind demands at the distance its own
offsets give, each page descriptor stands in its module where the module's list of offsets says, and the
bounds in it are those of the input. Later modules are only appended, so that nothing moves. `SeeksInv` then says
it of files: a file with a trailer is prefix, blob and trailer (`WholeInv`), so that an offset relative to the blob,
added to `modular_start`, meets the same cells. A run reads one file and writes the other
or the same one; the invariant is stated file by file and each step keeps it for the files
it does not touch. `OffsetsLand` and `BoundsKeptInFiles` are `SeeksLand` and `PageBoundsKept`, and
`BoundsSurvive` is the step from the column index to the descriptor by itself: for any limit, a page
that is not null keeps its bounds, not tighter than they were, and equal where they are called exact.

**The jump table** (`JumpTableProofs`). `JumpInv` has three parts. `FileTrue`: a file is an input until it is converted, and from
then on its footer begins with the pointer. `WalkTrue`: after *k* fields the walk has the headers of the first *k*, has seen a pointer if
one of them is, and every other offset it has is of a struct inside the footer, or a row group's end, if the footer can be
parsed (`WalkHeld`). `IndexTrue`: the pointer names the place of the index (`PointedAt`), and what the index says of
columns and row groups is what the walk counted. It has to join all three because of the second conversion: that an output is never
written over again follows from the pointer in front, which its own walk meets. With it:

* `SameFieldsKept`: a reader that knows nothing of the index meets, behind the pointer, the same ids, types and values. The
  rewritten header says the first id in full, whence every later delta counts from the same id as before (`SameContent`).
* `OffsetsLandTrue`: each offset of the index, shifted, leads to what it led to. The first field moves by another
  distance than the rest, and offset 0 is its alone (`OffsetsTrue`).
* `PointerTold` and `OutputsOpen`: the pointer is true of full files and bare footers, and the reader gives up on an output only if the first
  row group has no columns.

All of it rests on what a cursor does, for every blob. There is no induction over data to be had from the
library's theorems, and none is needed: `EndsUnfold` shows that the calls of Skip end, for each moves the cursor on or
shortens what is to do, so that the recursive function is what its equation says; `FieldsExist` and `FieldsUnique` do the same for
the walk of a struct in `Fields`. `SkipMoved` and `FieldMoved` are the heart: where two blobs share a part, a cursor that starts in it and
stays in it reads the same from both, at the distance of the shift. `ReaderFails` reads the index blob field by field.

`ResolversAlwaysAgree` (of `ResolversAgree`) follows the three resolvers through. The converter takes three things for granted that neither
it nor `parquet.thrift` checks: a field is once in its struct, every row group is as wide as the first, and
every chunk has its two numbers. Without them the readers do differ, or index out of bounds, so that they are the theorem's hypothesis,
`InputsRegular`: it speaks of the inputs, and TLC evaluates it for all of the run's (`WrittenAssumption`). The invariant, `ResolverInv`, has one part per
phase:

* While the walk runs, what it found of regular row groups is all there is (`WalkFound`): the offsets of every group's
  chunks in order and one entry behind them, so that chunk *c* of group *g* is at *g(C + 1) + c*.
* Of an output, `Served`: a regular part of the footer is as regular after the move (`FieldsMoved`, `GroupMoved`), whence the walk and the
  materialized tree have one grid; and each packed offset read back leads to that grid's entry. `PackReads` says that packing loses nothing: the
  width that the greatest value needs holds every value, and a value is the sum of its digits
  (`DigitsSum`, shared with SchemaProofs). It needs offsets that fit in eight bytes, which the four-byte length of a footer gives.
* Of the reader, `Reads`: the index it took has these offsets, and the width it gets by dividing is the writer's.
* Of the answer, `Resolving`: at column *c* and group *n* it is what Gather appends for the columns before *c*, and *n* chunks
  of the one it is in (`Halfway`). Gather is unfolded by what it has after each column (`Gathers`), of which the
  answer is always a prefix (`HalfwayAgrees`).

**Assumptions** are those of the modules' `ASSUME`s. Most give the constants the types their
comments state: a window holds a word at any alignment, there is a row group, `LowerText` is
a function from names to texts, a hash has room for a discriminator of one byte
(`HashWidthAssumption`), every element has a field id or a negative number (`FieldIdsAssumption`). Those of ModularFile say what the Thrift and Arrow readers hand
the converter before its own code runs: a footer whose row groups list chunks of fields
(`FooterAssumption`), the schema elements that the list header counts (`InputsAssumption`), a column index with
one null flag, minimum and maximum for every page (`ColumnIndexAssumption`, of usable ranges of inputs
that are not refused). `InputsAssumption` has besides the one fact about data described in section 2. Those of
the encodings say that a width fits its byte (`NumbersAssumption`), that the positions of an array are
distinct and below its domain, and that a domain and the bytes of an array are counted in a word
(`ArraysAssumption`: 31 and 64 bits in the code). The harness's file is shorter than half a word, as an offset is a
zig-zag i64, and ReadPaddedByteList pads for a window (`LayoutsAssumption`). A footer that `parquet_to_jumptable` gets ends in a STOP byte, as it checks, and one that can be parsed has
lists of structs where `parquet.thrift` says so; its length is given in four bytes, and a byte has a bit (`JumpAssumption`).
Two conditions are hypotheses of theorems and no `ASSUME`: `InputsRegular`, of `ResolversAlwaysAgree`, and, of
`PathsToldApart`, that no name holds a NUL byte. Thrift's strings would
allow one, and since the code joins names with NUL, two paths could then be one text. TLC evaluates all of them on the instances of the runs.

**Only model-checked.** Liveness (`IndexBuilt`, `LookupAnswered`), and with it the fairness of
NameMap: ENABLED is beyond the prover. Every other property of a passing run is proved.

## 5. Not modelled

* Ragged footers of the jump-table converter: its number of columns is the first row
  group's, and with unequal row groups the walk it is compared with indexes out of
  its projection. `InputsRegular` leaves them out. ModularFile has ragged inputs: fewer columns are refused, more are
  dropped.
* Failures of the jump-table converter's output, and its input as its output (it reads
  the data prefix back without a look at the stream); ModularFile has both for the other converter.
* A download that stalls: `urlopen` has no timeout, so that no fairness is justified.
* Sticky errors of the Thrift readers on truncated blobs, but for the converter's refusal of a footer
  that breaks off (`Parsed`): the other readers get what a writer produced.
* Seven of the eight dense arrays of the placement module, which the loop fills side by
  side from one chunk's fields; one stands for them.
* Timing, CSV, plots, the measurement scripts, the fixture generator: no state
  that an order of steps could spoil.
* `footer-pages/`: definitions and reports without code.
* The addresses of byte spans (a Loc's bytes are copied in the models).

## 6. Plan

1. *JumpTable, continued*: its output as a stream that may fail, as in ModularFile.
2. *Measurement*: `real-footer-size` re-encodes statistics in Python and counts the bytes; a second
   instance of StatBounds could compare the two.

---------------------------- MODULE MCJumpTable ----------------------------
(***************************************************************************)
(* Footers of none to three columns and two row groups, their fields in      *)
(* several orders, each header as short as it can be or all of them long,  *)
(* with and without a pointer, row groups or a schema.  A byte has eight   *)
(* values, so that offsets take two.                                       *)
(***************************************************************************)
EXTENDS JumpTable

\* A struct from its fields <<id, type, value tokens>>, as a Thrift writer
\* frames it: a delta from the previous id where one fits, unless long.
Framed(fields, long) ==
  FlattenSeq([j \in DOMAIN fields |->
    LET delta == fields[j][1] - (IF j = 1 THEN 0 ELSE fields[j - 1][1]) IN
    (IF delta > 0 /\ ~long THEN <<Short(delta, fields[j][2])>> ELSE Long(fields[j][1], fields[j][2]))
      \o fields[j][3]]) \o <<Stop>>
ListOf(items) == <<ListHdr("struct", Len(items))>> \o FlattenSeq(items)

Chunk(c, g, long) ==
  Framed(<<<<2, "int", <<Num(7)>>>>,
           <<3, "struct", Framed(<<<<7, "int", <<Num(20 + 2 * c + g)>>>>,
                                   <<9, "int", <<Num(10 + 2 * c + g)>>>>>>, long)>>>>, long)
RowGroup(g, columns, long, late) ==
  LET chunks == <<1, "list", ListOf([c \in 1 .. columns |-> Chunk(c, g, long)])>>
      rows == <<3, "int", <<Num(5)>>>> IN
  Framed(IF late THEN <<rows, chunks>> ELSE <<chunks, rows>>, long)
Elements(columns, long) ==
  ListOf(<<Framed(<<<<4, "bin", <<Bin("root")>>>>, <<5, "int", <<Num(columns)>>>>>>, long)>>
         \o [c \in 1 .. columns |-> Framed(<<<<1, "int", <<Num(1)>>>>, <<4, "bin", <<Bin("leaf")>>>>>>, long)])

FieldOf(id, columns, groups, long, late) ==
  CASE id = 1  -> <<1, "int", <<Num(1)>>>>
    [] id = 2  -> <<2, "list", Elements(columns, long)>>
    [] id = 3  -> <<3, "int", <<Num(9)>>>>
    [] id = 4  -> <<4, "list", ListOf([g \in 1 .. groups |-> RowGroup(g, columns, long, late)])>>
    [] id = 6  -> <<6, "bin", <<Bin("creator")>>>>
    [] id = 10 -> <<10, "bin", <<Bin("pointer")>>>>

\* As writers order the fields; the row groups or the schema first; a field
\* missing; a pointer already there, in front or behind.
Orders == {<<1, 2, 3, 4, 6>>, <<4, 2, 6>>, <<2, 4>>, <<6, 4, 2, 1>>, <<1, 2>>, <<1, 4>>,
           <<10, 1, 2, 4>>, <<1, 2, 4, 10>>}

Written ==
  {[full |-> full, prefix |-> <<Bin("data"), Bin("data")>>,
    footer |-> Framed([j \in DOMAIN ids |-> FieldOf(ids[j], columns, groups, long, late)], long)] :
      full \in BOOLEAN, ids \in Orders, columns \in 0 .. 3, groups \in 0 .. 2,
      long \in BOOLEAN, late \in BOOLEAN}

\* A footer that breaks off, in front of any of its tokens.
Broken ==
  LET whole == Framed(<<FieldOf(2, 1, 1, FALSE, FALSE), FieldOf(4, 1, 1, FALSE, FALSE)>>, FALSE) IN
  {[full |-> TRUE, prefix |-> <<>>, footer |-> Append(SubSeq(whole, 1, n), Stop)] :
     n \in 1 .. Len(whole) - 2}

MCInputs == Written \cup Broken

ASSUME WrittenAssumption == InputsRegular
=============================================================================

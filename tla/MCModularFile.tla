---------------------------- MODULE MCModularFile ----------------------------
(* Small inputs for ModularFile: two columns and two row groups with every   *)
(* kind of page-index range, statistics and dictionaries on some chunks; the *)
(* same footer as a bare tail; footers with a wider row group, with no       *)
(* columns, no schema, nothing but a root or no leaf in it; and what is      *)
(* refused.                                                                  *)
EXTENDS ModularFile

Pages(n) == <<"OffsetIndex", [p \in 1 .. n |-> [offset |-> 10 * p, size |-> p, row |-> p - 1]]>>
Bounds ==
  <<"ColumnIndex", [null_pages |-> <<0, 1, 0>>, mins |-> <<<<1, 0>>, <<>>, <<0>>>>,
                    maxs |-> <<<<1, 2, 1>>, <<>>, <<0, 2, 0>>>>, null_counts |-> <<0, 4, 1>>]>>
OneBound ==
  <<"ColumnIndex", [null_pages |-> <<0>>, mins |-> <<<<0, 1>>>>, maxs |-> <<<<1, 1>>>>,
                    null_counts |-> NoField]>>

\* Cells 0 .. 6; the footer starts at 7.
Data == <<Magic, <<"data", 1>>, Pages(2), Bounds, Pages(1), OneBound, <<"data", 2>>>>
Ending(n) == <<<<"length", n>>, Magic>>

Meta(at, dict, stat) ==
  <<[id |-> 3, value |-> [data_page_offset |-> at, dict_offset |-> dict, stat |-> stat]]>>
Offset(off, len) == <<[id |-> 4, value |-> off], [id |-> 5, value |-> len]>>
Column(off, len) == <<[id |-> 6, value |-> off], [id |-> 7, value |-> len]>>

Element(n, j) == <<"element", <<n, j>>>>
Root == <<<<"list", 1>>, Element(1, 1)>>
Children(n, k) == <<"num_children", <<n, k>>>>
Flat ==
  <<<<"list", 3>>, Element(1, 1), Children(1, 2), Element(2, 1), Element(2, 2), Element(3, 1)>>
\* A group that promises a child the list does not have: no leaf.
Hollow == <<<<"list", 2>>, Element(1, 1), Children(1, 1), Element(2, 1), Children(2, 1)>>

Rich ==
  [schema |-> Flat, metadata |-> TRUE,
   row_groups |->
     <<<<Meta(1, 11, FALSE) \o Offset(2, 1) \o Column(3, 1), Meta(2, NoField, TRUE) \o Offset(9, 1)>>,
       <<Meta(3, NoField, FALSE) \o Offset(4, 0), Meta(4, 14, FALSE) \o Offset(4, 1) \o Column(5, 1)>>>>]
Plain(row_groups, schema) == [schema |-> schema, metadata |-> FALSE, row_groups |-> row_groups]
Thin == Meta(1, NoField, TRUE)

Tailed(footer) == <<<<"footer", footer>>>> \o Ending(1)
MCInputs ==
  {Data \o Tailed(Rich), Tailed(Rich),
   <<Magic>> \o Tailed(Plain(<<<<Thin>>, <<Thin, Thin>>>>, Flat)),
   <<Magic>> \o Tailed(Plain(<<<<>>>>, NoField)),
   <<Magic>> \o Tailed(Plain(<<<<Meta(1, 2, FALSE)>>>>, Root)),
   <<Magic>> \o Tailed(Plain(<<<<Thin, Thin>>, <<Thin>>>>, Root)),
   <<Magic>> \o Tailed(Plain(<<<<Thin>>>>, Hollow)),
   <<Magic>> \o Tailed(Plain(<<>>, Root)),
   <<Magic, <<"data", 1>>>> \o Ending(1), <<Magic>> \o Ending(2), <<Magic>>, <<Magic, <<"data", 1>>>>}

MCOptions ==
  {[page_index |-> p, full_file |-> f, schema_index |-> s, limit |-> IF s THEN 0 ELSE 1, out |-> o] :
   p \in BOOLEAN, f \in BOOLEAN, s \in BOOLEAN, o \in {"input", "output"}}
=============================================================================

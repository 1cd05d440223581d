------------------------- MODULE MCPlacementLayouts -------------------------
(***************************************************************************)
(* Three-bit bytes, seven-bit words, a window of three bytes; files of up  *)
(* to six blocks and 34 bytes.                                             *)
(***************************************************************************)
EXTENDS PlacementLayouts

Grid(columns, row_groups, pages, projected, rows) ==
  [columns |-> columns, row_groups |-> row_groups, pages |-> pages,
   projected |-> projected, rows |-> rows]

\* The degenerate shape, one of no data pages, all columns projected, none, more
\* columns asked for than there are, several row groups, fewer rows than pages,
\* and a remainder on the last page.
MCShapes ==
  {Grid(1, 1, 0, 1, 0), Grid(3, 2, 0, 2, 0), Grid(1, 2, 2, 1, 4), Grid(2, 1, 2, 1, 5),
   Grid(2, 1, 2, 3, 1), Grid(1, 1, 3, 1, 7), Grid(1, 1, 4, 1, 3), Grid(3, 1, 1, 2, 2),
   Grid(2, 1, 1, 0, 2)}

MCWindows ==
  {[first |-> f, num |-> n] : f \in 0 .. 4, n \in 1 .. 3}
    \cup {[first |-> 2, num |-> 0], [first |-> -1, num |-> 3], [first |-> 9, num |-> 1]}
=============================================================================

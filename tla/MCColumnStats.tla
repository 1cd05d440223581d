---------------------------- MODULE MCColumnStats ----------------------------
(* Small instances of ColumnStats: two columns and two row groups with      *)
(* every mix of six kinds of Statistics, or every pair of byte strings of   *)
(* up to three bytes as bounds.                                             *)
EXTENDS ColumnStats

Unset == [max |-> NoField, min |-> NoField, max_value |-> NoField, min_value |-> NoField,
          null_count |-> NoField, is_max_value_exact |-> NoField, is_min_value_exact |-> NoField]

Kinds ==
  {Unset,
   [Unset EXCEPT !.null_count = 7],
   [Unset EXCEPT !.min_value = <<1, 0, 1>>, !.max_value = <<1, 2, 0>>],
   [Unset EXCEPT !.min = <<0>>, !.max_value = <<2, 2>>, !.max = <<1>>, !.null_count = 0],
   [Unset EXCEPT !.min_value = <<1, 1>>, !.max_value = <<1, 1>>, !.is_max_value_exact = FALSE],
   [Unset EXCEPT !.min_value = <<0, 1, 1>>, !.null_count = 1]}

Mixed == [Columns -> [RowGroups -> Kinds]]

\* Two strings as bounds either way round, exact or not: every pair.
Strings == UNION {[1 .. n -> Byte] : n \in 0 .. 3}
Bounds(a, b, exact) ==
  [Unset EXCEPT !.min_value = a, !.max_value = b, !.is_min_value_exact = exact]
Bounded(a, b) ==
  [c \in Columns |-> [g \in RowGroups |->
     LET exact == IF c = 0 THEN NoField ELSE FALSE
     IN IF g = 0 THEN Bounds(a, b, exact) ELSE Bounds(b, a, exact)]]

MCFiles ==
  Mixed \cup {Bounded(ab[1], ab[2]) : ab \in {x \in Strings \X Strings : LexLeq(x[1], x[2])}}
MCLimits == {-1, 0, 1, 2}
MCProjections == {{}, {0}, {1}, {0, 1}}
=============================================================================

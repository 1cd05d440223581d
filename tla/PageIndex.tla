------------------------------ MODULE PageIndex ------------------------------
(***************************************************************************)
(* The page index of one column chunk, from the OffsetIndex and the        *)
(* ColumnIndex of a Parquet file to the two descriptors of a modular       *)
(* footer.  Pages are numbered from 1, a sparse array is a function from   *)
(* the positions present to their values.                                  *)
(***************************************************************************)
EXTENDS StatBounds

\* BuildOffsetIndexChunk: a list of page locations as three dense arrays.
OffsetIndexChunk(pages) ==
  [offsets |-> [p \in DOMAIN pages |-> pages[p].offset],
   sizes   |-> [p \in DOMAIN pages |-> pages[p].size],
   rows    |-> [p \in DOMAIN pages |-> pages[p].row]]

\* Mutant of Bounded: null pages are given bounds too.
BoundedAll(ci) == {p \in DOMAIN ci.null_pages : p <= Len(ci.mins) /\ p <= Len(ci.maxs)}

\* Pages that get bounds: not null, and before either list ends.
Bounded(ci) ==
  {p \in DOMAIN ci.null_pages : ci.null_pages[p] = 0 /\ p <= Len(ci.mins) /\ p <= Len(ci.maxs)}

\* BuildColumnIndexChunk.  Bounds are exact until they are cut; the two arrays
\* that say which are not are left out when all are.
ColumnIndexChunk(ci, limit) ==
  LET at == Bounded(ci)
      shared == [p \in at |-> CommonPrefix(ci.mins[p], ci.maxs[p])]
      min == [p \in at |-> TruncateMin(Suffix(ci.mins[p], shared[p]), TRUE, limit)]
      max == [p \in at |-> TruncateMax(Suffix(ci.maxs[p], shared[p]), TRUE, limit)]
      inexact == {p \in at : ~min[p].exact \/ ~max[p].exact}
  IN [null_pages   |-> ci.null_pages,
      null_counts  |-> IF ci.null_counts = NoField THEN << >> ELSE ci.null_counts,
      prefixes     |-> [p \in at |-> Prefix(ci.mins[p], shared[p])],
      min_suffixes |-> [p \in at |-> min[p].suffix],
      max_suffixes |-> [p \in at |-> max[p].suffix],
      min_is_exact |-> [p \in IF inexact = {} THEN {} ELSE at |-> min[p].exact],
      max_is_exact |-> [p \in IF inexact = {} THEN {} ELSE at |-> max[p].exact]]

-----------------------------------------------------------------------------
(* What a reader of a descriptor makes of page p, as ModularFooter.thrift   *)
(* says it should: absent exactness arrays mean exact.                      *)

Exact(flags, p) == p \in DOMAIN flags => flags[p]

\* Every page of a column index that has bounds keeps them through the
\* descriptor: not tighter than they were, equal where they are called exact,
\* and none for a null page (parquet_to_modular.cc:644-658).
BoundsKept(ci, chunk) ==
  /\ DOMAIN chunk.prefixes = {p \in DOMAIN ci.null_pages : ci.null_pages[p] = 0}
  /\ \A p \in DOMAIN chunk.prefixes :
       LET low == chunk.prefixes[p] \o chunk.min_suffixes[p]
           high == chunk.prefixes[p] \o chunk.max_suffixes[p]
       IN /\ LexLeq(low, ci.mins[p]) /\ LexLeq(ci.maxs[p], high)
          /\ Exact(chunk.min_is_exact, p) <=> low = ci.mins[p]
          /\ Exact(chunk.max_is_exact, p) <=> high = ci.maxs[p]
=============================================================================

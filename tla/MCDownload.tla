----------------------------- MODULE MCDownload -----------------------------
(* Two runs, enough inodes for both names and for what the runs have open.  *)
(* States that differ in the content of a file nobody can reach are one.    *)
EXTENDS Download, TLC

Interchangeable == Permutations(Inodes) \cup Permutations(Runs)
Reachable ==
  <<names, [i \in Inodes |-> IF Unused(i) THEN <<>> ELSE content[i]], pc, own, history>>
=============================================================================

----------------------------- MODULE MCJumpNames -----------------------------
(* Small schemas for SchemaTree and JumpNames: every child count from -1 to  *)
(* 3 on up to five elements of one name, and every choice of three names     *)
(* (two of them equal after lower-casing, one empty) on up to four elements; *)
(* bytes of two bits, so that two to five elements need one or two of them.  *)
EXTENDS JumpNames

MCNames == {"A", "a", "empty"}
MCLowerText == [n \in MCNames |-> IF n = "empty" THEN << >> ELSE <<"a">>]
MCNul == "nul"

SchemasOf(sizes, names, counts) ==
  UNION {[size : {n}, name : [0 .. n - 1 -> names], num_children : [0 .. n - 1 -> counts]] :
         n \in sizes}

MCSchemas ==
  SchemasOf(0 .. 5, {"a"}, -1 .. 3) \cup SchemasOf({3, 4}, MCNames, 0 .. 2)

\* One leaf in one group.
NestedSchemas ==
  {s \in SchemasOf({3}, {"A", "a"}, 0 .. 1) :
     \A i \in 0 .. 2 : s.num_children[i] = 0 <=> i = 2}

\* 4 and 5 have one discriminator and neighbouring homes; 13 has another and,
\* in a table of up to eight slots, the home of 5.
MCHashes ==
  {h \in [{<< >>, <<"a">>, <<"a", "nul", "a">>} -> {4, 5, 13}] :
     h[<< >>] # 4 /\ h[<<"a">>] = 5 /\ h[<<"a", "nul", "a">>] # 5}
MCFieldIds == {f \in [0 .. 4 -> -1 .. 2] : f[0] = -1 /\ f[4] = 2}
=============================================================================

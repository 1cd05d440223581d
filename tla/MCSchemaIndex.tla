---------------------------- MODULE MCSchemaIndex ----------------------------
(* Small instances of SchemaIndex.  Every well-formed tree of up to four    *)
(* elements below, with names that lower-case to a, a and b, and hash       *)
(* functions that make the paths collide in the home slot, in the           *)
(* discriminator, in both or in neither.                                    *)
EXTENDS SchemaIndex

MCNames == {"A", "a", "b", "empty"}
MCLowerText ==
  [n \in MCNames |-> CASE n = "empty" -> << >> [] n = "b" -> <<"b">> [] OTHER -> <<"a">>]
MCNul == "nul"

\* Child counts, in pre-order, of every tree with at most five elements that
\* is one of: a chain, a flat list, or a group next to leaves.
Shapes ==
  {<<0>>, <<1, 0>>, <<1, 1, 0>>, <<2, 0, 0>>, <<2, 1, 0, 0>>, <<2, 0, 1, 0>>,
   <<1, 2, 0, 0>>, <<1, 1, 1, 0>>, <<3, 0, 0, 0>>}
MoreShapes == {<<4, 0, 0, 0, 0>>, <<2, 2, 0, 0, 0>>, <<2, 1, 0, 1, 0>>, <<1, 3, 0, 0, 0>>}

SchemasOf(shapes, names) ==
  UNION {[size : {Len(c)},
          name : {n \in [0 .. Len(c) - 1 -> names] : n[0] = CHOOSE r \in names : TRUE},
          num_children : {[i \in 0 .. Len(c) - 1 |-> c[i + 1]]}] : c \in shapes}

MCSchemas == SchemasOf(Shapes, {"A", "a", "b"}) \cup SchemasOf(MoreShapes, {"a", "b"})

\* Flat schemas in which no two siblings have the same name as written.
CaseFoldSchemas ==
  {s \in SchemasOf({<<2, 0, 0>>, <<3, 0, 0, 0>>}, {"A", "a", "b"}) :
     \A i, j \in 1 .. s.size - 1 : s.name[i] = s.name[j] => i = j}

\* A leaf "b" in a group whose name is empty.
EmptyGroupSchemas ==
  {s \in SchemasOf({<<1, 1, 0>>}, {"b", "empty"}) : s.name[1] = "empty" /\ s.name[2] = "b"}

\* All on three paths; a fourth collides with the first, the rest hash to 0.
MCHashes ==
  {h \in [{<<"a">>, <<"b">>, <<"a", "nul", "b">>, <<"b", "nul", "a">>} -> {0, 3, 4}] :
     h[<<"b", "nul", "a">>] = h[<<"a">>]}
MCDiscUnit == 4
MCQueries == {<<"c">>, <<"a", "nul">>}
=============================================================================

----------------------------- MODULE SchemaTree -----------------------------
(***************************************************************************)
(* The schema walk that BuildSchemaIndex (modular-footer), the jump-table  *)
(* converter and both name resolvers share: a DFS pre-order element list   *)
(* is turned into parent links with a stack of num_children counters, then *)
(* into canonical paths, and the leaves are numbered in DFS order.         *)
(*                                                                         *)
(* A name is a member of Names; LowerText[n] is the text of n after the    *)
(* ASCII lower-casing every path segment goes through, a sequence of       *)
(* symbols (empty for the empty name).  A path is a text too: segments     *)
(* joined by Nul.                                                          *)
(***************************************************************************)
EXTENDS Ordering, FiniteSetsExt, SequencesExt

CONSTANTS
  Schemas,    (* element lists that may be read: records with size, name, num_children *)
  Names,      (* element names as they stand in the footer                             *)
  LowerText,  (* LowerText[n]: the lower-cased text of name n                          *)
  Nul         (* the symbol '\0' that joins path segments                              *)

ASSUME SchemasAssumption ==
  \A s \in Schemas :
    /\ s.size \in Nat
    /\ s.name \in [0 .. s.size - 1 -> Names]
    /\ s.num_children \in [0 .. s.size - 1 -> Int]

\* Every symbol a text can hold.
Symbols == {Nul} \cup UNION {Range(LowerText[n]) : n \in Names}

ASSUME LowerTextAssumption == LowerText \in [Names -> Seq(Symbols)]

VARIABLES
  phase,      (* which loop the builder is in                                     *)
  schema,     (* the element list being walked                                    *)
  cursor,     (* i, the loop index                                                *)
  parent,     (* parent[i]: the element that encloses i, -1 for none              *)
  stack,      (* st: the open groups, each with the children it still waits for   *)
  path,       (* path[i]: lower-cased, Nul-joined path with the root left out     *)
  leaf_elem   (* leaf ordinal + 1 -> element index                                *)

treeVars == <<phase, schema, cursor, parent, stack, path, leaf_elem>>

Elements == 0 .. schema.size - 1
Leaves == Len(leaf_elem)
Segment(i) == LowerText[schema.name[i]]

TreeInit ==
  /\ phase = "parents"
  /\ schema \in Schemas
  /\ cursor = 0
  /\ parent = [i \in Elements |-> -1]
  /\ stack = << >>
  /\ path = [i \in Elements |-> << >>]
  /\ leaf_elem = << >>

-----------------------------------------------------------------------------
(* The parent loop.                                                        *)

\* Mutant of PopFinished: if instead of while.
PopOneFinished(st) ==
  IF st # << >> /\ Last(st).left = 0 THEN Front(st) ELSE st

\* while (!st.empty() && st.back().second == 0) st.pop_back()
PopFinished(st) ==
  SubSeq(st, 1, Max({0} \cup {k \in DOMAIN st : st[k].left # 0}))

\* The innermost open group takes element i as one of its children ...
ChargeTop(st) ==
  IF st = << >> THEN st ELSE [st EXCEPT ![Len(st)].left = @ - 1]

\* ... and i is opened in turn when it has children of its own.
OpenGroup(st, i) ==
  IF schema.num_children[i] > 0
  THEN Append(st, [elem |-> i, left |-> schema.num_children[i]])
  ELSE st

VisitElement ==
  /\ phase = "parents"
  /\ cursor < schema.size
  /\ parent' = [parent EXCEPT ![cursor] =
                  IF stack = << >> THEN -1 ELSE stack[Len(stack)].elem]
  /\ stack' = PopFinished(OpenGroup(ChargeTop(stack), cursor))
  /\ cursor' = cursor + 1
  /\ UNCHANGED <<phase, schema, path, leaf_elem>>

EndParents ==
  /\ phase = "parents"
  /\ cursor = schema.size
  /\ phase' = "paths"
  /\ cursor' = 1
  /\ UNCHANGED <<schema, parent, stack, path, leaf_elem>>

-----------------------------------------------------------------------------
(* The path loop and the leaf loop, which visit the elements after the root *)
(* in the same order and touch different state.                             *)

\* Mutant of JoinedPath: segments joined without the Nul.
RunTogether(i) ==
  IF parent[i] <= 0 THEN Segment(i) ELSE path[parent[i]] \o Segment(i)

JoinedPath(i) ==
  IF parent[i] <= 0
  THEN Segment(i)
  ELSE path[parent[i]] \o <<Nul>> \o Segment(i)

NameElement ==
  /\ phase = "paths"
  /\ cursor < schema.size
  /\ path' = [path EXCEPT ![cursor] = JoinedPath(cursor)]
  /\ leaf_elem' = IF schema.num_children[cursor] = 0
                  THEN Append(leaf_elem, cursor)
                  ELSE leaf_elem
  /\ cursor' = cursor + 1
  /\ UNCHANGED <<phase, schema, parent, stack>>

EndPaths ==
  /\ phase = "paths"
  /\ cursor >= schema.size
  /\ phase' = "laid_out"
  /\ UNCHANGED <<schema, cursor, parent, stack, path, leaf_elem>>

TreeNext == VisitElement \/ EndParents \/ NameElement \/ EndPaths

-----------------------------------------------------------------------------
(* Properties.                                                             *)

TreePhases == {"parents", "paths", "laid_out"}

(* The reference: j lies inside i's subtree when, counting one expected     *)
(* element for i, the elements from i up to j always leave one still        *)
(* expected.  A group with a negative child count expects none.             *)
Expected(i, j) ==
  LET room[e \in i .. j] ==
        IF e = i THEN 1 ELSE room[e - 1] - 1 + Max({0, schema.num_children[e - 1]})
  IN room[j]

Encloses(i, j) == i < j /\ \A e \in i + 1 .. j : Expected(i, e) > 0

Ancestors(j) == {i \in 0 .. j - 1 : Encloses(i, j)}

\* The parent the stack gives an element is the innermost group whose subtree,
\* by the child counts alone, still has room for it (the loop at
\* parquet_to_modular.cc:734-742).
ParentEncloses ==
  \A j \in Elements :
    (phase # "parents" \/ j < cursor) =>
      parent[j] = Max({-1} \cup Ancestors(j))

\* Two elements share a canonical path only if their lower-cased names agree
\* level by level: a group never hides behind a leaf of another depth.  The join
\* is unambiguous because the names have no NUL byte in them (WithoutNul).
WithoutNul == \A n \in Names : Nul \notin Range(LowerText[n])
LevelTexts(j) ==
  LET chain == InOrder(({j} \cup Ancestors(j)) \ {0})
  IN [k \in DOMAIN chain |-> Segment(chain[k])]

PathsDistinguish ==
  phase = "laid_out" =>
    \A i, j \in Elements \ {0} : path[i] = path[j] <=> LevelTexts(i) = LevelTexts(j)

-----------------------------------------------------------------------------
(* The inductive invariant of the walk.                                    *)

\* The open groups are the groups whose subtrees have room for the next element,
\* outermost first; each waits for what its subtree still expects, less what
\* the group opened inside it does.
StackInv ==
  phase = "parents" =>
    /\ cursor \in 0 .. schema.size
    /\ stack \in Seq([elem : 0 .. cursor - 1, left : Nat])
    /\ \A k, l \in DOMAIN stack : k < l => stack[k].elem < stack[l].elem
    /\ Ancestors(cursor) = {stack[k].elem : k \in DOMAIN stack}
    /\ \A k \in DOMAIN stack :
         stack[k].left = Expected(stack[k].elem, cursor)
                         - IF k = Len(stack) THEN 0 ELSE Expected(stack[k + 1].elem, cursor)

\* A path that was set is that of the enclosing group and the element's segment:
\* no group is renamed behind its children.  The root's stays empty.
PathInv ==
  /\ path \in [Elements -> Seq(Symbols)]
  /\ 0 \in Elements => path[0] = << >>
  /\ phase # "parents" =>
       \A j \in Elements : j \in 1 .. cursor - 1 => path[j] = JoinedPath(j)

\* The leaf list holds the elements without children that were passed, in order,
\* each no earlier than its ordinal and early enough for the leaves behind it.
LeafInv ==
  /\ leaf_elem \in Seq(Nat)
  /\ IF phase = "parents" THEN leaf_elem = << >>
     ELSE /\ \A k \in 1 .. Leaves :
               /\ leaf_elem[k] \in k .. cursor - 1 - (Leaves - k)
               /\ leaf_elem[k] \in Elements /\ schema.num_children[leaf_elem[k]] = 0
          /\ \A k, l \in 1 .. Leaves : k < l => leaf_elem[k] < leaf_elem[l]
          /\ \A i \in Elements :
               i \in 1 .. cursor - 1 /\ schema.num_children[i] = 0 =>
                 \E k \in 1 .. Leaves : leaf_elem[k] = i

WalkInv ==
  /\ schema \in Schemas /\ cursor \in Nat
  /\ parent \in [Elements -> Int]
  /\ phase # "parents" => cursor = 1 \/ cursor \in 1 .. schema.size
  /\ phase \notin {"parents", "paths"} => cursor >= schema.size
  /\ StackInv /\ ParentEncloses /\ PathInv /\ LeafInv

\* Every group inside the tree has a name.
GroupsNamed ==
  \A i \in Elements \ {0} : schema.num_children[i] > 0 => Segment(i) # << >>

=============================================================================

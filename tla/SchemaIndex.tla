----------------------------- MODULE SchemaIndex -----------------------------
(***************************************************************************)
(* The SCHEMA_INDEX module of a modular footer: BuildSchemaIndex hashes    *)
(* the canonical path of every leaf into an open-addressed table, and a    *)
(* reader (schema_index_check, name_resolve_bench) resolves a path by      *)
(* probing the table and confirming a candidate against the path it        *)
(* rebuilds from the element names and the parent links.                   *)
(*                                                                         *)
(* A slot is 0 when empty, otherwise discriminator and ordinal + 1 packed  *)
(* in one integer; here it is the pair of the two.  num_slots is a power   *)
(* of two, so that h & (num_slots - 1) is h % num_slots.                   *)
(***************************************************************************)
EXTENDS NameHash

CONSTANT Queries   (* texts a reader asks for besides the paths of the leaves *)

VARIABLES
  num_slots,  (* size of the table                                          *)
  table,      (* slot -> [disc, ord1], Empty when nothing was stored there   *)
  ord,        (* the leaf being inserted                                    *)
  idx,        (* the slot the insertion looks at                            *)
  query,      (* the path a reader resolves                                 *)
  probe,      (* slots the reader has passed                                *)
  answer      (* the leaf ordinal of the last lookup, Absent for none       *)

indexVars == <<num_slots, table, ord, idx>>
readVars == <<query, probe, answer>>
vars == <<treeVars, hash, indexVars, readVars>>

Empty == [disc |-> 0, ord1 |-> 0]

Slot(h, n) == (h + n) % num_slots

\* Leaf ordinal -> element, path and slot value.
LeafElem(o) == leaf_elem[o + 1]
LeafPath(o) == path[LeafElem(o)]
SlotVal(o) == [disc |-> Discriminator(LeafPath(o)), ord1 |-> o + 1]
LeafSlot(o, n) == Slot(Fnv1a64(LeafPath(o)), n)
Home(o) == LeafSlot(o, 0)

Init ==
  /\ TreeInit
  /\ hash \in Hashes
  /\ num_slots = 1
  /\ table = << >>
  /\ ord = 0
  /\ idx = 0
  /\ query = << >>
  /\ probe = 0
  /\ answer = Absent

-----------------------------------------------------------------------------
(* The builder.                                                            *)

LayOut ==
  /\ TreeNext
  /\ UNCHANGED <<hash, indexVars, readVars>>

\* if (leaves == 0) return {}: no module is written.
NoLeaves ==
  /\ phase = "laid_out"
  /\ Leaves = 0
  /\ phase' = "no_index"
  /\ UNCHANGED <<schema, cursor, parent, stack, path, leaf_elem, hash, indexVars, readVars>>

\* Mutants of Target: a table that may be full, and one that may be too small.
TargetFull == Leaves
TargetTimes == (Leaves * 7) \div 10

\* ceil(leaves / 0.7)
Target == (Leaves * 10 + 6) \div 7

\* One round of NextPow2(target).
DoubleSlots ==
  /\ phase = "laid_out"
  /\ Leaves > 0
  /\ num_slots < Target
  /\ num_slots' = 2 * num_slots
  /\ UNCHANGED <<treeVars, hash, table, ord, idx, readVars>>

StartTable ==
  /\ phase = "laid_out"
  /\ Leaves > 0
  /\ num_slots >= Target
  /\ table' = [s \in 0 .. num_slots - 1 |-> Empty]
  /\ ord' = 0
  /\ idx' = Home(0)
  /\ phase' = "insert"
  /\ UNCHANGED <<schema, cursor, parent, stack, path, leaf_elem, hash, num_slots, readVars>>

\* Mutant of SkipTaken: another stride than the reader's.
SkipTwo ==
  /\ phase = "insert"
  /\ ord < Leaves
  /\ table[idx] # Empty
  /\ idx' = (idx + 2) % num_slots
  /\ UNCHANGED <<treeVars, hash, num_slots, table, ord, readVars>>

\* while (table[idx] != 0) idx = (idx + 1) & (num_slots - 1)
SkipTaken ==
  /\ phase = "insert"
  /\ ord < Leaves
  /\ table[idx] # Empty
  /\ idx' = (idx + 1) % num_slots
  /\ UNCHANGED <<treeVars, hash, num_slots, table, ord, readVars>>

StoreLeaf ==
  /\ phase = "insert"
  /\ ord < Leaves
  /\ table[idx] = Empty
  /\ table' = [table EXCEPT ![idx] = SlotVal(ord)]
  /\ ord' = ord + 1
  /\ idx' = IF ord + 1 < Leaves THEN Home(ord + 1) ELSE idx
  /\ UNCHANGED <<treeVars, hash, num_slots, readVars>>

\* The arrays are written out and a reader decodes them.
Publish ==
  /\ phase = "insert"
  /\ ord = Leaves
  /\ phase' = "ready"
  /\ UNCHANGED <<schema, cursor, parent, stack, path, leaf_elem, hash, indexVars, readVars>>

-----------------------------------------------------------------------------
(* The reader.  It knows the table and the names, and only when the schema *)
(* is not flat the leaf elements and the parent links.                     *)

Flat == schema.size = Leaves + 1

ParentOrdinal(e) == IF Flat \/ parent[e] <= 0 THEN 0 ELSE parent[e]

\* Mutant of CandidateElem: the flat short cut forgets the root.
CandidateElemFromZero(o) == IF Flat THEN o ELSE LeafElem(o)

CandidateElem(o) == IF Flat THEN o + 1 ELSE LeafElem(o)

\* build_path: from the element up to a child of the root; on the way back a
\* separator goes in front of a segment unless the text is still empty.
BuildPath(elem) ==
  LET up[e \in Elements] ==
        IF ParentOrdinal(e) = 0
        THEN Segment(e)
        ELSE LET out == up[ParentOrdinal(e)]
             IN IF out = << >> THEN Segment(e) ELSE out \o <<Nul>> \o Segment(e)
  IN up[elem]

\* The path text of the leaf a slot names, as the reader sees it.
Rebuilt(o) == BuildPath(CandidateElem(o))

Ask(t) ==
  /\ phase \in {"ready", "answered"}
  /\ phase' = "probing"
  /\ query' = t
  /\ probe' = 0
  /\ UNCHANGED <<schema, cursor, parent, stack, path, leaf_elem, hash, indexVars, answer>>

Answer(a) ==
  /\ phase' = "answered"
  /\ answer' = a
  /\ UNCHANGED <<schema, cursor, parent, stack, path, leaf_elem, hash, indexVars, query, probe>>

QuerySlot(n) == Slot(Fnv1a64(query), n)
ProbedSlot == table[QuerySlot(probe)]
Missed == probe = num_slots \/ ProbedSlot = Empty
Discriminated == ProbedSlot.disc = Discriminator(query)
\* Mutant of Confirmed: the discriminator is taken at its word.
ConfirmedUnseen == Discriminated

Confirmed == Discriminated /\ Rebuilt(ProbedSlot.ord1 - 1) = query

AnswerAbsent ==
  /\ phase = "probing"
  /\ Missed
  /\ Answer(Absent)

\* Mutant of PassSlot: the probe does not move.
PassNothing ==
  /\ phase = "probing"
  /\ ~Missed
  /\ ~Confirmed
  /\ UNCHANGED vars

PassSlot ==
  /\ phase = "probing"
  /\ ~Missed
  /\ ~Confirmed
  /\ probe' = probe + 1
  /\ UNCHANGED <<treeVars, hash, indexVars, query, answer>>

\* Mutant of AnswerFound: the stored ordinal + 1 is answered.
AnswerOneTooHigh ==
  /\ phase = "probing"
  /\ ~Missed
  /\ Confirmed
  /\ Answer(ProbedSlot.ord1)

AnswerFound ==
  /\ phase = "probing"
  /\ ~Missed
  /\ Confirmed
  /\ Answer(ProbedSlot.ord1 - 1)

Texts == Queries \cup {LeafPath(o) : o \in 0 .. Leaves - 1}

Build == LayOut \/ NoLeaves \/ DoubleSlots \/ StartTable \/ SkipTaken \/ StoreLeaf \/ Publish
Resolve == AnswerAbsent \/ PassSlot \/ AnswerFound

Next == Build \/ Resolve \/ \E t \in Texts : Ask(t)

\* Both sides are plain loops of one thread; only the caller may stop asking.
Spec == Init /\ [][Next]_vars /\ WF_vars(Build) /\ WF_vars(Resolve)

-----------------------------------------------------------------------------
(* Properties.                                                             *)

BuildPhases == TreePhases \cup {"no_index", "insert"}
ReadPhases == {"ready", "probing", "answered"}
Tabled == phase \in {"insert"} \cup ReadPhases

SlotValues == [disc : Nat, ord1 : 0 .. Leaves]

\* Type invariant.  Once the table exists it has more slots than leaves, and
\* every slot holds the value of a leaf that was inserted, or nothing.
IndexTypeOK ==
  /\ schema \in Schemas
  /\ cursor \in Nat
  /\ phase \in BuildPhases \cup ReadPhases
  /\ hash \in Hashes
  /\ num_slots \in Nat \ {0}
  /\ ord \in 0 .. Leaves
  /\ probe \in Nat
  /\ answer \in {Absent} \cup 0 .. Leaves - 1
  /\ leaf_elem \in Seq(Nat)
  /\ ~Tabled => ord = 0 /\ answer = Absent
  /\ phase \in ReadPhases => ord = Leaves
  /\ Tabled => /\ num_slots > Leaves
               /\ idx \in 0 .. num_slots - 1
               /\ table \in [0 .. num_slots - 1 -> SlotValues]
               /\ \A s \in 0 .. num_slots - 1 :
                    table[s] # Empty => \E o \in 0 .. ord - 1 : table[s] = SlotVal(o)

\* Leaf o sits d slots after the home of its hash, and every slot on the way
\* there was taken by an earlier leaf.
PassesEarlier(o, d) == \A k \in 0 .. d - 1 : table[LeafSlot(o, k)].ord1 \in 1 .. o
PlacedAt(o, d) == table[LeafSlot(o, d)] = SlotVal(o) /\ PassesEarlier(o, d)

\* Linear probing (parquet_to_modular.cc:768-775): a reader that walks from the
\* home of any inserted leaf meets it before it meets an empty slot or a later
\* leaf.
ProbeChain ==
  Tabled => \A o \in 0 .. ord - 1 : \E d \in 0 .. num_slots - 1 : PlacedAt(o, d)

\* The insertion under way is itself on such a walk.
InsertChain ==
  \A o \in 0 .. Leaves - 1 :
    phase = "insert" /\ ord = o =>
      \E d \in 0 .. num_slots - 1 : idx = LeafSlot(o, d) /\ PassesEarlier(o, d)

\* A leaf that a lookup of the present query can find.
Confirmable(o) == LeafPath(o) = query /\ Rebuilt(o) = query

\* Whatever the reader has passed is taken and is not what it looks for.
ReadChain ==
  phase = "probing" =>
    /\ probe <= num_slots
    /\ \A k \in 0 .. probe - 1 :
         \E o \in 0 .. ord - 1 : table[QuerySlot(k)] = SlotVal(o) /\ ~Confirmable(o)

\* The table is never full, which is what ends both probe loops: the writer's
\* has no bound of its own (parquet_to_modular.cc:773).
SpareSlot == Tabled => \E s \in 0 .. num_slots - 1 : table[s] = Empty

\* What the reader rebuilds from names and parent links is the path the writer
\* hashed, with the flat encoding's short cuts too (schema_index_check.cc:294-309
\* against parquet_to_modular.cc:750-755).
PathRebuilt ==
  Tabled => \A o \in 0 .. Leaves - 1 : Rebuilt(o) = LeafPath(o)

FirstOrdinal(t) ==
  LET same == {o \in 0 .. Leaves - 1 : LeafPath(o) = t}
  IN IF same = {} THEN Absent ELSE Min(same)

\* A lookup answers the first leaf with that canonical path, and answers absent
\* only when there is none, whatever collides with what.
ResolveFirst == phase = "answered" => answer = FirstOrdinal(query)

\* The same promise where the reader's rebuilt path may differ from the hashed
\* one: the answer is the first leaf that can be confirmed, or none can.
ResolveConfirmable ==
  phase = "answered" =>
    \/ \E o \in 0 .. Leaves - 1 :
         /\ answer = o
         /\ Rebuilt(o) = query
         /\ \A p \in 0 .. o - 1 : ~Confirmable(p)
    \/ /\ answer = Absent
       /\ \A p \in 0 .. Leaves - 1 : ~Confirmable(p)

\* The inductive invariant behind ProbeChain and ResolveConfirmable.
IInv == IndexTypeOK /\ ProbeChain /\ InsertChain /\ ReadChain /\ ResolveConfirmable

\* "Every leaf must resolve to its own ordinal." (schema_index_check.cc:327)
EveryLeafResolvesToItself ==
  phase = "answered" =>
    \A o \in 0 .. Leaves - 1 : LeafPath(o) = query => answer = o

\* The build ends, with a published index or with none.
IndexBuilt == <>(phase \in {"no_index"} \cup ReadPhases)

\* Every lookup is answered.
LookupAnswered == phase = "probing" ~> phase = "answered"

\* The table implements the name map, each probe of a lookup but the last and
\* each skip of an insertion being invisible.
Map == INSTANCE NameMap WITH
  added <- [k \in 1 .. ord |-> LeafPath(k - 1)],
  sealed <- phase \in ReadPhases,
  asking <- phase = "probing"

ImplementsNameMap == Map!Spec
=============================================================================

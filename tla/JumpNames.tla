------------------------------ MODULE JumpNames ------------------------------
(***************************************************************************)
(* The NameHashTable and the FieldIdMapping of a jump-table footer, and    *)
(* the reader of name_resolve_bench.  The table holds every element, the   *)
(* root (its path is the empty text) and the groups too; a slot is         *)
(* slot_bytes little-endian bytes, all zero when empty, discriminator over *)
(* ordinal + 1 otherwise.                                                  *)
(***************************************************************************)
EXTENDS NameHash

CONSTANTS
  ByteBits,  (* bits of a byte, and of a discriminator (8)                        *)
  FieldIds   (* element -> field_id, negative for none                            *)

ASSUME ByteBitsAssumption == ByteBits \in Nat \ {0}
ASSUME HashWidthAssumption ==
  \A h \in Hashes : \A t \in DOMAIN h : h[t] \in 0 .. DiscUnit * 2 ^ ByteBits - 1
ASSUME FieldIdsAssumption ==
  \A f \in FieldIds :
    /\ \A i \in DOMAIN f : f[i] \in Int
    /\ \A s \in Schemas : 0 .. s.size - 1 \subseteq DOMAIN f

VARIABLES
  bytes,  (* of the table's slots, by offset  *)
  elem    (* i, the element to be inserted    *)

nameVars == <<treeVars, hash, bytes, elem>>

NextPow2(n) == Min({p \in {2 ^ k : k \in 0 .. n} : p >= n})
BitsFor(v) == Min({b \in 1 .. v + 1 : v < 2 ^ b})

slot_count == NextPow2(Max({2, 2 * schema.size}))

\* Mutant of slot_bytes: room for the ordinal, not for ordinal + 1.
slot_bytes_tight == (ByteBits + BitsFor(schema.size - 1) + ByteBits - 1) \div ByteBits

slot_bytes == (ByteBits + BitsFor(schema.size) + ByteBits - 1) \div ByteBits
ordinal_bits == slot_bytes * ByteBits - ByteBits

\* The slot an element's probe looks at in its n-th round, and its value.
ProbeSlot(text, n) == (Fnv1a64(text) + n) % slot_count
ElementVal(i) == Discriminator(path[i]) * 2 ^ ordinal_bits + i + 1

ByteOf(val, b) == (val \div 2 ^ (ByteBits * b)) % 2 ^ ByteBits
PutLE(table, at, val, n) ==
  [o \in DOMAIN table |-> IF o \in at .. at + n - 1 THEN ByteOf(val, o - at) ELSE table[o]]
SlotEmpty(s) == \A b \in 0 .. slot_bytes - 1 : bytes[s * slot_bytes + b] = 0

-----------------------------------------------------------------------------
(* The writer.                                                             *)

NamesInit == TreeInit /\ hash = << >> /\ bytes = << >> /\ elem = 0

WalkTree == TreeNext /\ UNCHANGED <<hash, bytes, elem>>

\* A footer without schema elements was refused before.
ClearTable ==
  /\ phase = "laid_out" /\ schema.size > 0 /\ phase' = "inserting"
  /\ hash' \in Hashes
  /\ bytes' = [o \in 0 .. slot_count * slot_bytes - 1 |-> 0]
  /\ UNCHANGED <<schema, cursor, parent, stack, path, leaf_elem, elem>>

StoreElement ==
  /\ phase = "inserting" /\ elem < schema.size
  /\ LET free == {n \in 0 .. slot_count - 1 : SlotEmpty(ProbeSlot(path[elem], n))}
         at == ProbeSlot(path[elem], Min(free)) * slot_bytes
     IN bytes' = IF free = {} THEN bytes ELSE PutLE(bytes, at, ElementVal(elem), slot_bytes)
  /\ elem' = elem + 1
  /\ UNCHANGED <<treeVars, hash>>

EndTable ==
  /\ phase = "inserting" /\ elem = schema.size /\ phase' = "ready"
  /\ UNCHANGED <<schema, cursor, parent, stack, path, leaf_elem, hash, bytes, elem>>

NamesNext == WalkTree \/ ClearTable \/ StoreElement \/ EndTable

NamesSpec == NamesInit /\ [][NamesNext]_nameVars

\* FieldIdMapping: of the leaves, in column order.
LeafIds(field_id) ==
  LET leaf == InOrder({i \in Elements : schema.num_children[i] = 0})
  IN [k \in DOMAIN leaf |-> field_id[leaf[k]]]

\* Mutant of FieldIdMapping: a leaf without an id does not spoil the identity.
FieldIdMappingLoose(field_id) ==
  LET ids == LeafIds(field_id)
      with == {k \in DOMAIN ids : ids[k] >= 0}
  IN CASE with = {} -> [kind |-> "none"]
       [] with # {} /\ (\A k \in with : ids[k] = k - 1) -> [kind |-> "identity"]
       [] OTHER -> [kind |-> "explicit", map |-> {<<ids[k], k - 1>> : k \in with}]

FieldIdMapping(field_id) ==
  LET ids == LeafIds(field_id)
      with == {k \in DOMAIN ids : ids[k] >= 0}
  IN CASE with = {} -> [kind |-> "none"]
       [] with # {} /\ (\A k \in DOMAIN ids : ids[k] = k - 1) -> [kind |-> "identity"]
       [] OTHER -> [kind |-> "explicit", map |-> {<<ids[k], k - 1>> : k \in with}]

-----------------------------------------------------------------------------
(* The readers.  The file has no parent links: a path is built from the    *)
(* name of its element alone.                                              *)

\* LoadJumpTable derives the width of a slot from the table's length.
read_bytes == Cardinality(DOMAIN bytes) \div slot_count
read_ord_bits == read_bytes * ByteBits - ByteBits

SlotAt(s) ==
  SumFunction([b \in 0 .. read_bytes - 1 |-> bytes[s * read_bytes + b] * 2 ^ (ByteBits * b)])
ElementIndex(v) == (v % 2 ^ read_ord_bits) - 1
OwnPath(e) == Segment(e)

Candidate(query, v) == v # 0 /\ v \div 2 ^ read_ord_bits = Discriminator(query)

\* The first slot that ends the probe: an empty one, or one whose element is
\* confirmed.
LookUp(query, confirmed) ==
  LET value == [n \in 0 .. slot_count - 1 |-> SlotAt(ProbeSlot(query, n))]
      found == {n \in DOMAIN value :
                  Candidate(query, value[n]) /\ ElementIndex(value[n]) \in confirmed}
      ends == found \cup {n \in DOMAIN value : value[n] = 0}
  IN IF ends # {} /\ Min(ends) \in found THEN ElementIndex(value[Min(ends)]) ELSE Absent

HashResolve(query) == LookUp(query, {e \in Elements : OwnPath(e) = query})

\* Mutant of WalkResolve: the last element of a path is kept, not the first.
WalkResolveLast(query) ==
  LET named == {i \in Elements \ {0} : path[i] # << >> /\ path[i] = query}
  IN IF named = {} THEN Absent ELSE Max(named)

WalkResolve(query) ==
  LET named == {i \in Elements \ {0} : path[i] # << >> /\ path[i] = query}
  IN IF named = {} THEN Absent ELSE Min(named)

\* The paths main picks its queries from: those of the leaves.
Columns == {i \in Elements \ {0} : path[i] # << >> /\ schema.num_children[i] = 0}

-----------------------------------------------------------------------------
(* Properties.                                                             *)

\* Whatever collides with what, a reader that compares whole paths finds under
\* the path of every element, group or leaf, the first that has it: no slot is
\* lost, none is cut by its width, no probe stops short of it
\* (parquet_to_jumptable.cc:435-452; parquet.thrift:1400-1404 tells readers to).
PathsResolvable ==
  phase = "ready" =>
    \A i \in Elements :
      LET same == {j \in Elements : path[j] = path[i]} IN LookUp(path[i], same) = Min(same)

\* "Both return the same ordinals (cross-checked)." (name_resolve_bench.cc:32, of
\* the walk and the hash, and the throws at :396 and :406)
HashAsWalk ==
  phase = "ready" => \A i \in Columns : HashResolve(path[i]) = WalkResolve(path[i])

\* The reader compares names where paths are asked for.  That does no harm to a
\* column when the elements with its path as their name are those with that path:
\* the root, a group or a nested element of the name breaks it, a column that
\* repeats it, or differs in case only, does not (name_resolve_bench.cc:306-353,
\* "fixtures are flat", :293).
ShortCutAgrees ==
  phase = "ready" =>
    \A i \in Columns :
      (\A e \in Elements : OwnPath(e) = path[i] <=> path[e] = path[i]) =>
        HashResolve(path[i]) = WalkResolve(path[i])

Mapped(mapping, id) ==
  CASE mapping.kind = "none" -> {}
    [] mapping.kind = "identity" -> {id} \cap 0 .. Leaves - 1
    [] mapping.kind = "explicit" -> {pair[2] : pair \in {p \in mapping.map : p[1] = id}}

\* A field id leads to the columns that carry it and to no other, through
\* whichever of the three mappings the writer takes, when the root is a group
\* (parquet_to_jumptable.cc:454-466; the leaf ordinals are those of the walk).
FieldIdsFound ==
  phase = "ready" /\ schema.num_children[0] # 0 =>
    \A field_id \in FieldIds :
      \A id \in {field_id[i] : i \in DOMAIN field_id} \cap Nat :
        Mapped(FieldIdMapping(field_id), id) =
          {k - 1 : k \in {k \in 1 .. Leaves : field_id[leaf_elem[k]] = id}}

-----------------------------------------------------------------------------
(* The inductive invariant of the table.                                   *)

Slots == 0 .. slot_count - 1

\* The bytes of slot s are those of element i's value.
Holds(s, i) ==
  \A b \in 0 .. slot_bytes - 1 : bytes[s * slot_bytes + b] = ByteOf(ElementVal(i), b)

\* A probe for element i passes slots of earlier elements only, d of them.
ReachedAfter(i, d) ==
  /\ Holds(ProbeSlot(path[i], d), i)
  /\ \A k \in 0 .. d - 1 : \E p \in 0 .. i - 1 : Holds(ProbeSlot(path[i], k), p)

\* Each slot is free or an inserted element's, and each of those has one slot,
\* which its probe reaches.
SlotsInv ==
  /\ hash \in Hashes /\ elem \in 0 .. schema.size
  /\ DOMAIN bytes = 0 .. slot_count * slot_bytes - 1
  /\ \A s \in Slots : SlotEmpty(s) \/ \E i \in 0 .. elem - 1 : Holds(s, i)
  /\ \A i \in 0 .. elem - 1 : \A s, t \in Slots : Holds(s, i) /\ Holds(t, i) => s = t
  /\ \A i \in 0 .. elem - 1 : \E d \in Slots : ReachedAfter(i, d)

NamesInv ==
  /\ WalkInv
  /\ phase \in TreePhases \cup {"inserting", "ready"}
  /\ phase \in TreePhases => elem = 0
  /\ phase = "ready" => elem = schema.size
  /\ phase \in {"inserting", "ready"} => SlotsInv
=============================================================================

------------------------------ MODULE NameHash ------------------------------
(***************************************************************************)
(* What the two name tables, of a modular and of a jump-table footer, have *)
(* in common beside the schema walk: the hash of a path text and the       *)
(* discriminator cut from its top.  FNV-1a is any function of Hashes:      *)
(* every run and every theorem is about all the collisions the set has.    *)
(***************************************************************************)
EXTENDS SchemaTree

CONSTANTS
  Hashes,    (* hash functions, by their values on some texts (0 on the others) *)
  DiscUnit   (* 2^(64 - disc_bits): a hash over it is its discriminator          *)

ASSUME HashesAssumption == \A h \in Hashes : \A t \in DOMAIN h : h[t] \in Nat
ASSUME DiscUnitAssumption == DiscUnit \in Nat \ {0}

VARIABLE hash   (* the hash function, fixed *)

Absent == -1   \* the answer to a name that is not there

Fnv1a64(t) == IF t \in DOMAIN hash THEN hash[t] ELSE 0
Discriminator(t) == Fnv1a64(t) \div DiscUnit
=============================================================================

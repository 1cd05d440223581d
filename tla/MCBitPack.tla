------------------------------ MODULE MCBitPack ------------------------------
(***************************************************************************)
(* Three-bit bytes and five-bit words: a value may straddle three bytes,   *)
(* as a 63-bit value straddles nine.  The words give every width from 0 to *)
(* a whole word, and lists of up to MaxLen of them every alignment.        *)
(***************************************************************************)
EXTENDS BitPack

CONSTANT MaxLen

MCWords == {{}, {0}, {1}, {0, 2}, {3}, {0, 1, 2, 3}, {4}, {0, 4}, {0, 1, 2, 3, 4}}
MCBatches == UNION {[1 .. n -> MCWords] : n \in 0 .. MaxLen}

\* What follows the region: all zero bits, or all ones.
MCTails == {[k \in 1 .. 2 |-> {}], [k \in 1 .. 2 |-> {0, 1, 2}]}
=============================================================================

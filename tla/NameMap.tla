------------------------------- MODULE NameMap -------------------------------
(***************************************************************************)
(* What a name index promises: texts are added one after the other and     *)
(* numbered from 0, the index is sealed, and from then on a lookup answers *)
(* the number of the first text equal to the one asked for, or Absent.     *)
(***************************************************************************)
EXTENDS Integers, Sequences

CONSTANT Absent   (* the answer for a text that was not added *)

VARIABLES added, sealed, asking, query, answer

vars == <<added, sealed, asking, query, answer>>

FirstOrdinal(t) ==
  IF \E k \in DOMAIN added : added[k] = t
  THEN (CHOOSE k \in DOMAIN added :
          added[k] = t /\ \A j \in 1 .. k - 1 : added[j] # t) - 1
  ELSE Absent

Init ==
  /\ added = << >>
  /\ sealed = FALSE
  /\ asking = FALSE
  /\ query = << >>
  /\ answer = Absent

\* Any text may be added: the new list extends the old one by one.
Add ==
  /\ ~sealed
  /\ Len(added') = Len(added) + 1
  /\ \A k \in DOMAIN added : added'[k] = added[k]
  /\ UNCHANGED <<sealed, asking, query, answer>>

Seal ==
  /\ ~sealed
  /\ sealed' = TRUE
  /\ UNCHANGED <<added, asking, query, answer>>

\* Any text may be asked for: query' is free.
Ask ==
  /\ sealed /\ ~asking
  /\ asking' = TRUE
  /\ UNCHANGED <<added, sealed, answer>>

Reply ==
  /\ asking
  /\ answer' = FirstOrdinal(query)
  /\ asking' = FALSE
  /\ UNCHANGED <<added, sealed, query>>

Next == Add \/ Seal \/ Ask \/ Reply

Spec == Init /\ [][Next]_vars /\ WF_vars(Reply)
=============================================================================

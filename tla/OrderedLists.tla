---------------------------- MODULE OrderedLists ----------------------------
(***************************************************************************)
(* Lists of the web app, by the positions of their elements: the ids of a  *)
(* page oldest first, and what Array.filter leaves of a list.              *)
(***************************************************************************)
EXTENDS Integers, Sequences, FiniteSets, Functions

(* The numbers of S, smallest first: at i the one that exceeds i - 1.      *)
Ascending(S) ==
  [i \in 1..Cardinality(S) |-> CHOOSE m \in S : Cardinality({k \in S : k < m}) = i - 1]

(* s without the elements of S, the others in their order.                 *)
Without(s, S) ==
  LET kept == Ascending({i \in DOMAIN s : s[i] \notin S})
  IN [i \in DOMAIN kept |-> s[kept[i]]]
=============================================================================

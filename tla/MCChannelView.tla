---- MODULE MCChannelView ----
(* Small instances of the chat view.  The operators on lists are compared  *)
(* with those of the libraries, on all lists of up to four of three ids.   *)
EXTENDS ChannelView, SequencesExt

Lists == UNION {[1..n -> 0..2] : n \in 0..4}

ASSUME AscendingSorts == \A S \in SUBSET (0..4) : Ascending(S) = SetToSortSeq(S, <)

ASSUME WithoutFilters ==
  \A s \in Lists : \A S \in SUBSET (0..2) : Without(s, S) = SelectSeq(s, LAMBDA x : x \notin S)
====

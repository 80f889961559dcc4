---------------------------- MODULE MessagePage ----------------------------
(***************************************************************************)
(* One page of a channel's history, as list_messages (chat service,        *)
(* messages.rs) computes it from what Cassandra holds.  A message is its   *)
(* id, a UUIDv7: a number that grows with the time it was made.  Rows come *)
(* newest first, so a page is the set of its ids.                          *)
(***************************************************************************)
EXTENDS Integers, FiniteSets

(* LIMIT n, newest first.                                                  *)
Newest(S, n) == {m \in S : Cardinality({k \in S : k > m}) < n}

Oldest(S) == CHOOSE m \in S : \A k \in S : m <= k

(* Mutant: no extra row is fetched.                                        *)
ListPageExact(stored, deleted, before, limit) ==
  LET live == Newest({m \in stored : m < before}, limit) \ deleted
  IN [msgs |-> live, more |-> Cardinality(live) > limit]

(* Mutant: the extra row is cut off at the wrong end.                      *)
ListPageOldest(stored, deleted, before, limit) ==
  LET rows == Newest({m \in stored : m < before}, limit + 1)
      live == rows \ deleted
  IN [msgs |-> {m \in live : Cardinality({k \in live : k < m}) < limit},
      more |-> Cardinality(live) > limit]

(* Mutant: deleted rows are not skipped.                                   *)
ListPageUnfiltered(stored, deleted, before, limit) ==
  LET rows == Newest({m \in stored : m < before}, limit + 1)
  IN [msgs |-> Newest(rows, limit), more |-> Cardinality(rows) > limit]

(* One row more than the limit is fetched to detect has_more; deleted rows *)
(* are skipped after the fetch.                                            *)
ListPage(stored, deleted, before, limit) ==
  LET rows == Newest({m \in stored : m < before}, limit + 1)
      live == rows \ deleted
  IN [msgs |-> Newest(live, limit), more |-> Cardinality(live) > limit]
=============================================================================

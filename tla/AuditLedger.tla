---------------------------- MODULE AuditLedger ----------------------------
(***************************************************************************)
(* What the audit store promises: an append-only log of distinct events    *)
(* whose head hash commits to the whole history before it.                 *)
(* A hash is idealised as collision free, so it is represented by what it  *)
(* commits to: the sequence of events chained so far.                      *)
(* Once the writer has slipped (it lost track of the head) the log is      *)
(* still append-only and free of repetitions, but the hashes are not       *)
(* promised any more.                                                      *)
(***************************************************************************)
EXTENDS Sequences

CONSTANT Event

VARIABLES log, head, slipped

(* computeHash: SHA-256 of the event together with the previous hash.      *)
computeHash(ev, prevHash) == Append(prevHash, ev)

Init == log = <<>> /\ head = <<>> /\ slipped = FALSE

Record(ev) ==
  /\ \A i \in DOMAIN log : log[i] # ev
  /\ log' = Append(log, ev)
  /\ slipped \/ head' = computeHash(ev, head)
  /\ UNCHANGED slipped

Slip == slipped' = TRUE /\ UNCHANGED <<log, head>>

Next == Slip \/ \E ev \in Event : Record(ev)

Spec == Init /\ [][Next]_<<log, head, slipped>>
=============================================================================

----------------------------- MODULE AuditChain -----------------------------
(***************************************************************************)
(* The audit service (services/audit): a Kafka consumer that appends each  *)
(* event of the audit.events topic to a hash-chained table, keeping the    *)
(* hash of the last row in memory (store.lastHash).                        *)
(*                                                                         *)
(* The offset of an event is committed when it is read, before it is       *)
(* stored; INSERT and the answer to it are separate steps, so a process    *)
(* may die between them; a row with a known event_id is refused.           *)
(***************************************************************************)
EXTENDS Integers, Sequences

CONSTANTS
  Event,       \* audit events (an event_id identifies one)
  Valid,       \* the events that decode and have the required fields
  Proc,        \* incarnations of the audit process
  MaxTopic,    \* bound: events ever published
  MaxStarts,   \* bound: process starts
  LostReply,   \* may a successful INSERT be reported as failed?
  Overlap,     \* may a new process start before the old one is down?
  None

ASSUME AuditAssumption ==
  /\ Valid \subseteq Event
  /\ MaxTopic \in Nat /\ MaxStarts \in Nat
  /\ LostReply \in BOOLEAN /\ Overlap \in BOOLEAN
  /\ None \notin Event \cup Proc

VARIABLES
  topic,     \* the single partition of audit.events
  offset,    \* the consumer group's committed offset
  rows,      \* audit_events, in seq order
  owner,     \* the process Kafka has assigned the partition to
  pc,        \* proc -> where its consumer loop is
  cur,       \* proc -> the event being stored
  lastHash,  \* proc -> store.lastHash
  starts,    \* process starts so far
  slip       \* history: a reply was lost, or a process started beside another

vars == <<topic, offset, rows, owner, pc, cur, lastHash, starts, slip>>

computeHash(ev, prevHash) == Append(prevHash, ev)

Hash == Seq(Event)
Row == [event: Event, prev: Hash, hash: Hash]

(* Type invariant; the committed offset stays within the topic.            *)
TypeOK ==
  /\ topic \in Seq(Event)
  /\ offset \in 0..Len(topic)
  /\ rows \in Seq(Row)
  /\ owner \in Proc \cup {None}
  /\ pc \in [Proc -> {"down", "joining", "polling", "insert", "reply", "failed"}]
  /\ cur \in [Proc -> Event \cup {None}]
  /\ lastHash \in [Proc -> Hash]
  /\ starts \in 0..MaxStarts
  /\ slip \in BOOLEAN

Init ==
  /\ topic = <<>> /\ offset = 0
  /\ rows = <<>>
  /\ owner = None
  /\ pc = [p \in Proc |-> "down"]
  /\ cur = [p \in Proc |-> None]
  /\ lastHash = [p \in Proc |-> <<>>]
  /\ starts = 0
  /\ slip = FALSE

-----------------------------------------------------------------------------
ChainHead == IF rows = <<>> THEN <<>> ELSE rows[Len(rows)].hash
Stored(ev) == \E i \in DOMAIN rows : rows[i].event = ev

Goto(p, l) == pc' = [pc EXCEPT ![p] = l]

(* A service emits an event (external; a producer retry may repeat it).    *)
Publish(ev) ==
  /\ Len(topic) < MaxTopic
  /\ topic' = Append(topic, ev)
  /\ UNCHANGED <<offset, rows, owner, pc, cur, lastHash, starts, slip>>

(* Mutant: the process starts a chain of its own.                          *)
StartUnseeded(p) ==
  /\ pc[p] = "down"
  /\ starts < MaxStarts /\ starts' = starts + 1
  /\ Overlap \/ \A q \in Proc : pc[q] = "down"
  /\ slip' = (slip \/ \E q \in Proc : pc[q] # "down")
  /\ lastHash' = [lastHash EXCEPT ![p] = <<>>]
  /\ Goto(p, "joining")
  /\ UNCHANGED <<topic, offset, rows, owner, cur>>

(* main: seed reads the head of the stored chain, then the consumer joins  *)
(* the group.                                                              *)
Start(p) ==
  /\ pc[p] = "down"
  /\ starts < MaxStarts /\ starts' = starts + 1
  /\ Overlap \/ \A q \in Proc : pc[q] = "down"
  /\ slip' = (slip \/ \E q \in Proc : pc[q] # "down")
  /\ lastHash' = [lastHash EXCEPT ![p] = ChainHead]
  /\ Goto(p, "joining")
  /\ UNCHANGED <<topic, offset, rows, owner, cur>>

(* Kafka gives the partition to a waiting member (external).               *)
Assign(p) ==
  /\ pc[p] = "joining" /\ owner = None
  /\ owner' = p
  /\ Goto(p, "polling")
  /\ UNCHANGED <<topic, offset, rows, cur, lastHash, starts, slip>>

(* run: ReadMessage takes the next event and commits its offset; what      *)
(* validEvent or the decoder refuses is dropped.                           *)
ReadMessage(p) ==
  /\ pc[p] = "polling" /\ owner = p
  /\ offset < Len(topic)
  /\ offset' = offset + 1
  /\ LET ev == topic[offset + 1]
     IN IF ev \in Valid
          THEN cur' = [cur EXCEPT ![p] = ev] /\ Goto(p, "insert")
          ELSE UNCHANGED <<cur, pc>>
  /\ UNCHANGED <<topic, rows, owner, lastHash, starts, slip>>

NewRow(p) == [event |-> cur[p], prev |-> lastHash[p],
              hash |-> computeHash(cur[p], lastHash[p])]

(* Mutant: event_id is not UNIQUE.                                         *)
InsertUnchecked(p) ==
  /\ pc[p] = "insert"
  /\ rows' = Append(rows, NewRow(p))
  /\ Goto(p, "reply")
  /\ UNCHANGED <<topic, offset, owner, cur, lastHash, starts, slip>>

(* append: the INSERT takes effect ...                                     *)
Insert(p) ==
  /\ pc[p] = "insert"
  /\ ~Stored(cur[p])
  /\ rows' = Append(rows, NewRow(p))
  /\ Goto(p, "reply")
  /\ UNCHANGED <<topic, offset, owner, cur, lastHash, starts, slip>>

(* ... or is refused: event_id is UNIQUE, or the database is unavailable.  *)
Refuse(p) ==
  /\ pc[p] = "insert"
  /\ Goto(p, "failed")
  /\ UNCHANGED <<topic, offset, rows, owner, cur, lastHash, starts, slip>>

(* The INSERT is acknowledged: the new row is the head.                    *)
Advance(p) ==
  /\ pc[p] = "reply"
  /\ lastHash' = [lastHash EXCEPT ![p] = computeHash(cur[p], @)]
  /\ cur' = [cur EXCEPT ![p] = None]
  /\ Goto(p, "polling")
  /\ UNCHANGED <<topic, offset, rows, owner, starts, slip>>

(* The acknowledgement is lost: append returns an error.                   *)
LoseReply(p) ==
  /\ LostReply
  /\ pc[p] = "reply"
  /\ slip' = TRUE
  /\ Goto(p, "failed")
  /\ UNCHANGED <<topic, offset, rows, owner, cur, lastHash, starts>>

(* Mutant: a failed append is tried again until it succeeds.               *)
GiveUpRetries(p) ==
  /\ pc[p] = "failed"
  /\ Goto(p, "insert")
  /\ UNCHANGED <<topic, offset, rows, owner, cur, lastHash, starts, slip>>

(* run: after a failed append the event is logged and given up.            *)
GiveUp(p) ==
  /\ pc[p] = "failed"
  /\ cur' = [cur EXCEPT ![p] = None]
  /\ Goto(p, "polling")
  /\ UNCHANGED <<topic, offset, rows, owner, lastHash, starts, slip>>

(* The process stops or dies, at any point; Kafka takes the partition      *)
(* back.  (Bounded with the starts: whatever stops is started again.)      *)
Stop(p) ==
  /\ pc[p] # "down" /\ starts < MaxStarts
  /\ Goto(p, "down")
  /\ owner' = IF owner = p THEN None ELSE owner
  /\ cur' = [cur EXCEPT ![p] = None]
  /\ UNCHANGED <<topic, offset, rows, lastHash, starts, slip>>

Step(p) ==
  \/ Assign(p) \/ ReadMessage(p) \/ Insert(p) \/ Refuse(p)
  \/ Advance(p) \/ LoseReply(p) \/ GiveUp(p)

Next ==
  \/ \E ev \in Event : Publish(ev)
  \/ \E p \in Proc : Start(p) \/ Step(p) \/ Stop(p)

Spec == Init /\ [][Next]_vars

(* The consumer loop keeps running and a container that is down is started *)
(* again (restart: unless-stopped).                                        *)
FairSpec == Spec /\ \A p \in Proc : WF_vars(Start(p)) /\ WF_vars(Step(p))

-----------------------------------------------------------------------------
(* verify: walks the rows in seq order, checking every prev_hash against   *)
(* the row before and recomputing every hash.                              *)
verify ==
  \A i \in DOMAIN rows :
    /\ rows[i].prev = IF i = 1 THEN <<>> ELSE rows[i - 1].hash
    /\ rows[i].hash = computeHash(rows[i].event, rows[i].prev)

(* consumer.go: one consumer of one partition "is what the global hash     *)
(* chain relies on".  The chain the service wrote verifies, through stops, *)
(* restarts, duplicate events and failed or interrupted INSERTs, unless an *)
(* INSERT that took effect was taken for failed, or two processes overlap. *)
ChainVerifiesUnlessSlip == ~slip => verify

(* Until then one process at most is up, and the hash it keeps in memory   *)
(* is that of the last row, or of the row before while an INSERT awaits    *)
(* its answer: duplicate, failed and interrupted INSERTs leave it right.   *)
HeadTracked ==
  ~slip => \A p \in Proc : pc[p] # "down" =>
    /\ \A q \in Proc : pc[q] # "down" => q = p
    /\ ChainHead = IF pc[p] = "reply" THEN computeHash(cur[p], lastHash[p])
                                     ELSE lastHash[p]

(* The consumer gets past every event published: no malformed, duplicate   *)
(* or refused event, and no restart, holds the partition up.               *)
NeverStuck == \A n \in 1..MaxTopic : (Len(topic) >= n) ~> (offset >= n)

(* The table is an append-only ledger of distinct events whose head        *)
(* commits to its history (until a slip).                                  *)
Ledger == INSTANCE AuditLedger WITH
  log <- [i \in DOMAIN rows |-> rows[i].event],
  head <- ChainHead,
  slipped <- slip
ImplementsLedger == Ledger!Spec
=============================================================================

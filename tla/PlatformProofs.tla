---------------------------- MODULE PlatformProofs ----------------------------
(***************************************************************************)
(* The audit chain and the deployment.                                     *)
(*                                                                         *)
(* The audit service, for any events, any length of the topic, any number  *)
(* of restarts and any mixture of failures.                                *)
(*                                                                         *)
(* That the init Jobs can be cut off anywhere and run again: for any set   *)
(* of them, any backoff limits, any services and any faults.  Neither      *)
(* property of them is inductive.  A Job that is done has left everything  *)
(* because every statement it passed without hiding an error has left its  *)
(* mark and found what it needs, and each hidden one is needed by one that *)
(* is not.  A rerun finds what it needs because each statement needs only  *)
(* what earlier ones of its own script leave, unless a CREATE ROLE was     *)
(* hidden during an outage: then that outage has been counted already.     *)
(***************************************************************************)
EXTENDS AuditChain, BringUp, TLAPS


(* A process that is storing something has an event in hand.               *)
Holding == \A p \in Proc : pc[p] \in {"insert", "reply"} => cur[p] \in Event

Inv == TypeOK /\ Holding /\ HeadTracked /\ ChainVerifiesUnlessSlip

(* The initial state satisfies the invariant.                              *)
LEMMA InvInit == Init => Inv
<1> SUFFICES ASSUME Init PROVE Inv OBVIOUS
<1> USE AuditAssumption DEF Init
<1>1. TypeOK
  <2>1. slip \in BOOLEAN BY Zenon
  <2>2. /\ topic \in Seq(Event) /\ offset \in 0..Len(topic)
        /\ rows \in Seq(Row) /\ starts \in 0..MaxStarts
        OBVIOUS
  <2>3. lastHash \in [Proc -> Hash] BY DEF Hash
  <2> QED BY <2>1, <2>2, <2>3, Zenon DEF TypeOK
<1>2. Holding /\ HeadTracked BY DEF Holding, HeadTracked
<1>3. ChainVerifiesUnlessSlip BY DEF ChainVerifiesUnlessSlip, verify
<1> QED BY <1>1, <1>2, <1>3 DEF Inv

(* Chaining an event to a hash gives a hash; the head of the table is one. *)
LEMMA HashType ==
  /\ \A ev \in Event, h \in Hash : computeHash(ev, h) \in Hash
  /\ TypeOK => ChainHead \in Hash
<1>1. \A ev \in Event, h \in Hash : computeHash(ev, h) \in Hash BY DEF computeHash, Hash
<1>2. ASSUME TypeOK PROVE ChainHead \in Hash
  <2>1. rows \in Seq(Row) BY <1>2 DEF TypeOK
  <2>2. CASE rows = <<>> BY <2>2 DEF ChainHead, Hash
  <2>3. CASE rows # <<>>
    <3>1. Len(rows) \in 1..Len(rows) BY <2>1, <2>3
    <3>2. rows[Len(rows)] \in Row BY <2>1, <3>1
    <3> QED BY <2>3, <3>2 DEF ChainHead, Row
  <2> QED BY <2>2, <2>3
<1> QED BY <1>1, <1>2

(* Every step keeps the types.                                             *)
LEMMA TypeStep == Inv /\ [Next]_vars => TypeOK'
<1> SUFFICES ASSUME Inv, [Next]_vars PROVE TypeOK' OBVIOUS
<1> USE AuditAssumption DEF Inv, TypeOK
<1>1. ASSUME NEW ev \in Event, Publish(ev) PROVE TypeOK' BY <1>1 DEF Publish
<1>2. ASSUME NEW p \in Proc, Start(p) PROVE TypeOK'
      BY <1>2, HashType DEF Start, Goto
<1>3. ASSUME NEW p \in Proc, Assign(p) PROVE TypeOK' BY <1>3 DEF Assign, Goto
<1>4. ASSUME NEW p \in Proc, ReadMessage(p) PROVE TypeOK'
  <2>1. topic[offset + 1] \in Event BY <1>4 DEF ReadMessage
  <2> QED BY <1>4, <2>1 DEF ReadMessage, Goto
<1>5. ASSUME NEW p \in Proc, Insert(p) PROVE TypeOK'
  <2>1. NewRow(p) \in Row BY <1>5, HashType DEF Insert, NewRow, Row, Holding
  <2> QED BY <1>5, <2>1 DEF Insert, Goto
<1>6. ASSUME NEW p \in Proc, Refuse(p) \/ LoseReply(p) PROVE TypeOK'
      BY <1>6 DEF Refuse, LoseReply, Goto
<1>7. ASSUME NEW p \in Proc, Advance(p) PROVE TypeOK'
  <2>1. computeHash(cur[p], lastHash[p]) \in Hash
        BY <1>7, HashType DEF Advance, Holding
  <2> QED BY <1>7, <2>1 DEF Advance, Goto
<1>8. ASSUME NEW p \in Proc, GiveUp(p) PROVE TypeOK' BY <1>8 DEF GiveUp, Goto
<1>9. ASSUME NEW p \in Proc, Stop(p) PROVE TypeOK' BY <1>9 DEF Stop, Goto
<1>10. CASE UNCHANGED vars BY <1>10 DEF vars
<1> QED BY <1>1, <1>2, <1>3, <1>4, <1>5, <1>6, <1>7, <1>8, <1>9, <1>10 DEF Next, Step

(* Inserting a row makes its hash the head; nothing else changes the rows. *)
LEMMA InsertHead ==
  ASSUME TypeOK, NEW p \in Proc, Insert(p)
  PROVE  /\ Len(rows') = Len(rows) + 1
         /\ rows'[Len(rows) + 1] = NewRow(p)
         /\ \A i \in 1..Len(rows) : rows'[i] = rows[i]
         /\ DOMAIN rows' = 1..(Len(rows) + 1)
         /\ ChainHead' = computeHash(cur[p], lastHash[p])
<1>1. /\ Len(rows') = Len(rows) + 1
      /\ rows'[Len(rows) + 1] = NewRow(p)
      /\ \A i \in 1..Len(rows) : rows'[i] = rows[i]
      /\ DOMAIN rows' = 1..(Len(rows) + 1)
      BY DEF TypeOK, Insert
<1>2. rows' # <<>> BY <1>1 DEF TypeOK
<1> QED BY <1>1, <1>2 DEF ChainHead, NewRow

(* Only ReadMessage starts storing something, with an event of the topic.  *)
LEMMA HoldingStep == Inv /\ [Next]_vars => Holding'
<1> SUFFICES ASSUME Inv, [Next]_vars PROVE Holding' OBVIOUS
<1> USE AuditAssumption DEF Inv, TypeOK, Holding
<1>1. ASSUME NEW ev \in Event, Publish(ev) PROVE Holding' BY <1>1 DEF Publish
<1>2. ASSUME NEW p \in Proc, ReadMessage(p) PROVE Holding'
  <2>1. topic[offset + 1] \in Event BY <1>2 DEF ReadMessage
  <2> QED BY <1>2, <2>1 DEF ReadMessage, Goto
<1>3. ASSUME NEW p \in Proc, Start(p) \/ Assign(p) \/ Stop(p) PROVE Holding'
      BY <1>3 DEF Start, Assign, Stop, Goto
<1>4. ASSUME NEW p \in Proc, Insert(p) \/ Refuse(p) \/ LoseReply(p) PROVE Holding'
      BY <1>4 DEF Insert, Refuse, LoseReply, Goto
<1>5. ASSUME NEW p \in Proc, Advance(p) \/ GiveUp(p) PROVE Holding'
      BY <1>5 DEF Advance, GiveUp, Goto
<1>6. CASE UNCHANGED vars BY <1>6 DEF vars
<1> QED BY <1>1, <1>2, <1>3, <1>4, <1>5, <1>6 DEF Next, Step

(* The in-memory head follows the table.                                   *)
LEMMA HeadStep == Inv /\ [Next]_vars => HeadTracked'
<1> SUFFICES ASSUME Inv, [Next]_vars PROVE HeadTracked' OBVIOUS
<1> USE AuditAssumption DEF Inv
<1>1. ASSUME NEW ev \in Event, Publish(ev) PROVE HeadTracked'
      BY <1>1 DEF Publish, HeadTracked, ChainHead
<1>2. ASSUME NEW p \in Proc, Start(p) PROVE HeadTracked'
      BY <1>2 DEF Start, Goto, HeadTracked, ChainHead, TypeOK
<1>3. ASSUME NEW p \in Proc, Assign(p) \/ Refuse(p) PROVE HeadTracked'
      BY <1>3 DEF Assign, Refuse, Goto, HeadTracked, ChainHead, TypeOK
<1>4. ASSUME NEW p \in Proc, ReadMessage(p) PROVE HeadTracked'
  <2>1. topic[offset + 1] \in Event BY <1>4 DEF ReadMessage, TypeOK
  <2>2. CASE topic[offset + 1] \in Valid
        BY <1>4, <2>1, <2>2 DEF ReadMessage, Goto, HeadTracked, ChainHead, TypeOK
  <2>3. CASE topic[offset + 1] \notin Valid
        BY <1>4, <2>3 DEF ReadMessage, HeadTracked, ChainHead
  <2> QED BY <2>2, <2>3
<1>5. ASSUME NEW p \in Proc, Insert(p) PROVE HeadTracked'
  <2> SUFFICES ASSUME ~slip PROVE HeadTracked' BY <1>5 DEF Insert, HeadTracked
  <2>1. ChainHead' = computeHash(cur[p], lastHash[p]) BY <1>5, InsertHead
  <2>2. /\ pc[p] = "insert" /\ cur' = cur /\ lastHash' = lastHash
        /\ pc' = [pc EXCEPT ![p] = "reply"]
        BY <1>5 DEF Insert, Goto
  <2>3. pc'[p] = "reply" /\ \A q \in Proc : q # p => pc'[q] = pc[q]
        BY <2>2 DEF TypeOK
  <2>4. \A q \in Proc : pc[q] # "down" => q = p
        BY <2>2 DEF HeadTracked
  <2>5. \A q \in Proc : pc'[q] # "down" => q = p BY <2>3, <2>4
  <2> QED BY <2>1, <2>2, <2>3, <2>4, <2>5 DEF HeadTracked
<1>6. ASSUME NEW p \in Proc, Advance(p) \/ GiveUp(p) PROVE HeadTracked'
      BY <1>6 DEF Advance, GiveUp, Goto, HeadTracked, ChainHead, TypeOK
<1>7. ASSUME NEW p \in Proc, LoseReply(p) PROVE HeadTracked'
      BY <1>7 DEF LoseReply, HeadTracked
<1>8. ASSUME NEW p \in Proc, Stop(p) PROVE HeadTracked'
      BY <1>8 DEF Stop, Goto, HeadTracked, ChainHead, TypeOK
<1>9. CASE UNCHANGED vars BY <1>9 DEF vars, HeadTracked, ChainHead
<1> QED BY <1>1, <1>2, <1>3, <1>4, <1>5, <1>6, <1>7, <1>8, <1>9 DEF Next, Step

(* A row chained to the head extends a chain that verifies.                *)
LEMMA VerifyStep == Inv /\ [Next]_vars => ChainVerifiesUnlessSlip'
<1> SUFFICES ASSUME Inv, [Next]_vars, ~slip' PROVE verify' BY DEF ChainVerifiesUnlessSlip
<1>0. ~slip
      BY DEF Next, Step, vars, Publish, Start, Assign, ReadMessage, Insert, Refuse,
             Advance, LoseReply, GiveUp, Stop, Inv, TypeOK
<1>v. verify BY <1>0 DEF Inv, ChainVerifiesUnlessSlip
<1>1. CASE UNCHANGED rows BY <1>v, <1>1 DEF verify
<1>2. ASSUME NEW p \in Proc, Insert(p) PROVE verify'
  <2> SUFFICES ASSUME NEW i \in DOMAIN rows'
               PROVE  /\ rows'[i].prev = IF i = 1 THEN <<>> ELSE rows'[i - 1].hash
                      /\ rows'[i].hash = computeHash(rows'[i].event, rows'[i].prev)
      BY DEF verify
  <2>1. rows \in Seq(Row) /\ Len(rows) \in Nat BY DEF Inv, TypeOK
  <2>2. i \in 1..(Len(rows) + 1) BY <1>2, InsertHead DEF Inv
  <2>3. CASE i \in 1..Len(rows)
    <3>1. rows'[i] = rows[i] /\ (i # 1 => rows'[i - 1] = rows[i - 1])
          BY <1>2, <2>1, <2>3, InsertHead DEF Inv
    <3> QED BY <1>v, <2>1, <2>3, <3>1 DEF verify
  <2>4. CASE i = Len(rows) + 1
    <3>1. rows'[i] = NewRow(p) /\ (i # 1 => rows'[i - 1] = rows[Len(rows)])
          BY <1>2, <2>1, <2>4, InsertHead DEF Inv
    <3>2. lastHash[p] = ChainHead BY <1>0, <1>2 DEF Insert, Inv, HeadTracked
    <3>3. i = 1 <=> rows = <<>> BY <2>1, <2>4
    <3> QED BY <3>1, <3>2, <3>3, <2>4 DEF NewRow, ChainHead
  <2> QED BY <2>1, <2>2, <2>3, <2>4
<1> QED BY <1>1, <1>2 DEF Next, Step, vars, Publish, Start, Assign, ReadMessage,
           Refuse, Advance, LoseReply, GiveUp, Stop

(* The invariant is preserved.                                             *)
LEMMA InvStep == Inv /\ [Next]_vars => Inv'
BY TypeStep, HoldingStep, HeadStep, VerifyStep DEF Inv

(* Through any restarts, duplicates and failures the chain verifies and    *)
(* the head in memory is the head of the table, until an acknowledgement   *)
(* is lost or two processes run side by side.                              *)
THEOREM ChainAlwaysVerifies == Spec => [](TypeOK /\ HeadTracked /\ ChainVerifiesUnlessSlip)
<1>1. Inv => TypeOK /\ HeadTracked /\ ChainVerifiesUnlessSlip BY DEF Inv
<1> QED BY <1>1, InvInit, InvStep, PTL DEF Spec

-----------------------------------------------------------------------------
(* Appending a row appends its event to the log the ledger sees.           *)
LEMMA LogAppend ==
  ASSUME TypeOK, NEW p \in Proc, Insert(p), cur[p] \in Event
  PROVE  [i \in DOMAIN rows' |-> rows'[i].event]
           = Append([i \in DOMAIN rows |-> rows[i].event], cur[p])
<1> DEFINE log == [i \in DOMAIN rows |-> rows[i].event]
           new == [i \in DOMAIN rows' |-> rows'[i].event]
<1>1. /\ rows \in Seq(Row) /\ Len(rows) \in Nat /\ DOMAIN rows = 1..Len(rows)
      BY DEF TypeOK
<1>2. log \in Seq(Event) /\ Len(log) = Len(rows)
  <2>1. \A i \in 1..Len(rows) : rows[i] \in Row BY <1>1
  <2>2. \A i \in 1..Len(rows) : log[i] \in Event BY <1>1, <2>1 DEF Row
  <2>3. log \in [1..Len(rows) -> Event] BY <1>1, <2>2
  <2> QED BY <1>1, <2>3
<1>3. /\ DOMAIN new = 1..(Len(rows) + 1)
      /\ new[Len(rows) + 1] = cur[p]
      /\ \A i \in 1..Len(rows) : new[i] = log[i]
  <2>1. DOMAIN rows' = 1..(Len(rows) + 1) BY InsertHead
  <2>2. \A i \in DOMAIN rows' : new[i] = rows'[i].event OBVIOUS
  <2>3. rows'[Len(rows) + 1].event = cur[p]
    <3>1. rows'[Len(rows) + 1] = NewRow(p) BY InsertHead
    <3>2. NewRow(p).event = cur[p] BY DEF NewRow
    <3> QED BY <3>1, <3>2
  <2>4. \A i \in 1..Len(rows) : rows'[i] = rows[i] BY InsertHead
  <2> QED BY <1>1, <2>1, <2>2, <2>3, <2>4
<1>4. /\ DOMAIN Append(log, cur[p]) = 1..(Len(rows) + 1)
      /\ Append(log, cur[p])[Len(rows) + 1] = cur[p]
      /\ \A i \in 1..Len(rows) : Append(log, cur[p])[i] = log[i]
      BY <1>1, <1>2
<1>5. /\ new = [i \in 1..(Len(rows) + 1) |-> new[i]]
      /\ Append(log, cur[p]) = [i \in 1..(Len(rows) + 1) |-> Append(log, cur[p])[i]]
      BY <1>1, <1>2, <1>3, <1>4
<1>6. \A i \in 1..(Len(rows) + 1) : new[i] = Append(log, cur[p])[i]
      BY <1>1, <1>3, <1>4
<1> QED BY <1>5, <1>6

(* The table the service writes is an append-only ledger of distinct       *)
(* events whose head hash commits to everything before it, until a slip.   *)
THEOREM ChainImplementsLedger == Spec => ImplementsLedger
<1> DEFINE log == [i \in DOMAIN rows |-> rows[i].event]
<1>1. Init => Ledger!Init
      BY DEF Init, Ledger!Init, ChainHead
<1>2. Inv /\ [Next]_vars => [Ledger!Next]_<<log, ChainHead, slip>>
  <2> SUFFICES ASSUME Inv, [Next]_vars PROVE [Ledger!Next]_<<log, ChainHead, slip>>
      OBVIOUS
  <2>1. CASE UNCHANGED <<rows, slip>> BY <2>1 DEF ChainHead
  <2>2. CASE UNCHANGED rows /\ slip' = TRUE
        BY <2>2 DEF ChainHead, Ledger!Next, Ledger!Slip
  <2>3. ASSUME NEW p \in Proc, Insert(p) PROVE Ledger!Next
    <3>1. cur[p] \in Event /\ ~Stored(cur[p]) /\ UNCHANGED slip
          BY <2>3 DEF Insert, Inv, Holding
    <3>2. slip \/ ChainHead' = computeHash(cur[p], ChainHead)
      <4>1. CASE ~slip
        <5>1. lastHash[p] = ChainHead BY <2>3, <4>1 DEF Insert, Inv, HeadTracked
        <5> QED BY <2>3, <5>1, InsertHead DEF Inv
      <4> QED BY <4>1
    <3>3. log' = Append(log, cur[p]) BY <2>3, <3>1, LogAppend DEF Inv
    <3>4. PICK ev \in Event : ev = cur[p] BY <3>1
    <3>5. Ledger!Record(ev)
          BY <3>1, <3>2, <3>3, <3>4
          DEF Ledger!Record, Stored, computeHash, Ledger!computeHash
    <3> QED BY <3>5 DEF Ledger!Next
  <2>4. ASSUME NEW p \in Proc, Start(p)
        PROVE  UNCHANGED rows /\ (UNCHANGED slip \/ slip' = TRUE)
        BY <2>4 DEF Start, Inv, TypeOK
  <2> QED BY <2>1, <2>2, <2>3, <2>4 DEF Next, Step, vars, Publish, Assign, ReadMessage,
             Refuse, Advance, LoseReply, GiveUp, Stop
<1> QED BY <1>1, <1>2, InvInit, InvStep, PTL DEF Spec, ImplementsLedger, Ledger!Spec

-----------------------------------------------------------------------------
(* The deployment.                                                         *)

Pos(j) == 1..Len(Script(j))

(* What of a statement's work is there once the script is past it.         *)
Settled(st) == st.orTrue \/ (st.needs \subseteq facts /\ st.gives \in facts)

BringUpTypeOK ==
  /\ job \in [Job -> [pc : Nat \ {0}, tries : Nat, hits : Nat]]
  /\ \A j \in Job : job[j].pc <= Len(Script(j)) + 1

PassedSettled == \A j \in Job : \A i \in Pos(j) : i < job[j].pc => Settled(Script(j)[i])

FailuresOwed ==
  \A j \in Job :
    \/ job[j].tries < job[j].hits
    \/ /\ job[j].tries = job[j].hits
       /\ \A i \in Pos(j) : i < job[j].pc => Script(j)[i].gives \in facts

BringUpInv == BringUpTypeOK /\ PassedSettled /\ FailuresOwed

-----------------------------------------------------------------------------
(* What a script must be like for its reruns to be harmless.               *)
SelfContained(s) ==
  \A i \in 1..Len(s) : \A n \in s[i].needs : \E k \in 1..(i - 1) : s[k].gives = n
HidesOnce(s) == \A i \in 1..Len(s) : s[i].once => s[i].orTrue
HiddenIsNeeded(s) ==
  \A i \in 1..Len(s) : s[i].orTrue => \E k \in 1..Len(s) : ~s[k].orTrue /\ s[i].gives \in s[k].needs
GoodScript(s) == SelfContained(s) /\ HidesOnce(s) /\ HiddenIsNeeded(s)

LEMMA KafkaScript == GoodScript(kafkaTopicInit) /\ Len(kafkaTopicInit) = 4 /\ DOMAIN kafkaTopicInit = 1..4
<1>1. Len(kafkaTopicInit) = 4 /\ DOMAIN kafkaTopicInit = 1..4
  BY DEF kafkaTopicInit
<1>2. \A i \in 1..4 : /\ kafkaTopicInit[i].needs = {} /\ kafkaTopicInit[i].once = FALSE
                      /\ kafkaTopicInit[i].orTrue = FALSE
  BY DEF kafkaTopicInit, Stmt
<1> QED BY <1>1, <1>2 DEF GoodScript, SelfContained, HidesOnce, HiddenIsNeeded

LEMMA CassandraScript == GoodScript(cassandraInit) /\ Len(cassandraInit) = 1 /\ DOMAIN cassandraInit = 1..1
<1>1. Len(cassandraInit) = 1 /\ DOMAIN cassandraInit = 1..1
  BY DEF cassandraInit
<1>2. /\ cassandraInit[1].needs = {} /\ cassandraInit[1].once = FALSE
      /\ cassandraInit[1].orTrue = FALSE
  BY DEF cassandraInit, Stmt
<1> QED BY <1>1, <1>2 DEF GoodScript, SelfContained, HidesOnce, HiddenIsNeeded

LEMMA DbScript == GoodScript(dbInitScript) /\ Len(dbInitScript) = 13 /\ DOMAIN dbInitScript = 1..13
<1> DEFINE s == dbInitScript
<1>1. Len(s) = 13 /\ DOMAIN s = 1..13
  BY DEF dbInitScript
<1>2. /\ s[2].gives = "audit" /\ s[3].gives = "writer" /\ s[5].gives = "reader"
      /\ s[7].gives = "audit_events"
  BY DEF dbInitScript, Stmt, CreateRole
<1>3. /\ s[1].needs = {} /\ s[2].needs = {} /\ s[3].needs = {"audit"}
      /\ s[4].needs = {"audit", "writer"} /\ s[5].needs = {"audit"}
      /\ s[6].needs = {"audit", "reader"} /\ s[7].needs = {"audit"}
      /\ s[8].needs = {"audit_events"} /\ s[9].needs = {"audit", "writer"}
      /\ s[10].needs = {"writer", "audit_events"} /\ s[11].needs = {"writer", "audit_events"}
      /\ s[12].needs = {"audit", "reader"} /\ s[13].needs = {"reader", "audit_events"}
  BY DEF dbInitScript, Stmt, CreateRole
<1>4. \A i \in 1..13 : i \notin {3, 5} => s[i].once = FALSE /\ s[i].orTrue = FALSE
  BY DEF dbInitScript, Stmt, CreateRole
<1>5. \A i \in {3, 5} : s[i].orTrue = TRUE
  BY DEF dbInitScript, Stmt, CreateRole
<1> HIDE DEF s
<1>6. SelfContained(s)
  BY <1>1, <1>2, <1>3 DEF SelfContained
<1>7. HidesOnce(s)
  BY <1>1, <1>4, <1>5 DEF HidesOnce
<1>8. HiddenIsNeeded(s)
  BY <1>1, <1>2, <1>3, <1>4, <1>5 DEF HiddenIsNeeded
<1> QED BY <1>1, <1>6, <1>7, <1>8 DEF GoodScript, s

LEMMA ScriptsAreGood ==
  ASSUME NEW j \in Job
  PROVE  GoodScript(Script(j)) /\ Len(Script(j)) \in Nat /\ DOMAIN Script(j) = Pos(j)
<1>1. j \in {"kafka-topic-init", "db-init", "cassandra-init"}
  BY BringUpAssumption
<1>2. CASE j = "kafka-topic-init"
  <2>1. Script(j) = kafkaTopicInit
    BY <1>2 DEF Script
  <2> QED BY <2>1, KafkaScript DEF Pos
<1>3. CASE j = "db-init"
  <2>1. Script(j) = dbInitScript
    BY <1>3 DEF Script
  <2> QED BY <2>1, DbScript DEF Pos
<1>4. CASE j = "cassandra-init"
  <2>1. Script(j) = cassandraInit
    BY <1>4 DEF Script
  <2> QED BY <2>1, CassandraScript DEF Pos
<1> QED BY <1>1, <1>2, <1>3, <1>4

-----------------------------------------------------------------------------
(* Facts are never taken away, so a step that leaves the Jobs where they   *)
(* are keeps the invariant ...                                             *)
LEMMA ElsewhereKeeps ==
  ASSUME BringUpInv, job' = job, facts \subseteq facts'
  PROVE  BringUpInv'
<1>1. BringUpTypeOK'
  BY DEF BringUpInv, BringUpTypeOK
<1>2. PassedSettled'
  BY DEF BringUpInv, PassedSettled, Settled
<1>3. FailuresOwed'
  BY DEF BringUpInv, FailuresOwed
<1> QED BY <1>1, <1>2, <1>3 DEF BringUpInv

(* ... and so does one that moves a single Job, if the Job is left in      *)
(* order.                                                                  *)
LEMMA OneJobKeeps ==
  ASSUME BringUpInv, NEW j \in Job, NEW here \in Nat \ {0}, NEW tries \in Nat, NEW hits \in Nat,
         job' \in [Job -> [pc : Nat \ {0}, tries : Nat, hits : Nat]],
         job'[j].pc = here, job'[j].tries = tries, job'[j].hits = hits,
         \A k \in Job \ {j} : job'[k] = job[k],
         facts \subseteq facts',
         here <= Len(Script(j)) + 1,
         \A i \in Pos(j) : i < here => Settled(Script(j)[i])',
         \/ tries < hits
         \/ tries = hits /\ \A i \in Pos(j) : i < here => Script(j)[i].gives \in facts'
  PROVE  BringUpInv'
<1>1. /\ job'[j].pc = here /\ job'[j].tries = tries /\ job'[j].hits = hits
      /\ \A k \in Job \ {j} : job'[k] = job[k]
  OBVIOUS
<1>2. BringUpTypeOK'
  BY <1>1 DEF BringUpInv, BringUpTypeOK
<1>3. PassedSettled'
  <2> SUFFICES ASSUME NEW k \in Job, NEW i \in Pos(k), i < job'[k].pc
               PROVE  Settled(Script(k)[i])'
    BY DEF PassedSettled, Pos
  <2>1. CASE k = j
    BY <1>1, <2>1
  <2>2. CASE k # j
    <3>1. Settled(Script(k)[i])
      BY <1>1, <2>2 DEF BringUpInv, PassedSettled
    <3> QED BY <3>1 DEF Settled
  <2> QED BY <2>1, <2>2
<1>4. FailuresOwed'
  <2> SUFFICES ASSUME NEW k \in Job
               PROVE  \/ job'[k].tries < job'[k].hits
                      \/ /\ job'[k].tries = job'[k].hits
                         /\ \A i \in Pos(k) : i < job'[k].pc => Script(k)[i].gives \in facts'
    BY DEF FailuresOwed, Pos
  <2>1. CASE k = j
    BY <1>1, <2>1
  <2>2. CASE k # j
    BY <1>1, <2>2 DEF BringUpInv, FailuresOwed
  <2> QED BY <2>1, <2>2
<1> QED BY <1>2, <1>3, <1>4 DEF BringUpInv

(* Where a running Job is.                                                 *)
LEMMA AtStatement ==
  ASSUME BringUpInv, NEW j \in Job, Running(j)
  PROVE  /\ job[j].pc \in Pos(j) /\ job[j].tries \in Nat /\ job[j].hits \in Nat
         /\ job[j].tries <= job[j].hits
         /\ Len(Script(j)) \in Nat
BY ScriptsAreGood DEF BringUpInv, BringUpTypeOK, FailuresOwed, Running, Done, Pos

(* A container that starts again is owed to a fault: to one of now, or to  *)
(* one that the invariant has kept in hand.                                *)
LEMMA RestartKeeps ==
  ASSUME BringUpInv, NEW j \in Job, Running(j), NEW hit \in {0, 1}, Restart(j, hit),
         facts \subseteq facts',
         hit = 1 \/ job[j].tries < job[j].hits
  PROVE  BringUpInv'
<1>1. /\ job' = [job EXCEPT ![j] = [pc |-> 1, tries |-> job[j].tries + 1, hits |-> job[j].hits + hit]]
      /\ job[j].tries \in Nat /\ job[j].hits \in Nat /\ job[j].tries <= job[j].hits
      /\ Len(Script(j)) \in Nat
  BY AtStatement DEF Restart
<1>2. \A i \in Pos(j) : ~(i < 1)
  BY <1>1 DEF Pos
<1>3. job[j].tries + 1 <= job[j].hits + hit /\ job[j].tries + 1 \in Nat /\ job[j].hits + hit \in Nat
  BY <1>1
<1>4. /\ job' \in [Job -> [pc : Nat \ {0}, tries : Nat, hits : Nat]]
      /\ job'[j].pc = 1 /\ job'[j].tries = job[j].tries + 1 /\ job'[j].hits = job[j].hits + hit
      /\ \A k \in Job \ {j} : job'[k] = job[k]
  BY <1>1, <1>3 DEF BringUpInv, BringUpTypeOK
<1>5. 1 \in Nat \ {0} /\ 1 <= Len(Script(j)) + 1
  BY <1>1
<1>6. \/ job[j].tries + 1 < job[j].hits + hit
      \/ job[j].tries + 1 = job[j].hits + hit
  BY <1>3
<1> QED BY <1>2, <1>3, <1>4, <1>5, <1>6, OneJobKeeps

LEMMA StatementKeeps ==
  ASSUME BringUpInv, NEW j \in Job, Statement(j)
  PROVE  BringUpInv'
<1> DEFINE here == job[j].pc
<1>1. /\ Running(j) /\ Ok(Script(j)[here]) /\ facts' = facts \cup {Script(j)[here].gives}
  BY DEF Statement, Current
<1>2. /\ here \in Pos(j) /\ Len(Script(j)) \in Nat /\ job[j].tries \in Nat /\ job[j].hits \in Nat
  BY <1>1, AtStatement
<1>3. /\ job' \in [Job -> [pc : Nat \ {0}, tries : Nat, hits : Nat]]
      /\ job'[j].pc = here + 1 /\ job'[j].tries = job[j].tries /\ job'[j].hits = job[j].hits
      /\ \A k \in Job \ {j} : job'[k] = job[k]
  <2>1. job' = [job EXCEPT ![j].pc = job[j].pc + 1]
    BY DEF Statement
  <2>2. job \in [Job -> [pc : Nat \ {0}, tries : Nat, hits : Nat]]
    BY DEF BringUpInv, BringUpTypeOK
  <2>3. job'[j] = [job[j] EXCEPT !.pc = job[j].pc + 1]
    BY <2>1, <2>2
  <2>4. job' \in [Job -> [pc : Nat \ {0}, tries : Nat, hits : Nat]]
    BY <2>1, <2>2
  <2> QED BY <2>1, <2>2, <2>3, <2>4
<1>4. \A i \in Pos(j) : i < here + 1 => Settled(Script(j)[i])'
  <2> SUFFICES ASSUME NEW i \in Pos(j), i < here + 1 PROVE Settled(Script(j)[i])'
    BY DEF Pos
  <2>1. CASE i = here
    BY <1>1, <2>1 DEF Ok, Settled
  <2>2. CASE i < here
    BY <1>1, <2>2 DEF BringUpInv, PassedSettled, Settled
  <2> QED BY <1>2, <2>1, <2>2 DEF Pos
<1>5. \/ job[j].tries < job[j].hits
      \/ job[j].tries = job[j].hits /\ \A i \in Pos(j) : i < here + 1 => Script(j)[i].gives \in facts'
  <2>1. CASE job[j].tries < job[j].hits
    BY <2>1
  <2>2. CASE /\ job[j].tries = job[j].hits
             /\ \A i \in Pos(j) : i < job[j].pc => Script(j)[i].gives \in facts
    BY <1>1, <1>2, <2>2 DEF Pos
  <2> QED BY <2>1, <2>2 DEF BringUpInv, FailuresOwed
<1>6. here + 1 \in Nat \ {0} /\ here + 1 <= Len(Script(j)) + 1
  BY <1>2 DEF Pos
<1> QED BY <1>1, <1>2, <1>3, <1>4, <1>5, <1>6, OneJobKeeps

(* A statement that fails for another reason than an outage either repeats *)
(* what is there already, or lacks what an outage that was hidden and      *)
(* counted has kept from being made.                                       *)
LEMMA FailureExplained ==
  ASSUME BringUpInv, NEW j \in Job, Running(j), ~Ok(Current(j)), Current(j).on \notin down
  PROVE  \/ job[j].tries < job[j].hits
         \/ Current(j).orTrue /\ Current(j).gives \in facts
<1> DEFINE here == job[j].pc
           st == Script(j)[here]
<1>1. here \in Pos(j) /\ Len(Script(j)) \in Nat
  BY AtStatement
<1>2. SUFFICES ASSUME ~(job[j].tries < job[j].hits)
               PROVE  st.orTrue /\ st.gives \in facts
  BY DEF Current
<1>3. \A i \in Pos(j) : i < here => Script(j)[i].gives \in facts
  BY <1>2 DEF BringUpInv, FailuresOwed
<1>4. st.needs \subseteq facts
  <2> SUFFICES ASSUME NEW n \in st.needs PROVE n \in facts
    OBVIOUS
  <2>1. PICK k \in 1..(here - 1) : Script(j)[k].gives = n
    BY <1>1, ScriptsAreGood DEF GoodScript, SelfContained, Pos
  <2>2. k \in Pos(j) /\ k < here
    BY <1>1 DEF Pos
  <2> QED BY <1>3, <2>1, <2>2
<1>5. st.once /\ st.gives \in facts
  BY <1>4 DEF Ok, Current
<1>6. st.orTrue
  BY <1>1, <1>5, ScriptsAreGood DEF GoodScript, HidesOnce, Pos
<1> QED BY <1>5, <1>6

LEMMA FailKeeps ==
  ASSUME BringUpInv, NEW j \in Job, StatementFails(j)
  PROVE  BringUpInv'
<1> DEFINE here == job[j].pc
           hit == IF Current(j).on \in down THEN 1 ELSE 0
<1>1. Running(j) /\ ~Ok(Current(j)) /\ facts' = facts
  BY DEF StatementFails
<1>2. /\ here \in Pos(j) /\ Len(Script(j)) \in Nat /\ job[j].tries \in Nat /\ job[j].hits \in Nat
      /\ job[j].tries <= job[j].hits
  BY <1>1, AtStatement
<1>3. hit \in {0, 1} /\ (hit = 0 => Current(j).on \notin down)
  OBVIOUS
<1>4. CASE Current(j).orTrue
  <2>1. job' = [job EXCEPT ![j] = [pc |-> here + 1, tries |-> job[j].tries, hits |-> job[j].hits + hit]]
    BY <1>4 DEF StatementFails
  <2>2. \A i \in Pos(j) : i < here + 1 => Settled(Script(j)[i])'
    <3> SUFFICES ASSUME NEW i \in Pos(j), i < here + 1 PROVE Settled(Script(j)[i])'
      BY DEF Pos
    <3>1. CASE i = here
      BY <1>4, <3>1 DEF Settled, Current
    <3>2. CASE i < here
      BY <1>1, <3>2 DEF BringUpInv, PassedSettled, Settled
    <3> QED BY <1>2, <3>1, <3>2 DEF Pos
  <2>3. \/ job[j].tries < job[j].hits + hit
        \/ /\ job[j].tries = job[j].hits + hit
           /\ \A i \in Pos(j) : i < here + 1 => Script(j)[i].gives \in facts'
    <3>1. CASE hit = 1 \/ job[j].tries < job[j].hits
      BY <1>2, <1>3, <3>1
    <3>2. CASE hit = 0 /\ ~(job[j].tries < job[j].hits)
      <4>1. Current(j).gives \in facts
        BY <1>1, <1>3, <3>2, FailureExplained
      <4>2. \A i \in Pos(j) : i < here => Script(j)[i].gives \in facts
        BY <3>2 DEF BringUpInv, FailuresOwed
      <4>3. \A i \in Pos(j) : i < here + 1 => Script(j)[i].gives \in facts'
        BY <1>1, <1>2, <4>1, <4>2 DEF Pos, Current
      <4>4. job[j].tries = job[j].hits + hit
        BY <1>2, <3>2
      <4> QED BY <4>3, <4>4
    <3> QED BY <1>3, <3>1, <3>2
  <2>4. here + 1 \in Nat \ {0} /\ here + 1 <= Len(Script(j)) + 1 /\ job[j].hits + hit \in Nat
    BY <1>2, <1>3 DEF Pos
  <2> HIDE DEF hit
  <2>5. /\ job' \in [Job -> [pc : Nat \ {0}, tries : Nat, hits : Nat]]
        /\ job'[j].pc = here + 1 /\ job'[j].tries = job[j].tries /\ job'[j].hits = job[j].hits + hit
        /\ \A k \in Job \ {j} : job'[k] = job[k]
    BY <1>2, <2>1, <2>4 DEF BringUpInv, BringUpTypeOK
  <2> QED BY <1>1, <1>2, <2>2, <2>3, <2>4, <2>5, OneJobKeeps
<1>5. CASE ~Current(j).orTrue
  <2>1. Restart(j, hit)
    BY <1>5 DEF StatementFails
  <2>2. hit = 1 \/ job[j].tries < job[j].hits
    BY <1>1, <1>3, <1>5, FailureExplained
  <2> HIDE DEF hit
  <2> QED BY <1>1, <1>3, <2>1, <2>2, RestartKeeps
<1> QED BY <1>4, <1>5

-----------------------------------------------------------------------------
LEMMA BringUpInitial == BringUpInit => BringUpInv
<1> SUFFICES ASSUME BringUpInit PROVE BringUpInv
  OBVIOUS
<1>1. job = [j \in Job |-> [pc |-> 1, tries |-> 0, hits |-> 0]]
  BY DEF BringUpInit
<1>2. BringUpTypeOK
  BY <1>1, ScriptsAreGood DEF BringUpTypeOK
<1>3. \A j \in Job : \A i \in Pos(j) : ~(i < job[j].pc)
  BY <1>1, ScriptsAreGood DEF Pos
<1>4. PassedSettled
  BY <1>3 DEF PassedSettled
<1>5. FailuresOwed
  BY <1>1, <1>3 DEF FailuresOwed
<1> QED BY <1>2, <1>4, <1>5 DEF BringUpInv

LEMMA BringUpStep == BringUpInv /\ [BringUpNext]_bringUpVars => BringUpInv'
<1> SUFFICES ASSUME BringUpInv, [BringUpNext]_bringUpVars PROVE BringUpInv'
  OBVIOUS
<1>1. CASE \E r \in DOMAIN DependsOn : Make(r)
  BY <1>1, ElsewhereKeeps DEF Make
<1>2. ASSUME NEW j \in Job, Statement(j) PROVE BringUpInv'
  BY <1>2, StatementKeeps
<1>3. ASSUME NEW j \in Job, StatementFails(j) PROVE BringUpInv'
  BY <1>3, FailKeeps
<1>4. ASSUME NEW j \in Job, JobKilled(j) PROVE BringUpInv'
  <2>1. Running(j) /\ Restart(j, 1) /\ facts \subseteq facts'
    BY <1>4 DEF JobKilled
  <2> QED BY <2>1, RestartKeeps
<1>5. CASE \E st \in Store : StoreUp(st) \/ StoreDown(st)
  BY <1>5, ElsewhereKeeps DEF StoreUp, StoreDown
<1>6. CASE \E s \in Service : PodStarts(s) \/ PodKilled(s)
  BY <1>6, ElsewhereKeeps DEF PodStarts, PodKilled
<1>7. CASE UNCHANGED bringUpVars
  BY <1>7, ElsewhereKeeps DEF bringUpVars
<1> QED BY <1>1, <1>2, <1>3, <1>4, <1>5, <1>6, <1>7 DEF BringUpNext

LEMMA BringUpInvariant == BringUpSpec => []BringUpInv
BY BringUpInitial, BringUpStep, PTL DEF BringUpSpec

-----------------------------------------------------------------------------
(* A Job that reports success has left all that its script is for: each    *)
(* database, role, table, grant, keyspace and topic of cluster-construct.ts*)
(* is there, although "|| true" hides every error of CREATE ROLE.          *)
THEOREM SuccessIsComplete == BringUpSpec => []DoneLeavesAll
<1>1. BringUpInv => DoneLeavesAll
  <2> SUFFICES ASSUME BringUpInv, NEW j \in Job, Done(j), NEW i \in DOMAIN Script(j)
               PROVE  Script(j)[i].gives \in facts
    BY DEF DoneLeavesAll, Leaves
  <2>1. /\ Len(Script(j)) \in Nat /\ DOMAIN Script(j) = Pos(j)
        /\ \A k \in Pos(j) : Settled(Script(j)[k])
    <3>1. Len(Script(j)) \in Nat
      BY ScriptsAreGood
    <3>2. DOMAIN Script(j) = Pos(j)
      BY ScriptsAreGood
    <3>3. \A k \in Pos(j) : k < job[j].pc
      BY <3>1 DEF Done, Pos
    <3> QED BY <3>1, <3>2, <3>3 DEF BringUpInv, PassedSettled
  <2>2. CASE ~Script(j)[i].orTrue
    BY <2>1, <2>2 DEF Settled
  <2>3. CASE Script(j)[i].orTrue
    <3>1. PICK k \in Pos(j) : ~Script(j)[k].orTrue /\ Script(j)[i].gives \in Script(j)[k].needs
      BY <2>1, <2>3, ScriptsAreGood DEF GoodScript, HiddenIsNeeded, Pos
    <3> QED BY <2>1, <3>1 DEF Settled
  <2> QED BY <2>2, <2>3
<1> QED BY <1>1, BringUpInvariant, PTL

(* A Job never uses up an attempt because of what its earlier attempts     *)
(* left behind: as many faults have hit it as attempts have failed, so     *)
(* that backoffLimit is a bound on faults alone.                           *)
THEOREM RerunsAreHarmless == BringUpSpec => []RerunsNeverFail
<1>1. BringUpInv => RerunsNeverFail
  BY DEF BringUpInv, BringUpTypeOK, FailuresOwed, RerunsNeverFail
<1> QED BY <1>1, BringUpInvariant, PTL
=============================================================================

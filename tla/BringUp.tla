-------------------------------- MODULE BringUp --------------------------------
(***************************************************************************)
(* Bringing the system up on AWS (cluster-construct.ts, data-construct.ts).*)
(* CloudFormation makes the resources in any order their dependencies      *)
(* allow; one manifest then starts the init Jobs and every service at      *)
(* once, with no order between them.  A Job runs its script statement by   *)
(* statement and starts again from the first when one fails; a service     *)
(* exits, and is started again, until what it needs at startup is there.   *)
(*                                                                         *)
(* Facts are what the scripts leave behind in the stores.  Probe timings,  *)
(* sizes, images and ports are left out; a probe that fails is PodKilled.  *)
(***************************************************************************)
EXTENDS Naturals, Sequences, FiniteSets

CONSTANTS
  Job,           \* of "kafka-topic-init", "db-init", "cassandra-init"
  Service,       \* of the Deployments of the manifest
  backoffLimit,  \* Job -> how often its container is started again
  MaxFaults      \* bound: outages, kills and lost answers

ASSUME BringUpAssumption ==
  /\ Job \subseteq {"kafka-topic-init", "db-init", "cassandra-init"}
  /\ backoffLimit \in [Job -> Nat] /\ MaxFaults \in Nat

VARIABLES
  made,    \* the resources CloudFormation has made
  down,    \* the stores that cannot be reached
  facts,   \* databases, roles, tables, grants, keyspaces and topics there are
  job,     \* Job -> the statement it is at, its failed attempts, those owed to a fault
  pod,     \* Service -> "down" or "ready"
  faults

bringUpVars == <<made, down, facts, job, pod, faults>>

-----------------------------------------------------------------------------
(* What each resource waits for: addDependency, and the endpoints of the   *)
(* stores that the manifest contains.                                      *)
DependsOn == [
  namespace |-> {}, nodegroup |-> {}, postgres |-> {}, redis |-> {}, kafka |-> {},
  ebsCsiAddon |-> {"nodegroup"},
  storageClass |-> {"ebsCsiAddon"},
  kafkaBootstrap |-> {"kafka"},
  workloads |-> {"namespace", "storageClass", "postgres", "redis", "kafkaBootstrap"},
  nlbHostname |-> {"workloads"}]

Store == {"postgres", "redis", "kafka", "cassandra"}

(* A statement of an init script: where it runs, what it presupposes, what *)
(* it leaves.  "once" fails if that is there already; "|| true" hides it.  *)
Stmt(s, n, g) == [on |-> s, needs |-> n, gives |-> g, once |-> FALSE, orTrue |-> FALSE]
CreateRole(r) == [on |-> "postgres", needs |-> {"audit"}, gives |-> r, once |-> TRUE, orTrue |-> TRUE]

(* Mutant: CREATE ROLE without "|| true".                                  *)
DbInitScriptPlain == <<
  Stmt("postgres", {}, "servers_db"), Stmt("postgres", {}, "audit"),
  [CreateRole("writer") EXCEPT !.orTrue = FALSE], Stmt("postgres", {"audit", "writer"}, "writer_password"),
  [CreateRole("reader") EXCEPT !.orTrue = FALSE], Stmt("postgres", {"audit", "reader"}, "reader_password"),
  Stmt("postgres", {"audit"}, "audit_events"), Stmt("postgres", {"audit_events"}, "audit_indexes"),
  Stmt("postgres", {"audit", "writer"}, "writer_usage"),
  Stmt("postgres", {"writer", "audit_events"}, "writer_insert_select"),
  Stmt("postgres", {"writer", "audit_events"}, "writer_sequence"),
  Stmt("postgres", {"audit", "reader"}, "reader_usage"),
  Stmt("postgres", {"reader", "audit_events"}, "reader_select") >>

(* The three indexes are made alike, as one statement here.                *)
dbInitScript == <<
  Stmt("postgres", {}, "servers_db"), Stmt("postgres", {}, "audit"),
  CreateRole("writer"), Stmt("postgres", {"audit", "writer"}, "writer_password"),
  CreateRole("reader"), Stmt("postgres", {"audit", "reader"}, "reader_password"),
  Stmt("postgres", {"audit"}, "audit_events"), Stmt("postgres", {"audit_events"}, "audit_indexes"),
  Stmt("postgres", {"audit", "writer"}, "writer_usage"),
  Stmt("postgres", {"writer", "audit_events"}, "writer_insert_select"),
  Stmt("postgres", {"writer", "audit_events"}, "writer_sequence"),
  Stmt("postgres", {"audit", "reader"}, "reader_usage"),
  Stmt("postgres", {"reader", "audit_events"}, "reader_select") >>

kafkaTopicInit == <<
  Stmt("kafka", {}, "user-registered"), Stmt("kafka", {}, "message-created"),
  Stmt("kafka", {}, "mention"), Stmt("kafka", {}, "audit.events") >>

cassandraInit == << Stmt("cassandra", {}, "discord_chat") >>

Script(j) ==
  CASE j = "db-init" -> dbInitScript
    [] j = "kafka-topic-init" -> kafkaTopicInit
    [] j = "cassandra-init" -> cassandraInit

(* Mutant: chat and cassandra-init disagree on the keyspace.               *)
NeedsOtherKeyspace(s) ==
  IF s = "chat" THEN [on |-> {"cassandra"}, facts |-> {"chat"}]
                ELSE [on |-> {"postgres"}, facts |-> {}]

(* The store a service cannot start without, and what must be in it.       *)
Needs(s) ==
  CASE s = "servers" -> [on |-> {"postgres"}, facts |-> {"servers_db"}]
    [] s = "audit" -> [on |-> {"postgres"}, facts |-> {"writer_password", "writer_insert_select"}]
    [] s = "chat" -> [on |-> {"cassandra"}, facts |-> {"discord_chat"}]
    [] s = "auth" -> [on |-> {"postgres"}, facts |-> {}]
    [] s \in {"voice", "presence"} -> [on |-> {"redis"}, facts |-> {}]
    [] s \in {"gateway", "web-app", "reverse-proxy"} -> [on |-> {}, facts |-> {}]

BringUpInit ==
  /\ made = {} /\ down = {"cassandra"} /\ facts = {}
  /\ job = [j \in Job |-> [pc |-> 1, tries |-> 0, hits |-> 0]]
  /\ pod = [s \in Service |-> "down"]
  /\ faults = 0

-----------------------------------------------------------------------------
Make(r) ==
  /\ r \in DOMAIN DependsOn \ made /\ DependsOn[r] \subseteq made
  /\ made' = made \cup {r}
  /\ UNCHANGED <<down, facts, job, pod, faults>>

Applied == "workloads" \in made

Done(j) == job[j].pc = Len(Script(j)) + 1
Failed(j) == job[j].tries > backoffLimit[j]
Running(j) == Applied /\ ~Done(j) /\ ~Failed(j)
Current(j) == Script(j)[job[j].pc]
Ok(st) == st.on \notin down /\ st.needs \subseteq facts /\ (st.once => st.gives \notin facts)

(* The container exits and, within the limit, starts from the top.         *)
Restart(j, hit) ==
  job' = [job EXCEPT ![j] = [pc |-> 1, tries |-> @.tries + 1, hits |-> @.hits + hit]]

Statement(j) ==
  /\ Running(j) /\ Ok(Current(j))
  /\ facts' = facts \cup {Current(j).gives}
  /\ job' = [job EXCEPT ![j].pc = @ + 1]
  /\ UNCHANGED <<made, down, pod, faults>>

(* Mutant: the script goes on after an error (no set -e).                  *)
StatementFailsOn(j) ==
  /\ Running(j) /\ ~Ok(Current(j))
  /\ job' = [job EXCEPT ![j].pc = @ + 1]
  /\ UNCHANGED <<made, down, facts, pod, faults>>

(* set -e: an error ends the attempt, unless it is one the script hides.   *)
StatementFails(j) ==
  /\ Running(j) /\ ~Ok(Current(j))
  /\ LET hit == IF Current(j).on \in down THEN 1 ELSE 0
     IN IF Current(j).orTrue
          THEN job' = [job EXCEPT ![j] = [pc |-> @.pc + 1, tries |-> @.tries, hits |-> @.hits + hit]]
          ELSE Restart(j, hit)
  /\ UNCHANGED <<made, down, facts, pod, faults>>

(* The pod of the Job is lost, or an answer is: the statement may have     *)
(* been executed or not.                                                   *)
JobKilled(j) ==
  /\ Running(j) /\ faults < MaxFaults /\ faults' = faults + 1
  /\ \/ facts' = facts
     \/ Ok(Current(j)) /\ facts' = facts \cup {Current(j).gives}
  /\ Restart(j, 1)
  /\ UNCHANGED <<made, down, pod>>

(* Cassandra comes up in its own time; any store may fail for a while.     *)
StoreUp(st) ==
  /\ st \in down /\ (st = "cassandra" => Applied)
  /\ down' = down \ {st}
  /\ UNCHANGED <<made, facts, job, pod, faults>>

StoreDown(st) ==
  /\ Applied /\ st \notin down /\ faults < MaxFaults /\ faults' = faults + 1
  /\ down' = down \cup {st}
  /\ UNCHANGED <<made, facts, job, pod>>

(* A start that succeeds (one that fails changes nothing); its readiness   *)
(* probe lets traffic in.                                                  *)
PodStarts(s) ==
  /\ Applied /\ pod[s] = "down"
  /\ Needs(s).on \cap down = {} /\ Needs(s).facts \subseteq facts
  /\ pod' = [pod EXCEPT ![s] = "ready"]
  /\ UNCHANGED <<made, down, facts, job, faults>>

(* A node is lost, or the liveness probe restarts the pod.                 *)
PodKilled(s) ==
  /\ pod[s] = "ready" /\ faults < MaxFaults /\ faults' = faults + 1
  /\ pod' = [pod EXCEPT ![s] = "down"]
  /\ UNCHANGED <<made, down, facts, job>>

BringUpNext ==
  \/ \E r \in DOMAIN DependsOn : Make(r)
  \/ \E j \in Job : Statement(j) \/ StatementFails(j) \/ JobKilled(j)
  \/ \E st \in Store : StoreUp(st) \/ StoreDown(st)
  \/ \E s \in Service : PodStarts(s) \/ PodKilled(s)

(* CloudFormation, the kubelet and the Job controller keep trying, and     *)
(* outages end.                                                            *)
Fairness ==
  /\ \A r \in DOMAIN DependsOn : WF_bringUpVars(Make(r))
  /\ \A j \in Job : WF_bringUpVars(Statement(j) \/ StatementFails(j))
  /\ \A st \in Store : WF_bringUpVars(StoreUp(st))
  /\ \A s \in Service : WF_bringUpVars(PodStarts(s))

BringUpSpec == BringUpInit /\ [][BringUpNext]_bringUpVars /\ Fairness

-----------------------------------------------------------------------------
(* A Job that says it is done has left everything its script is for,       *)
(* however often it was cut off half way and run again, and although it    *)
(* hides the errors of CREATE ROLE (cluster-construct.ts: "Idempotent;     *)
(* runs on deploy").                                                       *)
Leaves(j) == {Script(j)[i].gives : i \in DOMAIN Script(j)}
DoneLeavesAll == \A j \in Job : Done(j) => Leaves(j) \subseteq facts

(* A rerun never fails because of what an earlier run left: every failed   *)
(* attempt of a Job is owed to a fault of its own.                         *)
RerunsNeverFail == \A j \in Job : job[j].tries <= job[j].hits

(* Whatever the order in which Jobs and services are started, everything   *)
(* is up in the end and the audit service can append, unless a Job has     *)
(* used up its attempts: nothing starts a failed Job again.                *)
AllUp ==
  /\ \A s \in Service : pod[s] = "ready"
  /\ "audit" \in Service => "writer_sequence" \in facts
ComesUp == <>[]AllUp \/ <>(\E j \in Job : Failed(j))
=============================================================================

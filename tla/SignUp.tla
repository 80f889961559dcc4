--------------------------------- MODULE SignUp ---------------------------------
(***************************************************************************)
(* Registration from the page to the services that must come to know the   *)
(* new user: register/page.tsx and registerAction, the gateway's breaker   *)
(* in front of auth, AuthService.registerUser, the user-registered topic,  *)
(* and the registry that the chat service keeps of it in memory.           *)
(*                                                                         *)
(* A form is a username and an email; an account is the form it was made   *)
(* from.  Passwords, the status picker and the texts are left out.         *)
(***************************************************************************)
EXTENDS CircuitBreaker, Sequences, FiniteSets

CONSTANTS
  Page,       \* browser windows at /register
  Form,       \* the forms that may be filled in: records with username and email
  MaxFaults,  \* bound: outages, cancelled calls, lost answers and events, restarts
  NoForm        \* no form

ASSUME SignUpAssumption == MaxFaults \in Nat /\ NoForm \notin Form

VARIABLES
  step,       \* page -> "form", "login" or "closed"
  call,       \* page -> where its call of registerAction is, and for which form
  cb,         \* the breaker of auth
  authUp,     \* does auth answer?
  accounts,   \* the users table
  outbox,     \* events in the producer's buffer
  topic,      \* user-registered
  pos, committed, \* the registry's position in it, and the one it has committed
  registry,   \* usernames in chat's UserCache
  lost,       \* history: accounts whose event was lost, or forgotten by a restart
  faults

authVars == <<authUp, accounts, outbox>>
busVars == <<topic, pos, committed, registry>>
signUpVars == <<step, call, cb, authVars, busVars, lost, faults>>

Idle == [pc |-> "idle", form |-> NoForm]

SignUpInit ==
  /\ step = [p \in Page |-> "form"]
  /\ call = [p \in Page |-> Idle]
  /\ cb = Closed
  /\ authUp = TRUE /\ accounts = {} /\ outbox = {}
  /\ topic = <<>> /\ pos = 0 /\ committed = 0 /\ registry = {}
  /\ lost = {} /\ faults = 0

Fault == faults < MaxFaults /\ faults' = faults + 1

-----------------------------------------------------------------------------
(* Continue, once validateStep1 accepts the form, and Create Account, that *)
(* is disabled while a call is pending.  Back and edits in between only    *)
(* change which form the next call is for.                                 *)
handleCreateAccount(p, f) ==
  /\ step[p] = "form" /\ call[p].pc = "idle"
  /\ call' = [call EXCEPT ![p] = [pc |-> "edge", form |-> f]]
  /\ UNCHANGED <<step, cb, authVars, busVars, lost, faults>>

(* RoundTrip: the breaker lets the request through or answers 503.         *)
RoundTrip(p) ==
  /\ call[p].pc = "edge"
  /\ cb' = IF Admits(cb) THEN Admit(cb, p) ELSE cb
  /\ call' = [call EXCEPT ![p].pc = IF Admits(cb) THEN "email" ELSE "error"]
  /\ UNCHANGED <<step, authVars, busVars, lost, faults>>

(* The answer, or the failure, passes the breaker on its way back.         *)
Return(p, pc, healthy) ==
  /\ call' = [call EXCEPT ![p].pc = pc]
  /\ cb' = Outcome(cb, p, healthy)

-----------------------------------------------------------------------------
(* registerUser: existsByEmail, existsByUsername (409 if so) ...           *)
existsByEmail(p) ==
  /\ authUp /\ call[p].pc = "email"
  /\ IF \E a \in accounts : a.email = call[p].form.email
       THEN Return(p, "error", TRUE)
       ELSE call' = [call EXCEPT ![p].pc = "username"] /\ UNCHANGED cb
  /\ UNCHANGED <<step, authVars, busVars, lost, faults>>

existsByUsername(p) ==
  /\ authUp /\ call[p].pc = "username"
  /\ IF \E a \in accounts : a.username = call[p].form.username
       THEN Return(p, "error", TRUE)
       ELSE call' = [call EXCEPT ![p].pc = "save"] /\ UNCHANGED cb
  /\ UNCHANGED <<step, authVars, busVars, lost, faults>>

(* Mutant: the columns are not UNIQUE; the two checks are relied upon.     *)
SaveUnconstrained(p) ==
  /\ authUp /\ call[p].pc = "save"
  /\ accounts' = accounts \cup {call[p].form}
  /\ call' = [call EXCEPT ![p].pc = "send"]
  /\ UNCHANGED <<step, cb, authUp, outbox, busVars, lost, faults>>

(* ... save, where the UNIQUE columns decide.  Nobody handles a violation; *)
(* the /error dispatch is not permitted, so the answer is a 403, which is  *)
(* no failure to the breaker ...                                           *)
save(p) ==
  /\ authUp /\ call[p].pc = "save"
  /\ LET f == call[p].form
         taken == \E a \in accounts : a.email = f.email \/ a.username = f.username
     IN \/ taken /\ Return(p, "error", TRUE) /\ UNCHANGED accounts
        \/ /\ ~taken
           /\ accounts' = accounts \cup {f}
           /\ call' = [call EXCEPT ![p].pc = "send"]
           /\ UNCHANGED cb
  /\ UNCHANGED <<step, authUp, outbox, busVars, lost, faults>>

(* ... and send, which is not awaited but throws if it has no metadata:    *)
(* then the answer is such a 403 too, and the account stays.               *)
send(p) ==
  /\ authUp /\ call[p].pc = "send"
  /\ \/ outbox' = outbox \cup {call[p].form} /\ Return(p, "ok", TRUE) /\ UNCHANGED <<lost, faults>>
     \/ Fault /\ lost' = lost \cup {call[p].form} /\ Return(p, "error", TRUE) /\ UNCHANGED outbox
  /\ UNCHANGED <<step, authUp, accounts, busVars>>

InAuth(p) == call[p].pc \in {"email", "username", "save", "send"}

(* auth dies, with the requests and the events it was working on.          *)
AuthDown ==
  /\ authUp /\ Fault
  /\ authUp' = FALSE /\ outbox' = {}
  /\ call' = [p \in Page |-> IF InAuth(p) THEN [call[p] EXCEPT !.pc = "reset"] ELSE call[p]]
  /\ lost' = lost \cup outbox \cup {call[p].form : p \in {q \in Page : call[q].pc = "send"}}
  /\ UNCHANGED <<step, cb, accounts, busVars>>

AuthRestarts ==
  /\ ~authUp /\ authUp' = TRUE
  /\ UNCHANGED <<step, call, cb, accounts, outbox, busVars, lost, faults>>

(* Connection reset or refused: the ErrorHandler answers 503.              *)
UpstreamError(p) ==
  /\ call[p].pc = "reset" \/ (~authUp /\ InAuth(p))
  /\ Return(p, "error", FALSE)
  /\ UNCHANGED <<step, authVars, busVars, lost, faults>>

(* The window is closed: to the breaker that is a failure, while auth goes *)
(* on with the request.                                                    *)
Cancelled(p) ==
  /\ Fault /\ InAuth(p) /\ step[p] = "form"
  /\ step' = [step EXCEPT ![p] = "closed"]
  /\ cb' = Outcome(cb, p, FALSE)
  /\ UNCHANGED <<call, authVars, busVars, lost>>

LoseAnswer(p) ==
  /\ Fault /\ call[p].pc = "ok"
  /\ call' = [call EXCEPT ![p].pc = "error"]
  /\ UNCHANGED <<step, cb, authVars, busVars, lost>>

(* registerAction ends: the login page, or an error under the form.        *)
registerAction(p) ==
  /\ \/ /\ call[p].pc = "ok"
        /\ step[p] # "closed"
        /\ call' = [call EXCEPT ![p].pc = "idle"]
        /\ step' = [step EXCEPT ![p] = "login"]
     \/ /\ call[p].pc = "error" \/ (call[p].pc = "ok" /\ step[p] = "closed")
        /\ call' = [call EXCEPT ![p] = Idle]
        /\ UNCHANGED step
  /\ UNCHANGED <<cb, authVars, busVars, lost, faults>>

(* A login or a refresh goes through the same breaker; any answer but a    *)
(* 5xx is a success.                                                       *)
OtherTraffic ==
  /\ Admits(cb)
  /\ cb' = Outcome(Admit(cb, "other"), "other", authUp)
  /\ UNCHANGED <<step, call, authVars, busVars, lost, faults>>

OpenTimeout ==
  /\ cb.st = "open" /\ cb' = HalfOpened
  /\ UNCHANGED <<step, call, authVars, busVars, lost, faults>>

-----------------------------------------------------------------------------
(* The producer's thread: the event reaches the topic, or is given up.     *)
Publish(a) ==
  /\ authUp /\ a \in outbox /\ outbox' = outbox \ {a}
  /\ \/ topic' = Append(topic, a) /\ UNCHANGED <<lost, faults>>
     \/ Fault /\ lost' = lost \cup {a} /\ UNCHANGED topic
  /\ UNCHANGED <<step, call, cb, authUp, accounts, pos, committed, registry>>

(* Mutant: the cache is taken for loaded once there is something in it.    *)
ConsumeSkips ==
  /\ pos < Len(topic) /\ pos' = pos + 1
  /\ registry' = IF registry # {} THEN registry ELSE registry \cup {topic[pos'].username}
  /\ UNCHANGED <<step, call, cb, authVars, topic, committed, lost, faults>>

(* user_registry.rs: the next event is put into the cache.                 *)
Consume ==
  /\ pos < Len(topic) /\ pos' = pos + 1
  /\ registry' = registry \cup {topic[pos'].username}
  /\ UNCHANGED <<step, call, cb, authVars, topic, committed, lost, faults>>

(* enable.auto.commit                                                      *)
AutoCommit ==
  /\ committed # pos /\ committed' = pos
  /\ UNCHANGED <<step, call, cb, authVars, topic, pos, registry, lost, faults>>

(* chat restarts with an empty cache, where it had committed.              *)
ChatRestarts ==
  /\ Fault /\ registry' = {} /\ pos' = committed
  /\ lost' = lost \cup {topic[i] : i \in 1..committed}
  /\ UNCHANGED <<step, call, cb, authVars, topic, committed>>

-----------------------------------------------------------------------------
PageSteps(p) ==
  \/ RoundTrip(p) \/ existsByEmail(p) \/ existsByUsername(p) \/ save(p) \/ send(p)
  \/ UpstreamError(p) \/ registerAction(p)

SignUpNext ==
  \/ AuthDown \/ AuthRestarts \/ OtherTraffic \/ OpenTimeout
  \/ Consume \/ AutoCommit \/ ChatRestarts
  \/ \E a \in Form : Publish(a)
  \/ \E p \in Page :
       \/ PageSteps(p) \/ Cancelled(p) \/ LoseAnswer(p)
       \/ \E f \in Form : handleCreateAccount(p, f)

(* Calls end, timers fire, outages end, the Kafka threads run, and others  *)
(* keep using auth; nobody has to register.                                *)
SignUpSpec ==
  /\ SignUpInit /\ [][SignUpNext]_signUpVars
  /\ WF_signUpVars(AuthRestarts) /\ WF_signUpVars(OtherTraffic) /\ WF_signUpVars(OpenTimeout)
  /\ WF_signUpVars(Consume)
  /\ \A p \in Page : WF_signUpVars(PageSteps(p))
  /\ \A a \in Form : WF_signUpVars(Publish(a))

-----------------------------------------------------------------------------
(* A page that was sent to the login page made the account it filled in,   *)
(* and no other page was told so of the same username or email; no two     *)
(* accounts share one.                                                     *)
OneAccountEach ==
  /\ \A a, b \in accounts : a # b => a.username # b.username /\ a.email # b.email
  /\ \A p \in Page : step[p] = "login" => call[p].form \in accounts
  /\ \A p, q \in Page : (p # q /\ step[p] = "login" /\ step[q] = "login") => call[p].form # call[q].form

(* Every account becomes known to the registry, so that its user can be    *)
(* mentioned, unless its event was lost on the way or consumed before a    *)
(* restart: the committed position outlives the cache.                     *)
RegistryLearns ==
  \A a \in Form : (a \in accounts) ~> (a.username \in registry \/ a \in lost)

(* The breaker does not stay open once auth is back, whatever became of    *)
(* the requests that were under way when it opened, or of the probe.       *)
BreakerRecloses == []<>(cb.st = "closed")
=============================================================================

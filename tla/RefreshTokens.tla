---------------------------- MODULE RefreshTokens ----------------------------
(***************************************************************************)
(* The refresh tokens of the auth service (AuthService.java): login,       *)
(* refresh with rotation, logout.  refresh() is not transactional: each    *)
(* repository call is a transaction of its own, and requests run on        *)
(* several threads and replicas against one table.                         *)
(*                                                                         *)
(* A request has one persistence context (Spring's open-in-view default):  *)
(* delete() of the entity found before issues a DELETE by id, and Hibernate *)
(* turns a DELETE that hits no row into an error that nobody handles.  The *)
(* derived deleteByUserId selects the user's rows and deletes each so.     *)
(***************************************************************************)
EXTENDS Integers, FiniteSets

CONSTANTS
  User,
  Token,     \* bound: random tokens that may be generated
  Req,       \* slots for concurrent requests
  Lifetime,  \* may tokens reach their expiry (7 days)?
  Crashes,   \* may a replica die, or its answer get lost?
  None

ASSUME RefreshAssumption ==
  /\ Lifetime \in BOOLEAN /\ Crashes \in BOOLEAN
  /\ None \notin User \cup Token \cup (User \X Token)

VARIABLES
  rows,     \* token -> the user of its refresh_tokens row, or None
  expired,  \* tokens whose expires_at has passed
  family,   \* history: token -> <<user, token>> of the login it descends from,
            \* None if it was not issued
  spent,    \* history: tokens whose refresh was answered with 200
  req       \* slot -> the request in progress

vars == <<rows, expired, family, spent, req>>

Family == User \X Token

Stage == {"free", "find", "remove", "save", "ok", "unauthorized", "error",
          "select", "purge", "cleared"}

Request ==
  [pc: Stage,
   tok: Token \cup {None}, user: User \cup {None},
   late: BOOLEAN,         \* the token was expired when it was found
   reused: BOOLEAN,       \* the token was already spent when the request came
   mine: SUBSET Token]    \* logout: the rows it selected

NewRequest(pc, t, u, again) ==
  [pc |-> pc, tok |-> t, user |-> u, late |-> FALSE, reused |-> again, mine |-> {}]

Free == NewRequest("free", None, None, FALSE)

(* Type invariant of the table, the history variables and the requests.    *)
TypeOK ==
  /\ rows \in [Token -> User \cup {None}]
  /\ expired \subseteq Token
  /\ family \in [Token -> Family \cup {None}]
  /\ spent \subseteq Token
  /\ req \in [Req -> Request]

Init ==
  /\ rows = [t \in Token |-> None]
  /\ expired = {} /\ spent = {}
  /\ family = [t \in Token |-> None]
  /\ req = [r \in Req |-> Free]

-----------------------------------------------------------------------------
At(r, pc) == req[r].pc = pc
Goto(r, pc) == req' = [req EXCEPT ![r].pc = pc]
tokVars == <<rows, expired, family, spent>>

(* hashToken of a random UUID: a token never seen before.                  *)
Fresh(t) == family[t] = None

Issue(t, u, f) ==
  /\ Fresh(t)
  /\ rows' = [rows EXCEPT ![t] = u]
  /\ family' = [family EXCEPT ![t] = f]

(* login, with the right password: one row is inserted.                    *)
Login(u, t) ==
  /\ Issue(t, u, <<u, t>>)
  /\ UNCHANGED <<expired, spent, req>>

(* POST /auth/refresh with a token that was issued.                        *)
RefreshCall(r, t) ==
  /\ At(r, "free") /\ ~Fresh(t)
  /\ req' = [req EXCEPT ![r] = NewRequest("find", t, None, t \in spent)]
  /\ UNCHANGED tokVars

(* findByTokenHash; an expired row is deleted too, then answered with 401. *)
RefreshFind(r) ==
  /\ At(r, "find")
  /\ LET t == req[r].tok
     IN IF rows[t] = None
          THEN Goto(r, "unauthorized")
          ELSE req' = [req EXCEPT ![r] = [@ EXCEPT !.pc = "remove", !.user = rows[t],
                                                   !.late = t \in expired]]
  /\ UNCHANGED tokVars

(* Mutant: only expired tokens are deleted.                                *)
RefreshDeleteLate(r) ==
  /\ At(r, "remove")
  /\ Goto(r, IF req[r].late THEN "unauthorized" ELSE "save")
  /\ rows' = [rows EXCEPT ![req[r].tok] = IF req[r].late THEN None ELSE @]
  /\ UNCHANGED <<expired, family, spent>>

(* Mutant: a DELETE that hits no row is taken for a success.               *)
RefreshDeleteUnchecked(r) ==
  /\ At(r, "remove")
  /\ Goto(r, IF req[r].late THEN "unauthorized" ELSE "save")
  /\ rows' = [rows EXCEPT ![req[r].tok] = None]
  /\ UNCHANGED <<expired, family, spent>>

(* delete(oldToken): its row is deleted, unless it has gone meanwhile.     *)
RefreshDelete(r) ==
  /\ At(r, "remove")
  /\ Goto(r, IF rows[req[r].tok] = None THEN "error"
             ELSE IF req[r].late THEN "unauthorized" ELSE "save")
  /\ rows' = [rows EXCEPT ![req[r].tok] = None]
  /\ UNCHANGED <<expired, family, spent>>

(* The user exists (accounts are never deleted): a new token is stored.    *)
RefreshSave(r, t) ==
  /\ At(r, "save")
  /\ Issue(t, req[r].user, family[req[r].tok])
  /\ Goto(r, "ok")
  /\ UNCHANGED <<expired, spent>>

(* DELETE /auth/logout, one transaction: select the user's rows ...        *)
LogoutCall(r, u) ==
  /\ At(r, "free")
  /\ req' = [req EXCEPT ![r] = NewRequest("select", None, u, FALSE)]
  /\ UNCHANGED tokVars

LogoutSelect(r) ==
  /\ At(r, "select")
  /\ req' = [req EXCEPT ![r] = [@ EXCEPT !.pc = "purge",
                                         !.mine = {t \in Token : rows[t] = req[r].user}]]
  /\ UNCHANGED tokVars

(* ... and delete each of them; one that is gone rolls everything back.    *)
LogoutPurge(r) ==
  /\ At(r, "purge")
  /\ IF \A t \in req[r].mine : rows[t] # None
       THEN /\ rows' = [t \in Token |-> IF t \in req[r].mine THEN None ELSE rows[t]]
            /\ Goto(r, "cleared")
       ELSE /\ Goto(r, "error")
            /\ UNCHANGED rows
  /\ UNCHANGED <<expired, family, spent>>

(* The answer leaves.                                                      *)
Reply(r) ==
  /\ req[r].pc \in {"ok", "unauthorized", "error", "cleared"}
  /\ spent' = IF At(r, "ok") THEN spent \cup {req[r].tok} ELSE spent
  /\ req' = [req EXCEPT ![r] = Free]
  /\ UNCHANGED <<rows, expired, family>>

(* The replica dies: what it committed stays, nothing is answered.         *)
Crash(r) ==
  /\ Crashes
  /\ ~At(r, "free")
  /\ req' = [req EXCEPT ![r] = Free]
  /\ UNCHANGED tokVars

Expire(t) ==
  /\ Lifetime
  /\ ~Fresh(t) /\ t \notin expired
  /\ expired' = expired \cup {t}
  /\ UNCHANGED <<rows, family, spent, req>>

ServerStep(r) ==
  \/ RefreshFind(r) \/ RefreshDelete(r)
  \/ \E t \in Token : RefreshSave(r, t)
  \/ LogoutSelect(r) \/ LogoutPurge(r)

Next ==
  \/ \E u \in User, t \in Token : Login(u, t)
  \/ \E r \in Req :
       \/ ServerStep(r) \/ Reply(r) \/ Crash(r)
       \/ \E t \in Token : RefreshCall(r, t)
       \/ \E u \in User : LogoutCall(r, u)
  \/ \E t \in Token : Expire(t)

Spec == Init /\ [][Next]_vars

-----------------------------------------------------------------------------
(* tasks.md T-22, "Old refresh token is invalidated after use": a refresh  *)
(* that starts once the token's refresh has been answered never succeeds,  *)
(* in any interleaving with other refreshes, logouts and crashes.          *)
SpentIsRefused == \A r \in Req : At(r, "ok") => ~req[r].reused

(* "one-time use rotation": of all the tokens descended from one login at  *)
(* most one is alive, although refresh() is not a transaction, one token   *)
(* may be sent in several refreshes at once, and replicas die half way.    *)
OneLivePerLogin ==
  \A s, t \in Token :
    rows[s] # None /\ rows[t] # None /\ family[s] = family[t] => s = t
=============================================================================

----------------------------- MODULE AuthProofs -----------------------------
(***************************************************************************)
(* The auth service.                                                       *)
(*                                                                         *)
(* For any number of users, tokens and concurrent requests: rotation keeps *)
(* at most one token of a login alive, and a spent token is never accepted *)
(* again.  The argument: the DELETE of refresh() succeeds for one request  *)
(* only, so at most one request per login is between its DELETE and its    *)
(* save, and while one is, no token of that login is alive.                *)
(*                                                                         *)
(* The pages of the web app only use the service in the ways it is         *)
(* specified for, so this holds of them; and auth's refusal sends a page   *)
(* to /login only when its token is of no use any more.                    *)
(*                                                                         *)
(* Registration hands out every username and email once, for any number of *)
(* pages, any forms and any number of faults.                              *)
(***************************************************************************)
EXTENDS WebSession, SignUp, TLAPS

Active(r) == req[r].pc \in {"find", "remove", "save", "ok"}

(* What is known of issued tokens.                                         *)
Issued ==
  /\ \A t \in Token : rows[t] # None => family[t] # None
  /\ \A t \in spent : rows[t] = None /\ family[t] # None
  /\ \A t \in Token : family[t] # None =>
       /\ family[t][2] \in Token
       /\ family[family[t][2]] = family[t]

(* What is known of refreshes in progress.                                 *)
Working ==
  \A r \in Req :
    /\ Active(r) => req[r].tok \in Token /\ family[req[r].tok] # None
    /\ req[r].reused => req[r].tok \in spent
    /\ req[r].pc \in {"remove", "save", "ok"} => ~req[r].reused
    /\ req[r].pc \in {"save", "ok"} => rows[req[r].tok] = None

(* A refresh between DELETE and save is alone in its login.                *)
Alone ==
  \A r \in Req : At(r, "save") =>
    /\ \A t \in Token : family[t] = family[req[r].tok] => rows[t] = None
    /\ \A s \in Req : At(s, "save") /\ family[req[s].tok] = family[req[r].tok] => s = r

Inv == TypeOK /\ Issued /\ Working /\ Alone /\ OneLivePerLogin

(* An unused slot is well typed.                                           *)
LEMMA FreeType == Free \in Request /\ Free.pc = "free" /\ Free.reused = FALSE
BY DEF Free, NewRequest, Request, Stage

(* The initial state has no tokens and no requests.                        *)
LEMMA InvInit == Init => Inv
BY RefreshAssumption, FreeType
   DEF Init, Inv, TypeOK, Issued, Working, Alone, OneLivePerLogin, Active, At, Family

(* A request that moves on to another stage keeps everything else.         *)
LEMMA GotoFacts ==
  ASSUME TypeOK, NEW r \in Req, NEW pc \in Stage, Goto(r, pc)
  PROVE  /\ req' \in [Req -> Request]
         /\ \A s \in Req : s # r => req'[s] = req[s]
         /\ req'[r].pc = pc
         /\ req'[r].tok = req[r].tok
         /\ req'[r].reused = req[r].reused
BY DEF TypeOK, Goto, Request

(* A request slot that is emptied.                                         *)
LEMMA FreeFacts ==
  ASSUME TypeOK, NEW r \in Req, req' = [req EXCEPT ![r] = Free]
  PROVE  /\ req' \in [Req -> Request]
         /\ \A s \in Req : s # r => req'[s] = req[s]
         /\ req'[r].pc = "free" /\ req'[r].reused = FALSE
BY FreeType DEF TypeOK

(* Every action of the endpoints preserves the invariant.                  *)
LEMMA InvStep == Inv /\ [Next]_vars => Inv'
<1> SUFFICES ASSUME Inv, [Next]_vars PROVE Inv'
  OBVIOUS
<1> USE RefreshAssumption
<1>1. ASSUME NEW u \in User, NEW t \in Token, Login(u, t) PROVE Inv'
  <2>1. /\ family[t] = None /\ family' = [family EXCEPT ![t] = <<u, t>>]
        /\ rows' = [rows EXCEPT ![t] = u]
        /\ UNCHANGED <<expired, spent, req>>
    BY <1>1 DEF Login, Issue, Fresh
  <2>2. TypeOK'
    BY <2>1 DEF Inv, TypeOK, Family
  <2>3. \A s \in Token : family[s] # <<u, t>>
    <3> SUFFICES ASSUME NEW s \in Token, family[s] = <<u, t>> PROVE FALSE
      OBVIOUS
    <3>1. <<u, t>> # None /\ <<u, t>>[2] = t
      OBVIOUS
    <3>2. family[family[s][2]] = family[s]
      BY <3>1 DEF Inv, Issued
    <3> QED BY <2>1, <3>1, <3>2
  <2>4. Issued'
    BY <2>1 DEF Inv, TypeOK, Family, Issued
  <2>5. \A r \in Req : Active(r) => req[r].tok \in Token /\ req[r].tok # t
    BY <2>1 DEF Inv, Working
  <2>6. Working'
    BY <2>1, <2>5 DEF Inv, TypeOK, Working, Active
  <2>7. Alone'
    BY <2>1, <2>3, <2>5 DEF Inv, TypeOK, Alone, Active, At
  <2>8. OneLivePerLogin'
    BY <2>1, <2>3 DEF Inv, TypeOK, OneLivePerLogin
  <2> QED BY <2>2, <2>4, <2>6, <2>7, <2>8 DEF Inv
<1>2. ASSUME NEW r \in Req, NEW t \in Token, RefreshCall(r, t) PROVE Inv'
  <2> DEFINE b == t \in spent
             q == NewRequest("find", t, None, b)
  <2>1. /\ family[t] # None
        /\ req' = [req EXCEPT ![r] = q]
        /\ UNCHANGED <<rows, expired, family, spent>>
    BY <1>2 DEF RefreshCall, Fresh, tokVars
  <2>2. b \in BOOLEAN /\ (b => t \in spent)
    OBVIOUS
  <2> HIDE DEF b
  <2>3. q \in Request /\ q.pc = "find" /\ q.tok = t /\ q.reused = b
    BY <2>2 DEF NewRequest, Request, Stage
  <2> HIDE DEF q
  <2>4. TypeOK' /\ Issued' /\ OneLivePerLogin'
    BY <2>1, <2>3 DEF Inv, TypeOK, Issued, OneLivePerLogin
  <2>5. Working' /\ Alone'
    BY <2>1, <2>2, <2>3 DEF Inv, TypeOK, Working, Active, Alone, At
  <2> QED BY <2>4, <2>5 DEF Inv
<1>3. ASSUME NEW r \in Req, RefreshFind(r) PROVE Inv'
  <2> DEFINE t == req[r].tok
  <2>1. /\ At(r, "find") /\ t \in Token /\ family[t] # None
        /\ UNCHANGED <<rows, expired, family, spent>>
    BY <1>3 DEF RefreshFind, tokVars, Inv, Working, Active, At
  <2>2. CASE rows[t] = None
    <3>1. Goto(r, "unauthorized")
      BY <1>3, <2>2 DEF RefreshFind
    <3> QED
      BY <2>1, <3>1, GotoFacts
         DEF Inv, TypeOK, Stage, Issued, Working, Active, Alone, At, OneLivePerLogin
  <2>3. CASE rows[t] # None
    <3> DEFINE b == t \in expired
               q == [req[r] EXCEPT !.pc = "remove", !.user = rows[t], !.late = b]
    <3>1. req' = [req EXCEPT ![r] = q]
      BY <1>3, <2>3 DEF RefreshFind
    <3>2. b \in BOOLEAN /\ rows[t] \in User \cup {None} /\ req[r] \in Request
      BY <2>1 DEF Inv, TypeOK
    <3> HIDE DEF b
    <3>3. /\ q \in Request
          /\ q.pc = "remove" /\ q.tok = t /\ q.reused = req[r].reused
      BY <3>2 DEF Request, Stage
    <3> HIDE DEF q
    <3>4. ~req[r].reused
      BY <2>1, <2>3 DEF Inv, Working, Issued
    <3> QED
      BY <2>1, <3>1, <3>3, <3>4
         DEF Inv, TypeOK, Stage, Issued, Working, Active, Alone, At, OneLivePerLogin
  <2> QED BY <2>2, <2>3
<1>4. ASSUME NEW r \in Req, RefreshDelete(r) PROVE Inv'
  <2> DEFINE t == req[r].tok
  <2>1. /\ At(r, "remove") /\ t \in Token /\ family[t] # None /\ ~req[r].reused
        /\ rows' = [rows EXCEPT ![t] = None]
        /\ UNCHANGED <<expired, family, spent>>
    BY <1>4 DEF RefreshDelete, tokVars, Inv, Working, Active, At
  <2>2. PICK pc \in {"error", "unauthorized", "save"} :
          Goto(r, pc) /\ (pc = "save" => rows[t] # None)
    BY <1>4 DEF RefreshDelete
  <2>3. /\ req' \in [Req -> Request]
        /\ \A s \in Req : s # r => req'[s] = req[s]
        /\ req'[r].pc = pc /\ req'[r].tok = t /\ req'[r].reused = req[r].reused
    BY <2>2, GotoFacts DEF Inv, Stage
  <2>4. TypeOK' /\ Issued' /\ OneLivePerLogin'
    BY <2>1, <2>3 DEF Inv, TypeOK, Issued, OneLivePerLogin
  <2>5. Working'
    BY <2>1, <2>3 DEF Inv, TypeOK, Working, Active
  <2>6. Alone'
    <3>1. ASSUME pc = "save", NEW s \in Req, At(s, "save")
          PROVE  family[req[s].tok] # family[t]
      BY <2>1, <2>2, <3>1 DEF Inv, Alone
    <3>2. ASSUME pc = "save", NEW s \in Token, family[s] = family[t], s # t
          PROVE  rows[s] = None
      BY <2>1, <2>2, <3>2 DEF Inv, OneLivePerLogin
    <3> QED
      BY <2>1, <2>3, <3>1, <3>2 DEF Inv, TypeOK, Working, Active, Alone, At
  <2> QED BY <2>4, <2>5, <2>6 DEF Inv
<1>5. ASSUME NEW r \in Req, NEW t \in Token, RefreshSave(r, t) PROVE Inv'
  <2> DEFINE old == req[r].tok
  <2>1. /\ At(r, "save") /\ old \in Token /\ family[old] # None /\ ~req[r].reused
        /\ rows[old] = None /\ family[t] = None
        /\ rows' = [rows EXCEPT ![t] = req[r].user]
        /\ family' = [family EXCEPT ![t] = family[old]]
        /\ Goto(r, "ok")
        /\ UNCHANGED <<expired, spent>>
    BY <1>5 DEF RefreshSave, Issue, Fresh, Inv, Working, Active, At
  <2>2. /\ req' \in [Req -> Request]
        /\ \A s \in Req : s # r => req'[s] = req[s]
        /\ req'[r].pc = "ok" /\ req'[r].tok = old /\ req'[r].reused = req[r].reused
    BY <2>1, GotoFacts DEF Inv, Stage
  <2>3. TypeOK'
    <3>1. req[r].user \in User \cup {None}
      BY DEF Inv, TypeOK, Request
    <3> QED BY <2>1, <2>2, <3>1 DEF Inv, TypeOK
  <2>4. Issued'
    BY <2>1 DEF Inv, TypeOK, Issued
  <2>5. Working'
    BY <2>1, <2>2 DEF Inv, TypeOK, Working, Active
  <2>6. Alone'
    BY <2>1, <2>2 DEF Inv, TypeOK, Working, Active, Alone, At
  <2>7. OneLivePerLogin'
    BY <2>1 DEF Inv, TypeOK, Alone, OneLivePerLogin
  <2> QED BY <2>3, <2>4, <2>5, <2>6, <2>7 DEF Inv
<1>6. ASSUME NEW r \in Req, NEW u \in User, LogoutCall(r, u) PROVE Inv'
  <2> DEFINE q == NewRequest("select", None, u, FALSE)
  <2>1. /\ req' = [req EXCEPT ![r] = q]
        /\ UNCHANGED <<rows, expired, family, spent>>
    BY <1>6 DEF LogoutCall, tokVars
  <2>2. q \in Request /\ q.pc = "select" /\ q.reused = FALSE
    BY DEF NewRequest, Request, Stage
  <2> HIDE DEF q
  <2> QED
    BY <2>1, <2>2
       DEF Inv, TypeOK, Issued, Working, Active, Alone, At, OneLivePerLogin
<1>7. ASSUME NEW r \in Req, LogoutSelect(r) PROVE Inv'
  <2> DEFINE m == {t \in Token : rows[t] = req[r].user}
             q == [req[r] EXCEPT !.pc = "purge", !.mine = m]
  <2>1. /\ req' = [req EXCEPT ![r] = q]
        /\ UNCHANGED <<rows, expired, family, spent>>
    BY <1>7 DEF LogoutSelect, tokVars
  <2>2. m \subseteq Token /\ req[r] \in Request
    BY DEF Inv, TypeOK
  <2> HIDE DEF m
  <2>3. /\ q \in Request
        /\ q.pc = "purge" /\ q.tok = req[r].tok /\ q.reused = req[r].reused
    BY <2>2 DEF Request, Stage
  <2> HIDE DEF q
  <2> QED
    BY <2>1, <2>3
       DEF Inv, TypeOK, Issued, Working, Active, Alone, At, OneLivePerLogin
<1>8. ASSUME NEW r \in Req, LogoutPurge(r) PROVE Inv'
  <2>1. PICK pc \in {"cleared", "error"} : Goto(r, pc)
    BY <1>8 DEF LogoutPurge
  <2>2. /\ rows' \in [Token -> User \cup {None}]
        /\ \A t \in Token : rows'[t] # None => rows'[t] = rows[t]
        /\ UNCHANGED <<expired, family, spent>>
    BY <1>8 DEF LogoutPurge, Inv, TypeOK
  <2>3. /\ req' \in [Req -> Request]
        /\ \A s \in Req : s # r => req'[s] = req[s]
        /\ req'[r].pc = pc /\ req'[r].tok = req[r].tok
        /\ req'[r].reused = req[r].reused
    BY <2>1, GotoFacts DEF Inv, Stage
  <2>4. TypeOK' /\ Issued' /\ OneLivePerLogin'
    BY <2>2, <2>3 DEF Inv, TypeOK, Issued, OneLivePerLogin
  <2>5. Working' /\ Alone'
    BY <2>2, <2>3 DEF Inv, TypeOK, Working, Active, Alone, At
  <2> QED BY <2>4, <2>5 DEF Inv
<1>9. ASSUME NEW r \in Req, Reply(r) \/ Crash(r) PROVE Inv'
  <2>1. /\ req' = [req EXCEPT ![r] = Free]
        /\ UNCHANGED <<rows, expired, family>>
    BY <1>9 DEF Reply, Crash, tokVars
  <2>2. /\ spent \subseteq spent'
        /\ \A t \in spent' : t \in spent \/ (At(r, "ok") /\ t = req[r].tok)
    <3>1. CASE Reply(r)
      BY <3>1 DEF Reply
    <3>2. CASE Crash(r)
      BY <3>2 DEF Crash, tokVars
    <3> QED BY <1>9, <3>1, <3>2
  <2>5. /\ req' \in [Req -> Request]
        /\ \A s \in Req : s # r => req'[s] = req[s]
        /\ req'[r].pc = "free" /\ req'[r].reused = FALSE
    BY <2>1, FreeFacts DEF Inv
  <2>6. \A t \in spent' : t \in Token /\ rows[t] = None /\ family[t] # None
    BY <2>2 DEF Inv, TypeOK, Issued, Working, Active, At
  <2>3. TypeOK' /\ Issued' /\ OneLivePerLogin'
    BY <2>1, <2>5, <2>6 DEF Inv, TypeOK, Issued, OneLivePerLogin
  <2>4. Working' /\ Alone'
    BY <2>1, <2>2, <2>5 DEF Inv, Working, Active, Alone, At
  <2> QED BY <2>3, <2>4 DEF Inv
<1>10. ASSUME NEW t \in Token, Expire(t) PROVE Inv'
  BY <1>10 DEF Expire, Inv, TypeOK, Issued, Working, Active, Alone, At, OneLivePerLogin
<1>11. CASE UNCHANGED vars
  BY <1>11 DEF vars, Inv, TypeOK, Issued, Working, Active, Alone, At, OneLivePerLogin
<1> QED
  BY <1>1, <1>2, <1>3, <1>4, <1>5, <1>6, <1>7, <1>8, <1>9, <1>10, <1>11
     DEF Next, ServerStep

-----------------------------------------------------------------------------
(* AuthService.refresh rotates: of the tokens that descend from one login, *)
(* at most one is stored, in every interleaving of refreshes (of the same  *)
(* token too), logouts and replica deaths.                                 *)
THEOREM RotationKeepsOneLive == Spec => []OneLivePerLogin
<1>1. Inv => OneLivePerLogin BY DEF Inv
<1> QED BY <1>1, InvInit, InvStep, PTL DEF Spec

(* AuthService.refresh never accepts a token whose refresh was answered    *)
(* before the request came.                                                *)
THEOREM SpentNeverAccepted == Spec => [](TypeOK /\ SpentIsRefused)
<1>1. Inv => TypeOK /\ SpentIsRefused BY DEF Inv, Working, SpentIsRefused, At
<1> QED BY <1>1, InvInit, InvStep, PTL DEF Spec

-----------------------------------------------------------------------------
(* The pages.                                                              *)

(* A refresh that is refused or fails leaves no row of its token.          *)
RefusedIsGone ==
  \A r \in Req :
    /\ req[r].pc \in {"unauthorized", "error"} /\ req[r].tok \in Token =>
         rows[req[r].tok] = None /\ family[req[r].tok] # None
    /\ req[r].pc \in {"select", "purge"} => req[r].tok = None

(* A page that waits for a refresh waits for that of the token it holds.   *)
PageWaits ==
  /\ fetch \in [Req -> {"idle", "sent", "refreshing", "leaving"}]
  /\ refresh \in Token \cup {None}
  /\ refresh # None => family[refresh] # None
  /\ \A r \in Req : fetch[r] = "refreshing" =>
       /\ refresh # None /\ req[r].tok = refresh
       /\ req[r].pc \in {"find", "remove", "save", "ok", "unauthorized", "error"}

WebInv == Inv /\ RefusedIsGone /\ PageWaits

LEMMA WebInitial == WebInit => WebInv
BY InvInit, FreeType, RefreshAssumption DEF WebInit, WebInv, PageWaits, RefusedIsGone, Init

(* Each step of a page is one of the auth service, or none.                *)
LEMMA WebSimulates == WebInv /\ [WebNext]_allVars => [Next]_vars
<1> SUFFICES ASSUME WebInv, [WebNext]_allVars PROVE [Next]_vars OBVIOUS
<1>1. ASSUME NEW u \in User, NEW t \in Token, SignIn(u, t) PROVE Next
  BY <1>1 DEF SignIn, Next
<1>2. ASSUME NEW r \in Req, Unauthorized(r) PROVE Next \/ UNCHANGED vars
  BY <1>2 DEF Unauthorized, Next, WebInv, PageWaits
<1>3. ASSUME NEW r \in Req, SignOut(r) PROVE Next \/ UNCHANGED vars
  <2>1. refresh \in Token /\ family[refresh] \in User \X Token
    BY <1>3 DEF SignOut, WebInv, PageWaits, Inv, TypeOK, Family
  <2>2. family[refresh][1] \in User BY <2>1
  <2> QED BY <1>3, <2>2 DEF SignOut, Next
<1>4. ASSUME NEW r \in Req, \/ Send(r) \/ Answer(r) \/ Unavailable(r) \/ NoAnswer(r)
                            \/ SignedOut(r) \/ Unheard(r) \/ Serve(r)
      PROVE  Next \/ UNCHANGED vars
  BY <1>4 DEF Send, Answer, Unavailable, NoAnswer, SignedOut, Unheard, Serve, Next
<1>5. CASE AccessExpires \/ Elsewhere \/ (\E t \in Token : Pass(t)) \/ UNCHANGED allVars
  BY <1>5 DEF AccessExpires, Elsewhere, Pass, allVars, Next
<1> QED BY <1>1, <1>2, <1>3, <1>4, <1>5 DEF WebNext

(* Tokens stay issued.                                                     *)
LEMMA IssuedStays ==
  ASSUME Inv, [Next]_vars, NEW t \in Token, family[t] # None
  PROVE  /\ family'[t] = family[t]
         /\ rows[t] = None => rows'[t] = None
BY DEF Inv, TypeOK, Next, ServerStep, Login, Issue, Fresh, RefreshCall, RefreshFind, RefreshDelete,
       RefreshSave, LogoutCall, LogoutSelect, LogoutPurge, Reply, Crash, Expire, tokVars, vars

(* What serving a request does to it.                                      *)
LEMMA ServerFacts ==
  ASSUME Inv, RefusedIsGone, NEW r \in Req, ServerStep(r)
  PROVE  /\ \A s \in Req : s # r => req'[s] = req[s]
         /\ req'[r].tok = req[r].tok
         /\ req[r].pc \in {"find", "remove", "save"} =>
              req'[r].pc \in {"remove", "save", "ok", "unauthorized", "error"}
         /\ req[r].pc \in {"find", "remove", "save", "select", "purge"}
         /\ req'[r].pc = "purge" => req[r].pc = "select"
         /\ req'[r].pc # "select"
         /\ req'[r].pc \in {"unauthorized", "error"} /\ req[r].tok \in Token =>
              rows'[req[r].tok] = None /\ family'[req[r].tok] # None
<1> USE RefreshAssumption
<1>1. req[r] \in Request BY DEF Inv, TypeOK
<1>2. CASE RefreshFind(r)
  <2>1. /\ req[r].pc = "find" /\ UNCHANGED tokVars
        /\ req[r].tok \in Token /\ family[req[r].tok] # None
    BY <1>2 DEF RefreshFind, At, Inv, Working, Active
  <2>2. CASE rows[req[r].tok] = None
    <3>1. Goto(r, "unauthorized") BY <1>2, <2>2 DEF RefreshFind
    <3>2. "unauthorized" \in Stage BY DEF Stage
    <3> QED BY <2>1, <2>2, <3>1, <3>2, GotoFacts DEF Inv, tokVars
  <2>3. CASE rows[req[r].tok] # None
    <3>1. req' = [req EXCEPT ![r] = [@ EXCEPT !.pc = "remove", !.user = rows[req[r].tok],
                                              !.late = req[r].tok \in expired]]
      BY <1>2, <2>3 DEF RefreshFind
    <3>2. req'[r].pc = "remove" /\ req'[r].tok = req[r].tok /\ \A s \in Req : s # r => req'[s] = req[s]
      BY <1>1, <3>1 DEF Inv, TypeOK, Request
    <3> QED BY <2>1, <3>2
  <2> QED BY <2>2, <2>3
<1>3. CASE RefreshDelete(r)
  <2>1. /\ req[r].pc = "remove" /\ req[r].tok \in Token /\ family[req[r].tok] # None
        /\ rows' = [rows EXCEPT ![req[r].tok] = None] /\ family' = family
    BY <1>3 DEF RefreshDelete, At, Inv, Working, Active
  <2>2. PICK pc \in {"error", "unauthorized", "save"} : Goto(r, pc) BY <1>3 DEF RefreshDelete
  <2>3. pc \in Stage BY DEF Stage
  <2>4. rows'[req[r].tok] = None BY <2>1 DEF Inv, TypeOK
  <2> QED BY <2>1, <2>2, <2>3, <2>4, GotoFacts DEF Inv
<1>4. CASE \E t \in Token : RefreshSave(r, t)
  <2>1. req[r].pc = "save" /\ Goto(r, "ok") BY <1>4 DEF RefreshSave, At
  <2>2. "ok" \in Stage BY DEF Stage
  <2> QED BY <2>1, <2>2, GotoFacts DEF Inv
<1>5. CASE LogoutSelect(r)
  <2>1. /\ req[r].pc = "select"
        /\ req' = [req EXCEPT ![r] = [@ EXCEPT !.pc = "purge",
                                      !.mine = {t \in Token : rows[t] = req[r].user}]]
    BY <1>5 DEF LogoutSelect, At
  <2>2. req'[r].pc = "purge" /\ req'[r].tok = req[r].tok /\ \A s \in Req : s # r => req'[s] = req[s]
    BY <1>1, <2>1 DEF Inv, TypeOK, Request
  <2> QED BY <2>1, <2>2
<1>6. CASE LogoutPurge(r)
  <2>1. req[r].pc = "purge" BY <1>6 DEF LogoutPurge, At
  <2>2. PICK pc \in {"cleared", "error"} : Goto(r, pc) BY <1>6 DEF LogoutPurge
  <2>3. pc \in Stage BY DEF Stage
  <2>4. req[r].tok \notin Token BY <2>1 DEF RefusedIsGone
  <2> QED BY <2>1, <2>2, <2>3, <2>4, GotoFacts DEF Inv
<1> QED BY <1>2, <1>3, <1>4, <1>5, <1>6 DEF ServerStep

(* A refused token stays gone.                                             *)
LEMMA RefusedStep ==
  ASSUME Inv, RefusedIsGone, [Next]_vars
  PROVE  RefusedIsGone'
<1> USE RefreshAssumption
<1> SUFFICES ASSUME NEW r \in Req
             PROVE  /\ req'[r].pc \in {"unauthorized", "error"} /\ req'[r].tok \in Token =>
                         rows'[req'[r].tok] = None /\ family'[req'[r].tok] # None
                    /\ req'[r].pc \in {"select", "purge"} => req'[r].tok = None
  BY DEF RefusedIsGone
<1>1. CASE req'[r] = req[r]
  BY <1>1, IssuedStays DEF RefusedIsGone
<1>2. CASE ServerStep(r)
  BY <1>2, ServerFacts DEF RefusedIsGone
<1>3. CASE \E t \in Token : RefreshCall(r, t)
  <2>1. PICK t \in Token : RefreshCall(r, t) BY <1>3
  <2>2. req'[r] = NewRequest("find", t, None, t \in spent)
    BY <2>1 DEF RefreshCall, Inv, TypeOK
  <2> QED BY <2>2 DEF NewRequest
<1>4. CASE \E u \in User : LogoutCall(r, u)
  <2>1. PICK u \in User : LogoutCall(r, u) BY <1>4
  <2>2. req'[r] = NewRequest("select", None, u, FALSE)
    BY <2>1 DEF LogoutCall, Inv, TypeOK
  <2> QED BY <2>2 DEF NewRequest
<1>5. CASE Reply(r) \/ Crash(r)
  <2>1. req'[r].pc = "free" BY <1>5, FreeFacts DEF Reply, Crash, Inv
  <2> QED BY <2>1
<1>6. req'[r] = req[r] \/ ServerStep(r) \/ (\E t \in Token : RefreshCall(r, t))
        \/ (\E u \in User : LogoutCall(r, u)) \/ Reply(r) \/ Crash(r)
  <2>1. ASSUME NEW s \in Req, s # r,
               \/ ServerStep(s) \/ Reply(s) \/ Crash(s)
               \/ \E t \in Token : RefreshCall(s, t)
               \/ \E u \in User : LogoutCall(s, u)
        PROVE  req'[r] = req[r]
    <3>1. CASE ServerStep(s) BY <2>1, <3>1, ServerFacts
    <3>2. CASE Reply(s) \/ Crash(s) BY <2>1, <3>2 DEF Reply, Crash, Inv, TypeOK
    <3>3. CASE (\E t \in Token : RefreshCall(s, t)) \/ (\E u \in User : LogoutCall(s, u))
      BY <2>1, <3>3 DEF RefreshCall, LogoutCall, Inv, TypeOK
    <3> QED BY <2>1, <3>1, <3>2, <3>3
  <2>2. CASE \/ \E u \in User, t \in Token : Login(u, t)
             \/ \E t \in Token : Expire(t)
             \/ UNCHANGED vars
    BY <2>2 DEF Login, Expire, vars
  <2> QED BY <2>1, <2>2 DEF Next
<1> QED BY <1>1, <1>2, <1>3, <1>4, <1>5, <1>6

(* A slot is free once its request was answered or died.                   *)
LEMMA EmptiedSlot ==
  ASSUME Inv, NEW r \in Req, Reply(r) \/ Crash(r)
  PROVE  \A s \in Req : s # r => req'[s] = req[s]
BY DEF Reply, Crash, Inv, TypeOK

(* A page that leaves behind what it waited for.                           *)
LEMMA NavigateFacts ==
  ASSUME Navigate, refresh' \in Token \cup {None}, refresh' # None => family'[refresh'] # None
  PROVE  PageWaits'
<1>1. \A r \in Req : fetch'[r] = "idle" BY DEF Navigate
<1> QED BY <1>1 DEF Navigate, PageWaits

(* A page's call that moves, where the tokens and every other request that *)
(* a page waits for stay.                                                  *)
LEMMA WaitingStays ==
  ASSUME WebInv, [Next]_vars, refresh' = refresh,
         fetch' \in [Req -> {"idle", "sent", "refreshing", "leaving"}],
         \A r \in Req : fetch'[r] = "refreshing" =>
           \/ fetch[r] = "refreshing" /\ req'[r] = req[r]
           \/ /\ refresh # None /\ req'[r].tok = refresh
              /\ req'[r].pc \in {"find", "remove", "save", "ok", "unauthorized", "error"}
  PROVE  PageWaits'
<1>1. refresh # None => family'[refresh] # None
  BY IssuedStays DEF WebInv, PageWaits
<1> QED BY <1>1 DEF WebInv, PageWaits

(* Every step of the pages, of other clients and of the service keeps what *)
(* is known of the pages.                                                  *)
LEMMA PageStep ==
  ASSUME WebInv, [WebNext]_allVars
  PROVE  PageWaits'
<1> USE RefreshAssumption
<1>0. /\ [Next]_vars /\ Inv /\ RefusedIsGone /\ TypeOK
      /\ fetch \in [Req -> {"idle", "sent", "refreshing", "leaving"}]
  BY WebSimulates DEF WebInv, Inv, PageWaits
<1>1. ASSUME NEW u \in User, NEW t \in Token, SignIn(u, t) PROVE PageWaits'
  <2>1. family' = [family EXCEPT ![t] = <<u, t>>] /\ refresh' = t /\ Navigate
    BY <1>1 DEF SignIn, Login, Issue
  <2>2. family'[t] = <<u, t>> BY <1>0, <2>1 DEF TypeOK
  <2>3. <<u, t>> # None OBVIOUS
  <2> QED BY <2>1, <2>2, <2>3, NavigateFacts
<1>2. CASE AccessExpires \/ UNCHANGED allVars
  BY <1>0, <1>2, WaitingStays DEF AccessExpires, allVars, webVars, vars
<1>3. CASE Elsewhere
  <2>1. refresh' = refresh /\ fetch' = fetch BY <1>3 DEF Elsewhere, webVars
  <2>2. ASSUME NEW r \in Req, fetch[r] = "refreshing" PROVE req'[r] = req[r]
    BY <1>0, <1>3, <2>2 DEF Elsewhere, Login, RefreshCall, LogoutCall, TypeOK
  <2> QED BY <1>0, <2>1, <2>2, WaitingStays
<1>4. ASSUME NEW r \in Req, Send(r) PROVE PageWaits'
  BY <1>0, <1>4, WaitingStays DEF Send, vars
<1>5. ASSUME NEW r \in Req, Unauthorized(r) PROVE PageWaits'
  <2>1. CASE refresh = None
    BY <1>0, <1>5, <2>1, WaitingStays DEF Unauthorized, vars
  <2>2. CASE refresh # None
    <3>1. /\ fetch' = [fetch EXCEPT ![r] = "refreshing"] /\ refresh' = refresh
          /\ req' = [req EXCEPT ![r] = NewRequest("find", refresh, None, refresh \in spent)]
      BY <1>5, <2>2 DEF Unauthorized, RefreshCall
    <3>2. req'[r] = NewRequest("find", refresh, None, refresh \in spent)
      BY <1>0, <3>1 DEF TypeOK
    <3>3. req'[r].tok = refresh /\ req'[r].pc = "find" BY <3>2 DEF NewRequest
    <3>4. \A s \in Req : s # r => req'[s] = req[s] /\ fetch'[s] = fetch[s]
      BY <1>0, <3>1 DEF TypeOK
    <3> QED BY <1>0, <2>2, <3>1, <3>3, <3>4, WaitingStays
  <2> QED BY <2>1, <2>2
<1>6. ASSUME NEW r \in Req, Answer(r) PROVE PageWaits'
  <2>1. CASE At(r, "ok")
    BY <1>0, <1>6, <2>1, EmptiedSlot, WaitingStays DEF Answer
  <2>2. CASE ~At(r, "ok")
    BY <1>6, <2>2, NavigateFacts DEF Answer, Bounce, ForgetTokens
  <2> QED BY <2>1, <2>2
<1>7. ASSUME NEW r \in Req, NoAnswer(r) PROVE PageWaits'
  BY <1>0, <1>7, WaitingStays DEF NoAnswer, vars
<1>8. ASSUME NEW r \in Req, SignOut(r) PROVE PageWaits'
  <2>1. \A s \in Req : s # r => req'[s] = req[s]
    BY <1>0, <1>8 DEF SignOut, LogoutCall, vars, TypeOK
  <2> QED BY <1>0, <1>8, <2>1, WaitingStays DEF SignOut
<1>9. ASSUME NEW r \in Req, SignedOut(r) PROVE PageWaits'
  BY <1>9, NavigateFacts DEF SignedOut, ForgetTokens
<1>10. ASSUME NEW r \in Req, Unheard(r) PROVE PageWaits'
  BY <1>0, <1>10, EmptiedSlot, WaitingStays DEF Unheard, webVars
<1>11. ASSUME NEW r \in Req, Serve(r) PROVE PageWaits'
  <2>1. ServerStep(r) /\ fetch' = fetch /\ refresh' = refresh BY <1>11 DEF Serve, webVars
  <2>2. ASSUME fetch[r] = "refreshing"
        PROVE  /\ refresh # None /\ req'[r].tok = refresh
               /\ req'[r].pc \in {"find", "remove", "save", "ok", "unauthorized", "error"}
    <3>1. refresh # None /\ req[r].tok = refresh /\ refresh \in Token
          /\ req[r].pc \in {"find", "remove", "save", "ok", "unauthorized", "error"}
      BY <2>2 DEF WebInv, PageWaits
    <3> QED BY <1>0, <2>1, <3>1, ServerFacts
  <2> QED BY <1>0, <2>1, <2>2, ServerFacts, WaitingStays
<1>12. ASSUME NEW t \in Token, Pass(t) PROVE PageWaits'
  BY <1>0, <1>12, WaitingStays DEF Pass, Expire, webVars
<1>13. ASSUME NEW r \in Req, Unavailable(r) PROVE PageWaits'
  BY <1>13, NavigateFacts DEF Unavailable, Bounce, ForgetTokens
<1> QED
  BY <1>1, <1>2, <1>3, <1>4, <1>5, <1>6, <1>7, <1>8, <1>9, <1>10, <1>11, <1>12, <1>13 DEF WebNext

LEMMA WebStep == WebInv /\ [WebNext]_allVars => WebInv'
BY WebSimulates, InvStep, RefusedStep, PageStep DEF WebInv

-----------------------------------------------------------------------------
(* apiFetch, loginAction and logoutAction use the auth service as it is    *)
(* specified: whatever the pages, other clients and the replicas do, the   *)
(* service sees a behaviour of RefreshTokens.                              *)
THEOREM WebImplementsRefresh == WebSpec => Spec
<1>1. WebInit => Init BY DEF WebInit
<1> QED BY <1>1, WebInitial, WebStep, WebSimulates, PTL DEF WebSpec, Spec

(* Of the tokens that descend from one sign-in at most one is stored, and  *)
(* a spent one is refused, also with pages that refresh the one token of   *)
(* localStorage concurrently and other holders of it.                      *)
THEOREM WebRotation == WebSpec => [](OneLivePerLogin /\ SpentIsRefused)
BY WebImplementsRefresh, RotationKeepsOneLive, SpentNeverAccepted, PTL

(* A page that auth's refusal sends to /login holds a token that has no    *)
(* row any more, however many calls of it, other clients and lost answers  *)
(* there were.                                                             *)
THEOREM RefusalsAreDeserved == WebSpec => RefusedOnlyWhenSpent
<1>1. ASSUME WebInv, [WebNext]_allVars
      PROVE  [bounced' = "refused" /\ bounced # "refused" /\ refresh # None =>
                rows[refresh] = None \/ refresh \in expired]_allVars
  <2>1. ASSUME NEW r \in Req, Answer(r), bounced' = "refused", bounced # "refused", refresh # None
        PROVE  rows[refresh] = None
    <3>1. req[r].pc # "ok" BY <2>1 DEF Answer, At
    <3>2. req[r].pc \in {"unauthorized", "error"} /\ req[r].tok = refresh /\ refresh \in Token
      BY <1>1, <2>1, <3>1 DEF Answer, Reply, WebInv, PageWaits
    <3> QED BY <1>1, <3>2 DEF WebInv, RefusedIsGone
  <2>2. ASSUME bounced' = "refused", bounced # "refused" PROVE \E r \in Req : Answer(r)
    BY <1>1, <2>2 DEF WebNext, SignIn, AccessExpires, Elsewhere, Send, Unauthorized, Unavailable,
                      Bounce, NoAnswer, SignOut, SignedOut, Unheard, Serve, Pass, allVars, webVars
  <2> QED BY <2>1, <2>2
<1> QED BY <1>1, WebInitial, WebStep, PTL DEF WebSpec, RefusedOnlyWhenSpent

-----------------------------------------------------------------------------
(* Registration.  OneAccountEach is not inductive: between the INSERT and  *)
(* the redirect the account belongs to a call that is still on its way.    *)
(* The invariant says whom an account belongs to at every moment.          *)

Pc == {"idle", "edge", "email", "username", "save", "send", "reset", "ok", "error"}

(* The page has an account: its call has inserted it, or it was told so.   *)
Told(p) == step[p] = "login"
Holds(p) == Told(p) \/ call[p].pc \in {"send", "ok"}

SignUpTypeOK ==
  /\ step \in [Page -> {"form", "login", "closed"}]
  /\ call \in [Page -> [pc : Pc, form : Form \cup {NoForm}]]
  /\ \A p \in Page : Told(p) => call[p].pc = "idle"

Unique == \A a, b \in accounts : a # b => a.username # b.username /\ a.email # b.email
HeldExists == \A p \in Page : Holds(p) => call[p].form \in accounts
HeldOnce == \A p, q \in Page : (p # q /\ Holds(p) /\ Holds(q)) => call[p].form # call[q].form

SignUpInv == SignUpTypeOK /\ Unique /\ HeldExists /\ HeldOnce

-----------------------------------------------------------------------------
(* A step after which every page holds what it held, or nothing, while     *)
(* the users table stays as it was, keeps the last three parts.            *)
LEMMA HoldersShrink ==
  ASSUME SignUpInv, accounts' = accounts,
         \A p \in Page : Holds(p)' => Holds(p) /\ call'[p].form = call[p].form
  PROVE  Unique' /\ HeldExists' /\ HeldOnce'
<1>1. Unique'
  BY DEF SignUpInv, Unique
<1>2. HeldExists'
  BY DEF SignUpInv, HeldExists
<1>3. HeldOnce'
  BY DEF SignUpInv, HeldOnce
<1> QED BY <1>1, <1>2, <1>3

(* A call that moves on takes nothing from anyone, unless it moves to      *)
(* where its account is inserted without having inserted it.               *)
LEMMA MoveKeeps ==
  ASSUME SignUpInv, NEW p \in Page, NEW pc \in Pc, call[p].pc # "idle", pc # "idle",
         pc \in {"send", "ok"} => call[p].pc \in {"send", "ok"},
         call' = [call EXCEPT ![p].pc = pc],
         step' = step, accounts' = accounts
  PROVE  SignUpInv'
<1>1. /\ ~Told(p)
      /\ call'[p].pc = pc /\ call'[p].form = call[p].form
      /\ \A q \in Page \ {p} : call'[q] = call[q]
  BY DEF SignUpInv, SignUpTypeOK, Told
<1>2. SignUpTypeOK'
  BY <1>1 DEF SignUpInv, SignUpTypeOK, Told
<1>3. \A q \in Page : Holds(q)' => Holds(q) /\ call'[q].form = call[q].form
  BY <1>1 DEF Holds, Told
<1> QED BY <1>2, <1>3, HoldersShrink DEF SignUpInv

(* So does a step of the breaker, the broker, chat or auth's restart.      *)
LEMMA ElsewhereKeeps ==
  ASSUME SignUpInv, UNCHANGED <<step, call, accounts>>
  PROVE  SignUpInv'
<1>1. SignUpTypeOK'
  BY DEF SignUpInv, SignUpTypeOK, Told
<1>2. \A q \in Page : Holds(q)' => Holds(q) /\ call'[q].form = call[q].form
  BY DEF Holds, Told
<1> QED BY <1>1, <1>2, HoldersShrink DEF SignUpInv

-----------------------------------------------------------------------------
(* The INSERT: the row is new in both columns, so no page holds it yet.    *)
LEMMA SaveKeeps ==
  ASSUME SignUpInv, NEW p \in Page, save(p)
  PROVE  SignUpInv'
<1> DEFINE f == call[p].form
           taken == \E a \in accounts : a.email = f.email \/ a.username = f.username
<1>1. CASE taken
  <2>1. Return(p, "error", TRUE) /\ accounts' = accounts /\ step' = step
    BY <1>1 DEF save
  <2> QED BY <2>1, MoveKeeps DEF Return, save, Pc
<1>2. CASE ~taken
  <2>1. /\ call[p].pc = "save" /\ accounts' = accounts \cup {f}
        /\ call' = [call EXCEPT ![p].pc = "send"] /\ step' = step
    BY <1>2 DEF save
  <2>2. /\ ~Told(p)
        /\ call'[p].pc = "send" /\ call'[p].form = f
        /\ \A q \in Page \ {p} : call'[q] = call[q]
    BY <2>1 DEF SignUpInv, SignUpTypeOK, Told
  <2>3. SignUpTypeOK'
    BY <2>1, <2>2 DEF SignUpInv, SignUpTypeOK, Told, Pc
  <2>4. Unique'
    BY <1>2, <2>1 DEF SignUpInv, Unique
  <2>5. f \notin accounts
    BY <1>2
  <2>6. \A q \in Page \ {p} : Holds(q)' => Holds(q)
    BY <2>1, <2>2 DEF Holds, Told
  <2>7. HeldExists'
    BY <2>1, <2>2, <2>6 DEF SignUpInv, HeldExists
  <2>8. HeldOnce'
    BY <2>1, <2>2, <2>5, <2>6 DEF SignUpInv, HeldExists, HeldOnce
  <2> QED BY <2>3, <2>4, <2>7, <2>8 DEF SignUpInv
<1> QED BY <1>1, <1>2

(* auth dies: the calls it was working on are cut off, and hold nothing.   *)
LEMMA AuthDownKeeps ==
  ASSUME SignUpInv, AuthDown
  PROVE  SignUpInv'
<1>1. /\ step' = step /\ accounts' = accounts
      /\ call' = [p \in Page |-> IF InAuth(p) THEN [call[p] EXCEPT !.pc = "reset"] ELSE call[p]]
  BY DEF AuthDown
<1>2. \A p \in Page : InAuth(p) => call'[p].pc = "reset" /\ call'[p].form = call[p].form
  BY <1>1 DEF SignUpInv, SignUpTypeOK
<1>3. \A p \in Page : ~InAuth(p) => call'[p] = call[p]
  BY <1>1
<1>4. \A p \in Page : InAuth(p) => call[p].pc # "idle"
  BY DEF InAuth
<1>5. SignUpTypeOK'
  <2>1. call' \in [Page -> [pc : Pc, form : Form \cup {NoForm}]]
    BY <1>1 DEF SignUpInv, SignUpTypeOK, Pc
  <2> QED BY <1>1, <1>3, <1>4, <2>1 DEF SignUpInv, SignUpTypeOK, Told
<1>6. \A p \in Page : Holds(p)' => Holds(p) /\ call'[p].form = call[p].form
  BY <1>1, <1>2, <1>3 DEF Holds, Told
<1> QED BY <1>1, <1>5, <1>6, HoldersShrink DEF SignUpInv

(* registerAction ends: a redirected page keeps the account of its call.   *)
LEMMA EndKeeps ==
  ASSUME SignUpInv, NEW p \in Page, registerAction(p)
  PROVE  SignUpInv'
<1>1. CASE /\ call[p].pc = "ok" /\ step[p] # "closed"
           /\ call' = [call EXCEPT ![p].pc = "idle"]
           /\ step' = [step EXCEPT ![p] = "login"]
  <2>1. /\ call'[p].pc = "idle" /\ call'[p].form = call[p].form /\ step'[p] = "login"
        /\ \A q \in Page \ {p} : call'[q] = call[q] /\ step'[q] = step[q]
    BY <1>1 DEF SignUpInv, SignUpTypeOK
  <2>2. SignUpTypeOK'
    BY <1>1, <2>1 DEF SignUpInv, SignUpTypeOK, Told, Pc
  <2>3. \A q \in Page : Holds(q)' => Holds(q) /\ call'[q].form = call[q].form
    BY <1>1, <2>1 DEF Holds, Told
  <2>4. accounts' = accounts
    BY DEF registerAction, authVars
  <2> QED BY <2>2, <2>3, <2>4, HoldersShrink DEF SignUpInv
<1>2. CASE /\ call[p].pc = "error" \/ (call[p].pc = "ok" /\ step[p] = "closed")
           /\ call' = [call EXCEPT ![p] = Idle]
           /\ UNCHANGED step
  <2>1. /\ call'[p] = Idle /\ ~Told(p)
        /\ \A q \in Page \ {p} : call'[q] = call[q]
    BY <1>2 DEF SignUpInv, SignUpTypeOK, Told
  <2>2. SignUpTypeOK'
    BY <1>2, <2>1 DEF SignUpInv, SignUpTypeOK, Told, Pc, Idle
  <2>3. \A q \in Page : Holds(q)' => Holds(q) /\ call'[q].form = call[q].form
    BY <1>2, <2>1 DEF Holds, Told, Idle
  <2>4. accounts' = accounts
    BY DEF registerAction, authVars
  <2> QED BY <2>2, <2>3, <2>4, HoldersShrink DEF SignUpInv
<1> QED BY <1>1, <1>2 DEF registerAction

(* A new call, for a page that is not at the login page.                   *)
LEMMA BeginKeeps ==
  ASSUME SignUpInv, NEW p \in Page, NEW f \in Form, handleCreateAccount(p, f)
  PROVE  SignUpInv'
<1>1. /\ step' = step /\ accounts' = accounts /\ ~Told(p)
      /\ call' = [call EXCEPT ![p] = [pc |-> "edge", form |-> f]]
  BY DEF handleCreateAccount, authVars, Told
<1>2. /\ call'[p].pc = "edge"
      /\ \A q \in Page \ {p} : call'[q] = call[q]
  BY <1>1 DEF SignUpInv, SignUpTypeOK
<1>3. SignUpTypeOK'
  BY <1>1, <1>2 DEF SignUpInv, SignUpTypeOK, Told, Pc
<1>4. \A q \in Page : Holds(q)' => Holds(q) /\ call'[q].form = call[q].form
  BY <1>1, <1>2 DEF Holds, Told
<1> QED BY <1>1, <1>3, <1>4, HoldersShrink DEF SignUpInv

(* The window closes; it was not at the login page.                        *)
LEMMA CancelKeeps ==
  ASSUME SignUpInv, NEW p \in Page, Cancelled(p)
  PROVE  SignUpInv'
<1>1. /\ call' = call /\ accounts' = accounts /\ step' = [step EXCEPT ![p] = "closed"]
  BY DEF Cancelled, authVars
<1>2. step'[p] = "closed" /\ \A q \in Page \ {p} : step'[q] = step[q]
  BY <1>1 DEF SignUpInv, SignUpTypeOK
<1>3. SignUpTypeOK'
  BY <1>1, <1>2 DEF SignUpInv, SignUpTypeOK, Told
<1>4. \A q \in Page : Holds(q)' => Holds(q) /\ call'[q].form = call[q].form
  BY <1>1, <1>2 DEF Holds, Told
<1> QED BY <1>1, <1>3, <1>4, HoldersShrink DEF SignUpInv

-----------------------------------------------------------------------------
LEMMA PageStepsKeep ==
  ASSUME SignUpInv, NEW p \in Page, PageSteps(p)
  PROVE  SignUpInv'
<1>1. CASE RoundTrip(p)
  <2>1. PICK pc \in {"email", "error"} : call' = [call EXCEPT ![p].pc = pc]
    BY <1>1 DEF RoundTrip
  <2> QED BY <1>1, <2>1, MoveKeeps DEF RoundTrip, authVars, Pc
<1>2. CASE existsByEmail(p)
  <2>1. PICK pc \in {"username", "error"} : call' = [call EXCEPT ![p].pc = pc]
    BY <1>2 DEF existsByEmail, Return
  <2> QED BY <1>2, <2>1, MoveKeeps DEF existsByEmail, authVars, Pc
<1>3. CASE existsByUsername(p)
  <2>1. PICK pc \in {"save", "error"} : call' = [call EXCEPT ![p].pc = pc]
    BY <1>3 DEF existsByUsername, Return
  <2> QED BY <1>3, <2>1, MoveKeeps DEF existsByUsername, authVars, Pc
<1>4. CASE save(p)
  BY <1>4, SaveKeeps
<1>5. CASE send(p)
  <2>1. PICK pc \in {"ok", "error"} : call' = [call EXCEPT ![p].pc = pc]
    BY <1>5 DEF send, Return
  <2> QED BY <1>5, <2>1, MoveKeeps DEF send, Pc
<1>6. CASE UpstreamError(p)
  <2>1. /\ call' = [call EXCEPT ![p].pc = "error"] /\ step' = step /\ accounts' = accounts
        /\ call[p].pc # "idle"
    BY <1>6 DEF UpstreamError, Return, InAuth, authVars
  <2> QED BY <2>1, MoveKeeps DEF Pc
<1>7. CASE registerAction(p)
  BY <1>7, EndKeeps
<1> QED BY <1>1, <1>2, <1>3, <1>4, <1>5, <1>6, <1>7 DEF PageSteps

LEMMA SignUpInvInit == SignUpInit => SignUpInv
<1> SUFFICES ASSUME SignUpInit PROVE SignUpInv
  OBVIOUS
<1>1. /\ step = [p \in Page |-> "form"] /\ call = [p \in Page |-> Idle] /\ accounts = {}
  BY DEF SignUpInit
<1>2. SignUpTypeOK
  BY <1>1 DEF SignUpTypeOK, Told, Pc, Idle
<1>3. \A p \in Page : ~Holds(p)
  BY <1>1 DEF Holds, Told, Idle
<1> QED BY <1>1, <1>2, <1>3 DEF SignUpInv, Unique, HeldExists, HeldOnce

LEMMA SignUpInvStep == SignUpInv /\ [SignUpNext]_signUpVars => SignUpInv'
<1> SUFFICES ASSUME SignUpInv, [SignUpNext]_signUpVars PROVE SignUpInv'
  OBVIOUS
<1>1. CASE AuthDown
  BY <1>1, AuthDownKeeps
<1>2. CASE AuthRestarts \/ OtherTraffic \/ OpenTimeout \/ Consume \/ AutoCommit \/ ChatRestarts
  <2>1. UNCHANGED <<step, call, accounts>>
    BY <1>2 DEF AuthRestarts, OtherTraffic, OpenTimeout, Consume, AutoCommit, ChatRestarts, authVars
  <2> QED BY <2>1, ElsewhereKeeps
<1>3. CASE \E a \in Form : Publish(a)
  <2>1. UNCHANGED <<step, call, accounts>>
    BY <1>3 DEF Publish
  <2> QED BY <2>1, ElsewhereKeeps
<1>4. ASSUME NEW p \in Page, PageSteps(p)
      PROVE  SignUpInv'
  BY <1>4, PageStepsKeep
<1>5. ASSUME NEW p \in Page, Cancelled(p)
      PROVE  SignUpInv'
  BY <1>5, CancelKeeps
<1>6. ASSUME NEW p \in Page, LoseAnswer(p)
      PROVE  SignUpInv'
  <2>1. /\ call' = [call EXCEPT ![p].pc = "error"] /\ step' = step /\ accounts' = accounts
        /\ call[p].pc # "idle"
    BY <1>6 DEF LoseAnswer, authVars
  <2> QED BY <2>1, MoveKeeps DEF Pc
<1>7. ASSUME NEW p \in Page, NEW f \in Form, handleCreateAccount(p, f)
      PROVE  SignUpInv'
  BY <1>7, BeginKeeps
<1>8. CASE UNCHANGED signUpVars
  <2>1. UNCHANGED <<step, call, accounts>>
    BY <1>8 DEF signUpVars, authVars
  <2> QED BY <2>1, ElsewhereKeeps
<1> QED BY <1>1, <1>2, <1>3, <1>4, <1>5, <1>6, <1>7, <1>8 DEF SignUpNext

(* Every username and email is given once: two accounts never share one, a *)
(* page that was redirected has the account it asked for and no other page *)
(* was told so of it, however the checks of registerUser, its INSERT,      *)
(* outages and lost answers interleave.  The UNIQUE columns carry this;    *)
(* the two checks before the INSERT do not.                                *)
THEOREM AccountsAreUnique == SignUpSpec => []OneAccountEach
<1>1. SignUpInv => OneAccountEach
  <2> SUFFICES ASSUME SignUpInv PROVE OneAccountEach
    OBVIOUS
  <2>1. \A p \in Page : step[p] = "login" => Holds(p)
    BY DEF Holds, Told
  <2> QED BY <2>1 DEF SignUpInv, Unique, HeldExists, HeldOnce, OneAccountEach
<1> QED BY <1>1, SignUpInvInit, SignUpInvStep, PTL DEF SignUpSpec
=============================================================================

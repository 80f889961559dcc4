----------------------------- MODULE WebSession -----------------------------
(***************************************************************************)
(* The web app's silent token refresh (app/lib/api.ts, apiFetch) against   *)
(* the auth service.  The components of a page call apiFetch concurrently  *)
(* and share the tokens in localStorage; each call uses one request slot.  *)
(***************************************************************************)
EXTENDS RefreshTokens

CONSTANTS
  MaxExpiries,   \* bound: access tokens that run out (15 minutes)
  Others         \* do other clients use the accounts and tokens too?

ASSUME WebAssumption == MaxExpiries \in Nat /\ Others \in BOOLEAN

VARIABLES
  access,    \* localStorage access_token: "valid", "stale" or "none"
  refresh,   \* localStorage refresh_token, or None
  fetch,     \* slot -> where its apiFetch call is
  expiries,  \* access tokens that have run out
  bounced    \* why the page was sent to /login: "refused" by auth, "outage", or "no"

webVars == <<access, refresh, fetch, expiries, bounced>>
allVars == <<vars, webVars>>

WebInit ==
  /\ Init
  /\ access = "none" /\ refresh = None
  /\ fetch = [r \in Req |-> "idle"]
  /\ expiries = 0 /\ bounced = "no"

-----------------------------------------------------------------------------
(* The browser loads another page: the calls of the old one are dropped    *)
(* (the server still completes what it received).                          *)
Navigate == fetch' = [r \in Req |-> "idle"]

(* loginAction stores both tokens and opens the app.                       *)
SignIn(u, t) ==
  /\ refresh = None /\ access = "none"
  /\ Login(u, t)
  /\ access' = "valid" /\ refresh' = t /\ bounced' = "no"
  /\ Navigate
  /\ UNCHANGED expiries

ForgetTokens == access' = "none" /\ refresh' = None

AccessExpires ==
  /\ access = "valid" /\ expiries < MaxExpiries
  /\ access' = "stale" /\ expiries' = expiries + 1
  /\ UNCHANGED <<vars, refresh, fetch, bounced>>

(* apiFetch sends a request with an access token that has run out.  (One   *)
(* with a valid token is answered and changes nothing.)                    *)
Send(r) ==
  /\ fetch[r] = "idle" /\ At(r, "free") /\ access = "stale"
  /\ fetch' = [fetch EXCEPT ![r] = "sent"]
  /\ UNCHANGED <<vars, access, refresh, expiries, bounced>>

(* The 401 comes back: refresh with the stored token, if there is one.     *)
Unauthorized(r) ==
  /\ fetch[r] = "sent"
  /\ IF refresh = None
       THEN fetch' = [fetch EXCEPT ![r] = "idle"] /\ UNCHANGED vars
       ELSE fetch' = [fetch EXCEPT ![r] = "refreshing"] /\ RefreshCall(r, refresh)
  /\ UNCHANGED <<access, refresh, expiries, bounced>>

(* Anything but refreshRes.ok: the tokens are removed, and /login opens.   *)
Bounce(why) == ForgetTokens /\ bounced' = why /\ Navigate

(* Mutant: the rotated refresh token of the answer is stored as well.      *)
AnswerRotates(r) ==
  /\ fetch[r] = "refreshing"
  /\ \/ /\ At(r, "ok")
        /\ \E t \in Token : family[t] = family[req[r].tok] /\ rows[t] # None /\ refresh' = t
        /\ access' = "valid" /\ UNCHANGED bounced
        /\ fetch' = [fetch EXCEPT ![r] = "idle"]
     \/ ~At(r, "ok") /\ Bounce("refused")
  /\ Reply(r)
  /\ UNCHANGED expiries

(* auth answers.  refreshRes.ok: the new access token is stored (the       *)
(* rotated refresh token in the same answer is not) and the request        *)
(* retried.                                                                *)
Answer(r) ==
  /\ fetch[r] = "refreshing"
  /\ IF At(r, "ok")
       THEN /\ access' = "valid" /\ UNCHANGED <<refresh, bounced>>
            /\ fetch' = [fetch EXCEPT ![r] = "idle"]
       ELSE Bounce("refused")
  /\ Reply(r)
  /\ UNCHANGED expiries

(* The gateway answers for auth: 503, because the breaker is open, or the  *)
(* replica or its connection is gone; or a database error ends the request *)
(* in auth.  None of them is refreshRes.ok.  What auth has of the request  *)
(* goes on, or dies, unheard.                                              *)
Unavailable(r) ==
  /\ Crashes
  /\ fetch[r] = "refreshing"
  /\ Bounce("outage")
  /\ UNCHANGED <<vars, expiries>>

(* The connection to the gateway fails: fetch throws, and the error is     *)
(* ignored.  Again the request may go on unheard.                          *)
NoAnswer(r) ==
  /\ Crashes
  /\ fetch[r] = "refreshing"
  /\ fetch' = [fetch EXCEPT ![r] = "idle"]
  /\ UNCHANGED <<vars, access, refresh, expiries, bounced>>

(* logoutAction: DELETE /auth/logout.  With an access token that has run   *)
(* out the server refuses it, which logoutAction does not look at.         *)
SignOut(r) ==
  /\ fetch[r] = "idle" /\ At(r, "free") /\ refresh # None
  /\ IF access = "valid"
       THEN LogoutCall(r, family[refresh][1])
       ELSE UNCHANGED vars
  /\ fetch' = [fetch EXCEPT ![r] = "leaving"]
  /\ UNCHANGED <<access, refresh, expiries, bounced>>

(* Answered, refused or failed, the tokens are removed.                    *)
SignedOut(r) ==
  /\ fetch[r] = "leaving"
  /\ Reply(r) \/ ((At(r, "free") \/ Crashes) /\ UNCHANGED vars)
  /\ ForgetTokens /\ Navigate
  /\ UNCHANGED <<expiries, bounced>>

(* A request whose page is gone ends without anyone noticing.              *)
Unheard(r) ==
  /\ fetch[r] = "idle"
  /\ Reply(r) \/ Crash(r)
  /\ UNCHANGED webVars

(* Another device, or another holder of a token, calls the auth service.   *)
Elsewhere ==
  /\ Others
  /\ \/ \E u \in User, t \in Token : Login(u, t)
     \/ \E r \in Req :
          /\ fetch[r] = "idle"
          /\ \/ \E t \in Token : RefreshCall(r, t)
             \/ \E u \in User : LogoutCall(r, u)
  /\ UNCHANGED webVars

Serve(r) == ServerStep(r) /\ UNCHANGED webVars

Pass(t) == Expire(t) /\ UNCHANGED webVars

WebNext ==
  \/ \E u \in User, t \in Token : SignIn(u, t)
  \/ AccessExpires
  \/ Elsewhere
  \/ \E r \in Req :
       \/ Send(r) \/ Unauthorized(r) \/ Answer(r) \/ Unavailable(r) \/ NoAnswer(r)
       \/ SignOut(r) \/ SignedOut(r) \/ Unheard(r) \/ Serve(r)
  \/ \E t \in Token : Pass(t)

WebSpec == WebInit /\ [][WebNext]_allVars

-----------------------------------------------------------------------------
(* When auth refuses a page's refresh and the page is sent to /login for   *)
(* it, the token then in localStorage is of no use any more: the page does *)
(* not lose a session because several of its calls refresh one token at a  *)
(* time, another tab or device used it, or an answer was lost.  (It does   *)
(* lose a good one to an outage: apiFetch takes a 503 for a refusal.)      *)
RefusedOnlyWhenSpent ==
  [][bounced' = "refused" /\ bounced # "refused" /\ refresh # None =>
       rows[refresh] = None \/ refresh \in expired]_allVars
=============================================================================

--------------------------- MODULE GatewaySessions ---------------------------
(***************************************************************************)
(* The gateway's WebSocket connections (services/gateway/ws/handler.go)    *)
(* composed with the presence service they are registered with.            *)
(*                                                                         *)
(* Each connection has a goroutine running ServeHTTP: it registers, reads  *)
(* client messages one at a time, each (un)subscription re-registering the *)
(* whole channel set, and deregisters when the socket ends.  Its calls to  *)
(* presence are synchronous with a 5 s timeout; a call that timed out may  *)
(* still be running in presence.  A second goroutine sends heartbeats.     *)
(* Connection ids are <hostname>-<seq>; hostnames are fixed in the compose *)
(* files and seq restarts at 1 with the process.                           *)
(***************************************************************************)
EXTENDS Presence

CONSTANTS
  Instance,     \* gateway replicas (hostnames)
  MaxSeq,       \* bound: connections one process accepts
  MaxCrashes,   \* bound: gateway processes that die and restart
  NoReq         \* no call to presence in progress

ASSUME GatewayAssumption ==
  /\ MaxSeq \in Nat /\ MaxCrashes \in Nat
  /\ Conn = Instance \X (1..MaxSeq)
  /\ NoReq \notin Req

VARIABLES
  seq,      \* instance -> Handler.seq
  crashes,  \* process deaths so far
  stage,    \* conn -> where its ServeHTTP goroutine is
  owner,    \* conn -> claims.UserID
  subs,     \* conn -> Handler.subs[conn]
  call,     \* conn -> the read loop's call in progress
  beat,     \* conn -> the heartbeat goroutine's call in progress
  due,      \* connections whose heartbeat ticker has fired
  slow      \* connections whose call was already in progress at the last tick

connVars == <<seq, crashes, stage, owner, subs>>
gatewayVars == <<connVars, call, beat, due, slow>>
vars == <<presenceVars, gatewayVars>>

Stages == {"none", "registering", "open", "updating", "closing", "gone", "abandoned"}

(* Handler.conns holds a connection until deregisterSession has returned.  *)
Held(c) == stage[c] \in {"registering", "open", "updating", "closing"}

Init ==
  /\ PresenceInit
  /\ seq = [g \in Instance |-> 0]
  /\ crashes = 0
  /\ stage = [c \in Conn |-> "none"]
  /\ owner = [c \in Conn |-> NoSession]
  /\ subs = [c \in Conn |-> {}]
  /\ call = [c \in Conn |-> NoReq]
  /\ beat = [c \in Conn |-> NoReq]
  /\ due = {}
  /\ slow = {}

-----------------------------------------------------------------------------
(* The read loop of c calls presence.                                      *)
Call(c, pc, body) ==
  \E r \in Req : /\ Accept(r, pc, c, body)
                 /\ call' = [call EXCEPT ![c] = r]
                 /\ UNCHANGED <<redisVars, query>>

(* ServeHTTP: a socket is upgraded, entered in conns and subs, and         *)
(* registered with no channels.                                            *)
Connect(g, u) ==
  /\ seq[g] < MaxSeq
  /\ LET c == <<g, seq[g] + 1>>
     IN /\ seq' = [seq EXCEPT ![g] = @ + 1]
        /\ stage' = [stage EXCEPT ![c] = "registering"]
        /\ owner' = [owner EXCEPT ![c] = u]
        /\ subs' = [subs EXCEPT ![c] = {}]
        /\ Call(c, "reg_read", [user |-> u, chans |-> {}])
  /\ UNCHANGED <<crashes, beat, due, slow>>

(* updateSubscription, called by dispatch for channel.subscribe and        *)
(* channel.unsubscribe: change the set, register all of it.                *)
UpdateSubscription(c, chans) ==
  /\ stage[c] = "open"
  /\ stage' = [stage EXCEPT ![c] = "updating"]
  /\ subs' = [subs EXCEPT ![c] = chans]
  /\ Call(c, "reg_read", [user |-> owner[c], chans |-> chans])
  /\ UNCHANGED <<seq, crashes, owner, beat, due, slow>>

Subscribe(c, ch) == UpdateSubscription(c, subs[c] \cup {ch})
Unsubscribe(c, ch) == UpdateSubscription(c, subs[c] \ {ch})

(* The read loop ends: hbCancel first, then deregisterSession.             *)
Close(c) ==
  /\ stage[c] = "open"
  /\ stage' = [stage EXCEPT ![c] = "closing"]
  /\ beat' = [beat EXCEPT ![c] = NoReq]
  /\ due' = due \ {c}
  /\ Call(c, "dereg_read", NoSession)
  /\ UNCHANGED <<seq, crashes, owner, subs, slow>>

(* What the goroutine does when its call is over, whatever the outcome:    *)
(* registerSession's error is logged or told to the client and does not    *)
(* change the state; after deregisterSession conns and subs are emptied.   *)
(* (end: "gone" if the DELETE was answered, "abandoned" if it timed out.)  *)
Resume(c, end) ==
  /\ call' = [call EXCEPT ![c] = NoReq]
  /\ slow' = slow \ {c}
  /\ IF stage[c] = "closing"
       THEN /\ stage' = [stage EXCEPT ![c] = end]
            /\ subs' = [subs EXCEPT ![c] = {}]
       ELSE /\ stage' = [stage EXCEPT ![c] = "open"]
            /\ UNCHANGED subs
  /\ UNCHANGED <<seq, crashes, owner, beat, due>>

Return(c) ==
  /\ call[c] # NoReq /\ At(call[c], "done")
  /\ Release(call[c])
  /\ Resume(c, "gone")

(* The 5 s client timeout: the request is left behind in presence.         *)
Timeout(c) ==
  /\ Faults
  /\ call[c] # NoReq
  /\ Resume(c, "abandoned")
  /\ UNCHANGED presenceVars

(* runHeartbeats: one call per tick, its answer (404 too) ignored.         *)
SendHeartbeat(c) ==
  /\ c \in due
  /\ due' = due \ {c}
  /\ \E r \in Req : Accept(r, "hb_exists", c, NoSession) /\ beat' = [beat EXCEPT ![c] = r]
  /\ UNCHANGED <<redisVars, query, connVars, call, slow>>

EndHeartbeat(c) ==
  /\ beat[c] # NoReq
  /\ \/ Release(beat[c])
     \/ Faults /\ UNCHANGED presenceVars
  /\ beat' = [beat EXCEPT ![c] = NoReq]
  /\ UNCHANGED <<connVars, call, due, slow>>

(* The heartbeat never reaches presence.                                   *)
LoseHeartbeat(c) ==
  /\ Faults
  /\ c \in due
  /\ due' = due \ {c}
  /\ UNCHANGED <<presenceVars, connVars, call, beat, slow>>

(* A gateway process dies and its container restarts under the same        *)
(* hostname: no deferred function runs, seq starts again.                  *)
Crash(g) ==
  /\ crashes < MaxCrashes
  /\ crashes' = crashes + 1
  /\ seq' = [seq EXCEPT ![g] = 0]
  /\ LET clear(f, v) == [c \in Conn |-> IF c[1] = g THEN v ELSE f[c]]
     IN /\ stage' = clear(stage, "none")
        /\ owner' = clear(owner, NoSession)
        /\ subs' = clear(subs, {})
        /\ call' = clear(call, NoReq)
        /\ beat' = clear(beat, NoReq)
        /\ due' = {c \in due : c[1] # g}
        /\ slow' = {c \in slow : c[1] # g}
  /\ UNCHANGED presenceVars

(* Presence answers a caller that is no longer there.                      *)
Orphan(r) == \A c \in Conn : call[c] # r /\ beat[c] # r
Reap(r) == Orphan(r) /\ Release(r) /\ UNCHANGED gatewayVars

(* Mutant: hbCancel is forgotten, heartbeats go on after the end.          *)
TickUncancelled ==
  /\ due = {} /\ \A c \in Conn : beat[c] = NoReq
  /\ slow = {}
  /\ slow' = {c \in Conn : call[c] # NoReq}
  /\ Elapse
  /\ due' = {c \in Conn : stage[c] # "none"}
  /\ UNCHANGED <<connVars, call, beat>>

(* Two minutes pass, TTLs go down and the tickers fire.  Calls time out    *)
(* after 5 s: by now each heartbeat of the previous tick has been tried    *)
(* and no call lasts from one tick to the next.                            *)
Tick ==
  /\ due = {} /\ \A c \in Conn : beat[c] = NoReq
  /\ slow = {}
  /\ slow' = {c \in Conn : call[c] # NoReq}
  /\ Elapse
  /\ due' = {c \in Conn : stage[c] \in {"open", "updating"}}
  /\ UNCHANGED <<connVars, call, beat>>

(* The chat service asks who is subscribed; anyone may ask who is online.  *)
Ask(q) == (QueryEnd(q) \/ \E k \in Key : QueryStart(q, k)) /\ UNCHANGED gatewayVars

PresenceStep ==
  /\ \/ \E r \in Req : RequestStep(r)
     \/ \E q \in Query : QueryStep(q)
  /\ UNCHANGED gatewayVars

PresenceAbort == (\E r \in Req : Abort(r)) /\ UNCHANGED gatewayVars

Next ==
  \/ \E g \in Instance : Crash(g) \/ \E u \in User : Connect(g, u)
  \/ \E c \in Conn :
       \/ Close(c) \/ Return(c) \/ Timeout(c)
       \/ SendHeartbeat(c) \/ EndHeartbeat(c) \/ LoseHeartbeat(c)
       \/ \E ch \in Channel : Subscribe(c, ch) \/ Unsubscribe(c, ch)
  \/ \E r \in Req : Reap(r)
  \/ \E q \in Query : Ask(q)
  \/ PresenceStep
  \/ PresenceAbort
  \/ Tick

Spec == Init /\ [][Next]_vars

(* Processes keep running: presence serves what it accepted, callers go on *)
(* after an answer, tickers fire, and time passes.  Nothing obliges a      *)
(* client to connect, subscribe or close.                                  *)
Fairness ==
  /\ WF_vars(PresenceStep)
  /\ WF_vars(Tick)
  /\ \A r \in Req : WF_vars(Reap(r))
  /\ \A c \in Conn : WF_vars(Return(c)) /\ WF_vars(EndHeartbeat(c))
                     /\ WF_vars(SendHeartbeat(c) \/ LoseHeartbeat(c))

FairSpec == Spec /\ Fairness

-----------------------------------------------------------------------------
(* With no failures: while a connection's goroutine is between two         *)
(* messages, presence holds exactly its user and Handler.subs, and indexes *)
(* it under those keys and no others, so that a query for a channel finds  *)
(* it if and only if the client is subscribed.                             *)
SettledAgrees ==
  \A c \in Conn : stage[c] = "open" =>
    /\ sess[c] = [user |-> owner[c], chans |-> subs[c]]
    /\ \A k \in Key : c \in index[k] <=> k \in KeysOf(sess[c])

(* With no failures: a connection that has gone leaves nothing behind, in  *)
(* the hash or in any index set, although heartbeats and re-registrations  *)
(* were in flight around its end.                                          *)
GoneIsForgotten ==
  \A c \in Conn : stage[c] = "gone" =>
    sess[c] = NoSession /\ \A k \in Key : c \notin index[k]

(* With no failures: a query never answers with a connection that had gone *)
(* before its second round trip, although it may still have been in the    *)
(* index set that the first one read.                                      *)
QueryDropsGone ==
  [][\A q \in Query :
       query[q] # Free /\ query[q].pc = "filter" /\ query'[q].pc = "done"
         => \A c \in query'[q].conns : Held(c)]_vars

(* The heartbeats keep the hash of an open connection from expiring:       *)
(* two-minute beats against a thirty-minute TTL.                           *)
OpenSurvivesTTL ==
  \A c \in Conn : stage[c] \in {"open", "updating"} => sess[c] # NoSession

(* A session whose connection is gone, or whose gateway died, disappears   *)
(* in the end whatever was lost: heartbeats stop, so the TTL runs out.     *)
GhostsExpire ==
  \A c \in Conn : ~Held(c) ~> (sess[c] = NoSession \/ Held(c))
=============================================================================

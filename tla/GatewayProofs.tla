---------------------------- MODULE GatewayProofs ----------------------------
(***************************************************************************)
(* Proofs about the presence service and the gateways that use it, for any *)
(* number of replicas, connections, users, channels and concurrent         *)
(* requests.  First what presence keeps whatever its clients ask; then     *)
(* that the gateways use it as its specification allows, so that all this  *)
(* holds of the system they form; last, what the two agree on when nothing *)
(* fails.                                                                  *)
(***************************************************************************)
EXTENDS GatewaySessions, TLAPS

(* The presence service.                                                   *)

(* A hash read from Redis (or taken for missing) is a Hash.                *)
LEMMA HGetAllType ==
  ASSUME PresenceTypeOK, NEW c \in Conn
  PROVE  HGetAll(c) \subseteq Hash
BY DEF PresenceTypeOK, HGetAll, Hash

(* The keys of a hash are keys of the index, and its channels are some of  *)
(* them.                                                                   *)
LEMMA KeysType ==
  ASSUME NEW h \in Hash
  PROVE  /\ KeysOf(h) \subseteq Key
         /\ ChansOf(h) \subseteq Channel
         /\ ChansOf(h) \subseteq KeysOf(h)
BY PresenceAssumption DEF Hash, Session, KeysOf, ChansOf, Key

(* SREM and SADD keep the index well typed.                                *)
LEMMA IndexOpsType ==
  ASSUME NEW idx \in [Key -> SUBSET Conn], NEW keys, NEW c \in Conn
  PROVE  /\ SRem(idx, keys, c) \in [Key -> SUBSET Conn]
         /\ SAdd(idx, keys, c) \in [Key -> SUBSET Conn]
BY DEF SRem, SAdd

(* A request being handled is a well-formed request.                       *)
LEMMA RequestType ==
  ASSUME PresenceTypeOK, NEW r \in Req, req[r] # Free
  PROVE  /\ req[r] \in Request
         /\ req[r].conn \in Conn /\ req[r].body \in Hash /\ req[r].prev \in Hash
BY DEF PresenceTypeOK, Request

(* A slot that moves on to another stage keeps its type.                   *)
LEMMA GotoType ==
  ASSUME PresenceTypeOK, NEW r \in Req, req[r] # Free,
         NEW pc \in {"reg_read", "reg_clean", "reg_write", "dereg_read", "dereg_wipe",
                     "hb_exists", "hb_expire", "done"},
         Goto(r, pc)
  PROVE  req' \in [Req -> Request \cup {Free}]
BY RequestType DEF PresenceTypeOK, Goto, Request

-----------------------------------------------------------------------------
(* Every step of the service keeps the types. *)
LEMMA TypeStep == PresenceTypeOK /\ [PresenceNext]_presenceVars => PresenceTypeOK'
<1> SUFFICES ASSUME PresenceTypeOK, [PresenceNext]_presenceVars
             PROVE  PresenceTypeOK'
    OBVIOUS
<1> USE PresenceAssumption
<1>1. ASSUME NEW r \in Req, Arrive(r) PROVE PresenceTypeOK'
  <2>1. PICK c \in Conn, body \in Hash,
             pc \in {"reg_read", "dereg_read", "hb_exists"} : Accept(r, pc, c, body)
        BY <1>1 DEF Arrive, Hash
  <2>2. [pc |-> pc, conn |-> c, body |-> body, prev |-> NoSession] \in Request
        BY DEF Request, Hash
  <2> QED BY <1>1, <2>1, <2>2 DEF Arrive, Accept, PresenceTypeOK, redisVars
<1>2. ASSUME NEW r \in Req, RegisterRead(r) \/ DeregisterRead(r) PROVE PresenceTypeOK'
  <2>1. /\ req[r] # Free
        /\ UNCHANGED <<sess, ttl, index, query, torn>>
        BY <1>2 DEF RegisterRead, DeregisterRead, At, redisVars
  <2>2. req[r].conn \in Conn BY <2>1, RequestType
  <2>3. PICK prev \in HGetAll(req[r].conn),
             pc \in {"reg_write", "reg_clean", "done", "dereg_wipe"} :
               req' = [req EXCEPT ![r].prev = prev, ![r].pc = pc]
        BY <1>2 DEF RegisterRead, DeregisterRead
  <2>4. prev \in Hash BY <2>2, HGetAllType
  <2> QED BY <2>1, <2>3, <2>4, RequestType DEF PresenceTypeOK, Request
<1>3. ASSUME NEW r \in Req, RegisterClean(r) PROVE PresenceTypeOK'
  <2>1. req[r] # Free BY <1>3 DEF RegisterClean, At
  <2>2. index' \in [Key -> SUBSET Conn]
        BY <1>3, <2>1, RequestType, IndexOpsType DEF RegisterClean, PresenceTypeOK
  <2>3. req' \in [Req -> Request \cup {Free}]
        BY <1>3, <2>1, GotoType DEF RegisterClean
  <2> QED BY <1>3, <2>2, <2>3 DEF RegisterClean, PresenceTypeOK
<1>4. ASSUME NEW r \in Req, RegisterWrite(r) PROVE PresenceTypeOK'
  <2>1. req[r] # Free BY <1>4 DEF RegisterWrite, At
  <2>2. index' \in [Key -> SUBSET Conn]
        BY <1>4, <2>1, RequestType, IndexOpsType DEF RegisterWrite, PresenceTypeOK
  <2>3. req' \in [Req -> Request \cup {Free}]
        BY <1>4, <2>1, GotoType DEF RegisterWrite
  <2>4. sess' \in [Conn -> Hash] /\ ttl' \in [Conn -> 0..TTL] /\ torn' \in SUBSET Conn
        BY <1>4, <2>1, RequestType DEF RegisterWrite, PresenceTypeOK
  <2> QED BY <1>4, <2>2, <2>3, <2>4 DEF RegisterWrite, PresenceTypeOK
<1>5. ASSUME NEW r \in Req, DeregisterWipe(r) PROVE PresenceTypeOK'
  <2>1. req[r] # Free BY <1>5 DEF DeregisterWipe, At
  <2>2. index' \in [Key -> SUBSET Conn]
        BY <1>5, <2>1, RequestType, IndexOpsType DEF DeregisterWipe, PresenceTypeOK
  <2>3. req' \in [Req -> Request \cup {Free}]
        BY <1>5, <2>1, GotoType DEF DeregisterWipe
  <2>4. sess' \in [Conn -> Hash] /\ ttl' \in [Conn -> 0..TTL]
        BY <1>5, <2>1, RequestType DEF DeregisterWipe, PresenceTypeOK, Hash
  <2> QED BY <1>5, <2>2, <2>3, <2>4 DEF DeregisterWipe, PresenceTypeOK
<1>6. ASSUME NEW r \in Req, HeartbeatExists(r) \/ HeartbeatExpire(r) PROVE PresenceTypeOK'
  <2>1. req[r] # Free BY <1>6 DEF HeartbeatExists, HeartbeatExpire, At
  <2>2. req' \in [Req -> Request \cup {Free}]
        BY <1>6, <2>1, GotoType DEF HeartbeatExists, HeartbeatExpire
  <2>3. ttl' \in [Conn -> 0..TTL]
        BY <1>6, <2>1, RequestType
        DEF HeartbeatExists, HeartbeatExpire, PresenceTypeOK, redisVars
  <2> QED BY <1>6, <2>2, <2>3 DEF HeartbeatExists, HeartbeatExpire, PresenceTypeOK, redisVars
<1>7. ASSUME NEW r \in Req, Abort(r) PROVE PresenceTypeOK'
  <2>1. req' \in [Req -> Request \cup {Free}] BY <1>7, GotoType DEF Abort
  <2> QED BY <1>7, <2>1, RequestType DEF Abort, PresenceTypeOK
<1>8. ASSUME NEW r \in Req, Release(r) PROVE PresenceTypeOK'
      BY <1>8 DEF Release, PresenceTypeOK, redisVars
<1>9. ASSUME NEW q \in Query, QueryStep(q) \/ QueryEnd(q) \/ \E k \in Key : QueryStart(q, k)
      PROVE  PresenceTypeOK'
  <2>1. CASE QueryMembers(q)
    <3>1. query[q] \in Lookup /\ query[q].key \in Key
          BY <2>1 DEF QueryMembers, PresenceTypeOK, Lookup
    <3> QED BY <2>1, <3>1 DEF QueryMembers, PresenceTypeOK, redisVars, Lookup
  <2>2. CASE QueryFilter(q)
    <3>1. query[q] \in Lookup /\ Live(query[q].conns) \subseteq Conn
          BY <2>2 DEF QueryFilter, PresenceTypeOK, Lookup, Live
    <3> QED BY <2>2, <3>1 DEF QueryFilter, PresenceTypeOK, redisVars, Lookup
  <2>3. CASE QueryEnd(q) BY <2>3 DEF QueryEnd, PresenceTypeOK, redisVars
  <2>4. CASE \E k \in Key : QueryStart(q, k)
        BY <2>4 DEF QueryStart, PresenceTypeOK, redisVars, Lookup
  <2> QED BY <1>9, <2>1, <2>2, <2>3, <2>4 DEF QueryStep
<1>10. CASE Elapse BY <1>10 DEF Elapse, PresenceTypeOK, Hash
<1>11. CASE UNCHANGED presenceVars BY <1>11 DEF presenceVars, PresenceTypeOK
<1> QED BY <1>1, <1>2, <1>3, <1>4, <1>5, <1>6, <1>7, <1>8, <1>9, <1>10, <1>11
        DEF PresenceNext, RequestStep

(* The registry's variables keep their types under any requests.           *)
THEOREM PresenceTypeCorrect == PresenceSpec => []PresenceTypeOK
<1>1. PresenceInit => PresenceTypeOK
      BY PresenceAssumption DEF PresenceInit, PresenceTypeOK, Hash
<1> QED BY <1>1, TypeStep, PTL DEF PresenceSpec

-----------------------------------------------------------------------------
(* A session that exists is indexed: of its user unconditionally, of each  *)
(* channel unless a register of the connection is between its pipelines.   *)
(* The invariant is inductive given the types.                             *)
LEMMA CoverStep ==
  PresenceTypeOK /\ IndexCovers /\ [PresenceNext]_presenceVars => IndexCovers'
<1> SUFFICES ASSUME PresenceTypeOK, IndexCovers, [PresenceNext]_presenceVars,
                    NEW c \in Conn, sess'[c] # NoSession
             PROVE  /\ c \in index'[sess'[c].user]
                    /\ \A ch \in sess'[c].chans :
                         c \in index'[ch] \/ Rewriting(c, ch)' \/ c \in torn'
    BY DEF IndexCovers
<1> DEFINE Good == /\ c \in index'[sess'[c].user]
                   /\ \A ch \in sess'[c].chans :
                        c \in index'[ch] \/ Rewriting(c, ch)' \/ c \in torn'
<1>a. sess[c] # NoSession =>
        /\ sess[c] \in Session
        /\ sess[c].user \in Key /\ sess[c].chans \subseteq Channel
        /\ Channel \subseteq Key
        /\ sess[c].user \notin Channel
        /\ c \in index[sess[c].user]
        /\ \A ch \in sess[c].chans : c \in index[ch] \/ Rewriting(c, ch) \/ c \in torn
      BY PresenceAssumption DEF PresenceTypeOK, IndexCovers, Hash, Session, Key
(* Steps that touch neither Redis nor a register about to write.           *)
<1>1. ASSUME UNCHANGED <<index, torn>>,
             sess'[c] = sess[c],
             \A r \in Req : At(r, "reg_write") => req'[r] = req[r]
      PROVE  Good
  <2>1. \A ch : Rewriting(c, ch) => Rewriting(c, ch)'
        BY <1>1 DEF Rewriting, At, ChansOf
  <2> QED BY <1>1, <1>a, <2>1
<1>2. ASSUME NEW r \in Req, Arrive(r) PROVE Good
      BY <1>2, <1>1 DEF Arrive, Accept, At, redisVars, PresenceTypeOK
<1>3. ASSUME NEW r \in Req, RegisterRead(r) \/ DeregisterRead(r) PROVE Good
      BY <1>3, <1>1 DEF RegisterRead, DeregisterRead, At, redisVars, PresenceTypeOK
<1>4. ASSUME NEW r \in Req, RegisterClean(r) PROVE Good
  <2>1. /\ req[r] # Free /\ req[r].pc = "reg_clean"
        /\ req' = [req EXCEPT ![r].pc = "reg_write"]
        /\ sess' = sess /\ torn' = torn
        BY <1>4 DEF RegisterClean, At, Goto
  <2>2. req[r] \in Request /\ req[r].conn \in Conn /\ req[r].prev \in Hash
        BY <2>1, RequestType
  <2>3. \A ch : Rewriting(c, ch) => Rewriting(c, ch)'
        BY <2>1 DEF Rewriting, At, ChansOf, PresenceTypeOK
  <2>4. ASSUME NEW ch \in ChansOf(req[r].prev), c = req[r].conn PROVE Rewriting(c, ch)'
    <3>1. /\ req'[r].pc = "reg_write" /\ req'[r].conn = c /\ req'[r].prev = req[r].prev
          /\ req'[r] \in Request
          BY <2>1, <2>2, <2>4 DEF PresenceTypeOK, Request
    <3>2. req'[r] # Free BY <3>1, PresenceAssumption
    <3> QED BY <3>1, <3>2, <2>4 DEF Rewriting, At, ChansOf
  <2>5. \A k \in Key : c \in index[k] => c \in index'[k] \/ (c = req[r].conn /\ k \in ChansOf(req[r].prev))
        BY <1>4, <2>2 DEF RegisterClean, SRem, PresenceTypeOK
  <2>6. ChansOf(req[r].prev) \subseteq Channel BY <2>2, KeysType
  <2> QED BY <1>a, <2>1, <2>3, <2>4, <2>5, <2>6
<1>5. ASSUME NEW r \in Req, RegisterWrite(r) PROVE Good
  <2>1. /\ req[r] # Free /\ req[r].pc = "reg_write"
        /\ req' = [req EXCEPT ![r].pc = "done"]
        /\ sess' = [sess EXCEPT ![req[r].conn] = req[r].body]
        /\ index' = SAdd(index, KeysOf(req[r].body), req[r].conn)
        /\ torn' = torn \ {req[r].conn}
        BY <1>5 DEF RegisterWrite, At, Goto
  <2>2. req[r] \in Request /\ req[r].conn \in Conn /\ req[r].body \in Hash
        BY <2>1, RequestType
  <2>3. CASE c = req[r].conn
    <3>1. sess'[c] = req[r].body BY <2>1, <2>2, <2>3 DEF PresenceTypeOK
    <3>2. KeysOf(sess'[c]) = {sess'[c].user} \cup sess'[c].chans BY <3>1 DEF KeysOf
    <3>3. KeysOf(sess'[c]) \subseteq Key BY <3>1, <2>2, KeysType
    <3> QED BY <2>1, <2>3, <3>1, <3>2, <3>3 DEF SAdd
  <2>4. CASE c # req[r].conn
    <3>1. sess'[c] = sess[c] BY <2>1, <2>2, <2>4 DEF PresenceTypeOK
    <3>2. \A k \in Key : c \in index[k] => c \in index'[k] BY <2>1 DEF SAdd
    <3>3. \A ch : Rewriting(c, ch) => Rewriting(c, ch)'
          BY <2>1, <2>4 DEF Rewriting, At, ChansOf, PresenceTypeOK
    <3> QED BY <1>a, <2>1, <2>4, <3>1, <3>2, <3>3
  <2> QED BY <2>3, <2>4
<1>6. ASSUME NEW r \in Req, DeregisterWipe(r) PROVE Good
  <2>1. /\ req[r] # Free /\ req[r].pc = "dereg_wipe"
        /\ req' = [req EXCEPT ![r].pc = "done"]
        /\ sess' = [sess EXCEPT ![req[r].conn] = NoSession]
        /\ index' = SRem(index, KeysOf(req[r].prev), req[r].conn)
        /\ torn' = torn
        BY <1>6 DEF DeregisterWipe, At, Goto
  <2>2. c # req[r].conn /\ sess'[c] = sess[c]
        BY <2>1, RequestType DEF PresenceTypeOK
  <2>3. \A k \in Key : c \in index[k] => c \in index'[k] BY <2>1, <2>2 DEF SRem
  <2>4. \A ch : Rewriting(c, ch) => Rewriting(c, ch)'
        BY <2>1 DEF Rewriting, At, ChansOf, PresenceTypeOK
  <2> QED BY <1>a, <2>1, <2>2, <2>3, <2>4
<1>7. ASSUME NEW r \in Req, HeartbeatExists(r) \/ HeartbeatExpire(r) PROVE Good
      BY <1>7, <1>1 DEF HeartbeatExists, HeartbeatExpire, At, Goto, redisVars, PresenceTypeOK
<1>8. ASSUME NEW r \in Req, Abort(r) PROVE Good
  <2>1. /\ req[r] # Free
        /\ req' = [req EXCEPT ![r].pc = "done"]
        /\ sess' = sess /\ index' = index /\ torn \subseteq torn'
        BY <1>8 DEF Abort, Goto
  <2>2. \A ch : Rewriting(c, ch) => Rewriting(c, ch)' \/ c \in torn'
    <3> SUFFICES ASSUME NEW ch, NEW s \in Req, At(s, "reg_write"),
                        req[s].conn = c, ch \in ChansOf(req[s].prev)
                 PROVE  Rewriting(c, ch)' \/ c \in torn'
        BY DEF Rewriting
    <3>1. CASE s = r
          BY <3>1, <1>8 DEF Abort
    <3>2. CASE s # r
          BY <3>2, <2>1 DEF Rewriting, At, ChansOf, PresenceTypeOK
    <3> QED BY <3>1, <3>2
  <2> QED BY <1>a, <2>1, <2>2
<1>9. ASSUME NEW r \in Req, Release(r) PROVE Good
      BY <1>9, <1>1 DEF Release, At, redisVars, PresenceTypeOK
<1>10. ASSUME NEW q \in Query, QueryStep(q) \/ QueryEnd(q) \/ \E k \in Key : QueryStart(q, k)
       PROVE  Good
       BY <1>10, <1>1
       DEF QueryStep, QueryMembers, QueryFilter, QueryEnd, QueryStart, redisVars
<1>11. CASE Elapse
  <2>1. sess'[c] = sess[c] /\ UNCHANGED <<index, torn, req>> BY <1>11 DEF Elapse
  <2> QED BY <1>1, <2>1
<1>12. CASE UNCHANGED presenceVars BY <1>12, <1>1 DEF presenceVars
<1> QED BY <1>2, <1>3, <1>4, <1>5, <1>6, <1>7, <1>8, <1>9, <1>10, <1>11, <1>12
        DEF PresenceNext, RequestStep

(* Every interleaving of register, deregister, heartbeat and expiry keeps  *)
(* existing sessions in the index.                                         *)
THEOREM IndexCoverage == PresenceSpec => []IndexCovers
<1>1. PresenceInit => IndexCovers BY DEF PresenceInit, IndexCovers
<1> QED BY <1>1, PresenceTypeCorrect, CoverStep, PTL DEF PresenceSpec

-----------------------------------------------------------------------------
(* The gateways.                                                           *)

(* A call of the read loop is a request that arrives at presence.          *)
LEMMA CallArrives ==
  ASSUME NEW c \in Conn,
         \/ \E body \in Session : Call(c, "reg_read", body)
         \/ Call(c, "dereg_read", NoSession)
  PROVE  PresenceNext
BY DEF Call, Arrive, PresenceNext

(* An answered request frees its slot.                                     *)
LEMMA ReleaseIsStep == ASSUME NEW r \in Req, Release(r) PROVE PresenceNext
BY DEF PresenceNext

(* The gateway's types; an open connection has a user, and only a          *)
(* connection that waits for presence has a call in progress.              *)
Owned ==
  /\ call \in [Conn -> Req \cup {NoReq}]
  /\ beat \in [Conn -> Req \cup {NoReq}]
  /\ stage \in [Conn -> Stages]
  /\ owner \in [Conn -> User \cup {NoSession}]
  /\ subs \in [Conn -> SUBSET Channel]
  /\ seq \in [Instance -> 0..MaxSeq]
  /\ \A c \in Conn : stage[c] \in {"registering", "open", "updating"} => owner[c] \in User
  /\ \A c \in Conn : call[c] # NoReq => stage[c] \in {"registering", "updating", "closing"}

(* The new connection's id is one of Conn.                                 *)
LEMMA NewConn ==
  ASSUME Owned, NEW g \in Instance, seq[g] < MaxSeq
  PROVE  <<g, seq[g] + 1>> \in Conn
BY GatewayAssumption DEF Owned

(* The initial state satisfies Owned.                                      *)
LEMMA OwnedInit == Init => Owned
BY GatewayAssumption DEF Init, Owned, Stages

(* Every step keeps Owned.                                                 *)
LEMMA OwnedStep == Owned /\ [Next]_vars => Owned'
<1> SUFFICES ASSUME Owned, [Next]_vars PROVE Owned' OBVIOUS
<1> USE GatewayAssumption DEF Owned, Stages
<1>1. ASSUME NEW g \in Instance, Crash(g) PROVE Owned' BY <1>1 DEF Crash
<1>2. ASSUME NEW g \in Instance, NEW u \in User, Connect(g, u) PROVE Owned'
  <2>1. PICK c \in Conn, r \in Req :
          /\ seq[g] < MaxSeq /\ seq' = [seq EXCEPT ![g] = @ + 1]
          /\ stage' = [stage EXCEPT ![c] = "registering"]
          /\ owner' = [owner EXCEPT ![c] = u]
          /\ subs' = [subs EXCEPT ![c] = {}]
          /\ call' = [call EXCEPT ![c] = r]
          /\ beat' = beat
        BY <1>2, NewConn DEF Connect, Call
  <2>2. seq' \in [Instance -> 0..MaxSeq] BY <2>1
  <2> QED BY <2>1, <2>2
<1>3. ASSUME NEW c \in Conn, NEW chans \in SUBSET Channel, UpdateSubscription(c, chans)
      PROVE  Owned'
      BY <1>3 DEF UpdateSubscription, Call
<1>4. ASSUME NEW c \in Conn, Close(c) PROVE Owned' BY <1>4 DEF Close, Call
<1>5. ASSUME NEW c \in Conn, Return(c) \/ Timeout(c) PROVE Owned'
  <2>1. PICK end \in {"gone", "abandoned"} : Resume(c, end) BY <1>5 DEF Return, Timeout
  <2>2. call[c] # NoReq BY <1>5 DEF Return, Timeout
  <2>3. call' = [call EXCEPT ![c] = NoReq] /\ UNCHANGED <<beat, owner, seq>>
        BY <2>1 DEF Resume
  <2>4. CASE stage[c] = "closing"
        BY <2>1, <2>3, <2>4 DEF Resume
  <2>5. CASE stage[c] # "closing"
    <3>1. stage' = [stage EXCEPT ![c] = "open"] /\ subs' = subs BY <2>1, <2>5 DEF Resume
    <3>2. owner[c] \in User BY <2>2, <2>5
    <3> QED BY <2>3, <3>1, <3>2
  <2> QED BY <2>4, <2>5
<1>6. ASSUME NEW c \in Conn, SendHeartbeat(c) \/ EndHeartbeat(c) \/ LoseHeartbeat(c)
      PROVE  Owned'
      BY <1>6 DEF SendHeartbeat, EndHeartbeat, LoseHeartbeat, connVars
<1>7. CASE \/ \E r \in Req : Reap(r)
           \/ \E q \in Query : Ask(q)
           \/ PresenceStep \/ PresenceAbort \/ Tick
      BY <1>7 DEF Reap, Ask, PresenceStep, PresenceAbort, Tick, gatewayVars, connVars
<1>8. CASE UNCHANGED vars BY <1>8 DEF vars, gatewayVars, connVars
<1> QED BY <1>1, <1>2, <1>3, <1>4, <1>5, <1>6, <1>7, <1>8 DEF Next, Subscribe, Unsubscribe

(* Each step of the gateways is a step of presence or leaves it alone.     *)
LEMMA PresenceSimulates == Owned /\ [Next]_vars => [PresenceNext]_presenceVars
<1> SUFFICES ASSUME Owned, [Next]_vars PROVE [PresenceNext]_presenceVars OBVIOUS
<1>1. ASSUME NEW g \in Instance, NEW u \in User, Connect(g, u) PROVE PresenceNext
  <2>1. [user |-> u, chans |-> {}] \in Session BY DEF Session
  <2>2. <<g, seq[g] + 1>> \in Conn BY <1>1, NewConn DEF Connect
  <2> QED BY <1>1, <2>1, <2>2, CallArrives DEF Connect
<1>2. ASSUME NEW c \in Conn, NEW chans \in SUBSET Channel, UpdateSubscription(c, chans)
      PROVE  PresenceNext
  <2>1. [user |-> owner[c], chans |-> chans] \in Session
        BY <1>2 DEF UpdateSubscription, Owned, Session
  <2> QED BY <1>2, <2>1, CallArrives DEF UpdateSubscription
<1>3. ASSUME NEW c \in Conn, Close(c) PROVE PresenceNext
      BY <1>3, CallArrives DEF Close
<1>4. ASSUME NEW c \in Conn, Return(c) PROVE PresenceNext
  <2>1. call[c] \in Req BY <1>4 DEF Return, Owned
  <2> QED BY <1>4, <2>1, ReleaseIsStep DEF Return
<1>5. ASSUME NEW c \in Conn, SendHeartbeat(c) PROVE PresenceNext
      BY <1>5 DEF SendHeartbeat, Arrive, PresenceNext
<1>6. ASSUME NEW c \in Conn, EndHeartbeat(c) PROVE PresenceNext \/ UNCHANGED presenceVars
  <2>1. beat[c] \in Req BY <1>6 DEF EndHeartbeat, Owned
  <2> QED BY <1>6, <2>1, ReleaseIsStep DEF EndHeartbeat
<1>7. ASSUME NEW r \in Req, Reap(r) PROVE PresenceNext BY <1>7, ReleaseIsStep DEF Reap
<1>8. CASE (\E q \in Query : Ask(q)) \/ PresenceStep \/ PresenceAbort \/ Tick
      BY <1>8 DEF Ask, PresenceStep, PresenceAbort, Tick, PresenceNext
<1>9. CASE \/ \E g \in Instance : Crash(g)
           \/ \E c \in Conn : Timeout(c) \/ LoseHeartbeat(c)
           \/ UNCHANGED vars
      BY <1>9 DEF Crash, Timeout, LoseHeartbeat, vars
<1> QED BY <1>1, <1>2, <1>3, <1>4, <1>5, <1>6, <1>7, <1>8, <1>9
        DEF Next, Subscribe, Unsubscribe, Owned

(* What holds of presence whatever its clients ask holds of the gateways   *)
(* with it: timeouts, crashes and restarts are among what it may be asked. *)
LEMMA GatewayUsesPresence == Spec => PresenceSpec
<1>1. Init => PresenceInit BY DEF Init
<1> QED BY <1>1, OwnedInit, OwnedStep, PresenceSimulates, PTL
        DEF Spec, PresenceSpec

(* Hence no interleaving of gateways takes an existing session out of the  *)
(* index, except in the window of a re-registration or after one was cut.  *)
THEOREM GatewayIndexCoverage == Spec => []IndexCovers
BY GatewayUsesPresence, IndexCoverage, PTL

-----------------------------------------------------------------------------
(* With no failures.                                                       *)

(* Nothing fails and no gateway dies; the TTL outlasts three intervals     *)
(* (sessionTTL is fifteen of them).                                        *)
Calm == ~Faults /\ MaxCrashes = 0 /\ TTL >= 4

(* The keys whose index set holds c are exactly these.                     *)
Exact(c, keys) == \A k \in Key : c \in index[k] <=> k \in keys

Mine(c) == [user |-> owner[c], chans |-> subs[c]]
Blank(c) == sess[c] = NoSession /\ Exact(c, {})
Full(c) == sess[c] # NoSession /\ sess[c].user = owner[c] /\ Exact(c, KeysOf(sess[c]))
Agreed(c) == sess[c] = Mine(c) /\ Exact(c, KeysOf(Mine(c)))

(* What presence holds of a connection, by what its goroutine is at and    *)
(* how far presence is with the call.                                      *)
CallAgrees(c) ==
  LET r == call[c]
      pc == req[r].pc
  IN /\ stage[c] # "abandoned"
     /\ stage[c] \in {"none", "gone"} => r = NoReq /\ Blank(c)
     /\ stage[c] = "open" => r = NoReq /\ Agreed(c)
     /\ stage[c] \in {"registering", "updating", "closing"} =>
          r \in Req /\ req[r] # Free /\ req[r].conn = c
     /\ stage[c] = "registering" =>
          \/ pc \in {"reg_read", "reg_write"} /\ req[r].body = Mine(c) /\ req[r].prev = NoSession /\ Blank(c)
          \/ pc = "done" /\ Agreed(c)
     /\ stage[c] = "updating" =>
          \/ pc = "reg_read" /\ req[r].body = Mine(c) /\ Full(c)
          \/ pc = "reg_clean" /\ req[r].body = Mine(c) /\ req[r].prev = sess[c] /\ Full(c)
          \/ pc = "reg_write" /\ req[r].body = Mine(c) /\ sess[c] # NoSession /\ Exact(c, {owner[c]})
          \/ pc = "done" /\ Agreed(c)
     /\ stage[c] = "closing" =>
          \/ pc = "dereg_read" /\ Full(c)
          \/ pc = "dereg_wipe" /\ req[r].prev = sess[c] /\ Full(c)
          \/ pc = "done" /\ Blank(c)

(* Every writing request is the call of its connection.                    *)
WritesAwaited ==
  \A r \in Req :
    req[r] # Free /\ req[r].pc \in {"reg_read", "reg_clean", "reg_write", "dereg_read", "dereg_wipe"}
      => call[req[r].conn] = r

(* A heartbeat is one of its connection, while that is open.               *)
BeatsOfOpen(c) ==
  /\ beat[c] # NoReq =>
       /\ req[beat[c]] # Free /\ req[beat[c]].conn = c /\ beat[c] # call[c]
       /\ req[beat[c]].pc \in {"hb_exists", "hb_expire", "done"}
  /\ beat[c] # NoReq \/ c \in due => stage[c] \in {"open", "updating"}

(* Ids are handed out once.                                                *)
IdsFresh == \A g \in Instance : \A n \in 1..MaxSeq : n > seq[g] => stage[<<g, n>>] = "none"

Beating(c) == c \in due \/ (beat[c] # NoReq /\ req[beat[c]].pc # "done")

(* How many intervals of the TTL can have passed.                          *)
Lasting(c) ==
  /\ c \in slow => call[c] # NoReq
  /\ stage[c] = "registering" /\ sess[c] # NoSession => ttl[c] >= TTL - (IF c \in slow THEN 1 ELSE 0)
  /\ stage[c] \in {"open", "updating"} => ttl[c] >= TTL - (IF Beating(c) THEN 2 ELSE 1)
  /\ stage[c] = "closing" /\ sess[c] # NoSession => ttl[c] >= TTL - (IF c \in slow THEN 3 ELSE 2)

CalmInv ==
  /\ crashes = 0 /\ slow \subseteq Conn /\ due \subseteq Conn
  /\ WritesAwaited /\ IdsFresh
  /\ \A c \in Conn : CallAgrees(c) /\ BeatsOfOpen(c) /\ Lasting(c)

(* The state of the calm system.                                           *)
CalmState == Calm /\ PresenceTypeOK /\ Owned /\ CalmInv

LEMMA CalmInit == Init => CalmInv
BY GatewayAssumption
DEF Init, PresenceInit, CalmInv, WritesAwaited, IdsFresh, CallAgrees, BeatsOfOpen, Lasting, Blank, Exact

(* A slot that moves on keeps what the request is about.                   *)
LEMMA GotoFacts ==
  ASSUME PresenceTypeOK, NEW r \in Req, req[r] # Free,
         NEW pc \in {"reg_read", "reg_clean", "reg_write", "dereg_read", "dereg_wipe",
                     "hb_exists", "hb_expire", "done"},
         Goto(r, pc)
  PROVE  /\ req'[r] # Free /\ req'[r].pc = pc /\ req'[r].conn = req[r].conn
         /\ req'[r].body = req[r].body /\ req'[r].prev = req[r].prev
         /\ \A s \in Req \ {r} : req'[s] = req[s]
<1>1. req' \in [Req -> Request \cup {Free}] BY GotoType
<1>2. req' = [req EXCEPT ![r] = [@ EXCEPT !.pc = pc]] BY DEF Goto
<1>3. req[r] \in Request BY RequestType
<1>4. [req[r] EXCEPT !.pc = pc] \in Request BY <1>3 DEF Request
<1>5. req'[r] = [req[r] EXCEPT !.pc = pc] BY <1>2 DEF PresenceTypeOK
<1>6. req'[r] # Free BY <1>4, <1>5, PresenceAssumption
<1>7. \A s \in Req \ {r} : req'[s] = req[s] BY <1>2 DEF PresenceTypeOK
<1> QED BY <1>3, <1>5, <1>6, <1>7 DEF Request

(* A call and a heartbeat are requests of their connection.                *)
LEMMA Tickets ==
  ASSUME CalmState, NEW c \in Conn
  PROVE  /\ call[c] # NoReq => call[c] \in Req /\ req[call[c]] # Free /\ req[call[c]].conn = c
         /\ beat[c] # NoReq => beat[c] \in Req /\ req[beat[c]] # Free /\ req[beat[c]].conn = c
<1>1. CallAgrees(c) /\ BeatsOfOpen(c) BY DEF CalmState, CalmInv
<1>2. call[c] # NoReq => stage[c] \in {"registering", "updating", "closing"} BY DEF CalmState, Owned
<1>3. beat[c] \in Req \cup {NoReq} BY DEF CalmState, Owned
<1>4. call[c] # NoReq => call[c] \in Req /\ req[call[c]] # Free /\ req[call[c]].conn = c
      BY <1>1, <1>2 DEF CallAgrees
<1> QED BY <1>1, <1>3, <1>4 DEF BeatsOfOpen

(* A step that touches neither what presence holds of c nor its call.      *)
LEMMA CallFrame ==
  ASSUME CalmState, NEW c \in Conn,
         stage'[c] = stage[c], owner'[c] = owner[c], subs'[c] = subs[c], call'[c] = call[c],
         sess'[c] = sess[c], \A k \in Key : c \in index'[k] <=> c \in index[k],
         call[c] # NoReq => req'[call[c]] = req[call[c]]
  PROVE  CallAgrees(c)'
<1>1. CallAgrees(c) BY DEF CalmState, CalmInv
<1>2. /\ \A keys : Exact(c, keys)' <=> Exact(c, keys)
      /\ Mine(c)' = Mine(c)
      BY DEF Exact, Mine
<1>3. /\ Blank(c)' <=> Blank(c)
      /\ Full(c)' <=> Full(c)
      /\ Agreed(c)' <=> Agreed(c)
      BY <1>2 DEF Blank, Full, Agreed, KeysOf, Mine
<1>4. CASE call[c] = NoReq BY <1>1, <1>3, <1>4, GatewayAssumption DEF CallAgrees
<1>5. CASE call[c] # NoReq BY <1>1, <1>2, <1>3, <1>5 DEF CallAgrees
<1> QED BY <1>4, <1>5

(* A step that does not touch c.                                           *)
LEMMA ConnFrame ==
  ASSUME CalmState, NEW c \in Conn,
         stage'[c] = stage[c], owner'[c] = owner[c], subs'[c] = subs[c],
         call'[c] = call[c], beat'[c] = beat[c],
         c \in due' <=> c \in due, c \in slow' <=> c \in slow,
         sess'[c] = sess[c], ttl'[c] = ttl[c],
         \A k \in Key : c \in index'[k] <=> c \in index[k],
         call[c] # NoReq => req'[call[c]] = req[call[c]],
         beat[c] # NoReq => req'[beat[c]] = req[beat[c]]
  PROVE  CallAgrees(c)' /\ BeatsOfOpen(c)' /\ Lasting(c)'
<1>1. BeatsOfOpen(c) /\ Lasting(c) BY DEF CalmState, CalmInv
<1>2. BeatsOfOpen(c)' BY <1>1 DEF BeatsOfOpen
<1>3. Lasting(c)' BY <1>1 DEF Lasting, Beating
<1> QED BY <1>2, <1>3, CallFrame

(* A writing request moves on: its connection is all that changes.         *)
LEMMA WriteKeeps ==
  ASSUME CalmState, NEW r \in Req, NEW d \in Conn, UNCHANGED gatewayVars,
         req[r] # Free, req[r].conn = d,
         req[r].pc \in {"reg_read", "reg_clean", "reg_write", "dereg_read", "dereg_wipe"},
         req'[r] # Free, req'[r].conn = d, \A s \in Req \ {r} : req'[s] = req[s],
         \A c \in Conn \ {d} : sess'[c] = sess[c] /\ ttl'[c] = ttl[c],
         \A c \in Conn \ {d} : \A k \in Key : c \in index'[k] <=> c \in index[k],
         call[d] = r => CallAgrees(d)',
         call[d] = r /\ BeatsOfOpen(d)' /\ (Beating(d)' <=> Beating(d)) => Lasting(d)'
  PROVE  CalmInv' /\ call[d] = r
<1>1. call[d] = r BY DEF CalmState, CalmInv, WritesAwaited
<1>2. BeatsOfOpen(d) /\ (beat[d] # NoReq => beat[d] \in Req /\ beat[d] # r)
      BY <1>1, Tickets DEF CalmState, CalmInv, BeatsOfOpen
<1>3. BeatsOfOpen(d)' /\ (Beating(d)' <=> Beating(d))
      BY <1>1, <1>2 DEF BeatsOfOpen, Beating, gatewayVars, connVars
<1>4. ASSUME NEW c \in Conn \ {d} PROVE CallAgrees(c)' /\ BeatsOfOpen(c)' /\ Lasting(c)'
  <2>1. /\ call[c] # NoReq => req'[call[c]] = req[call[c]]
        /\ beat[c] # NoReq => req'[beat[c]] = req[beat[c]]
        BY <1>4, Tickets
  <2> QED BY <1>4, <2>1, ConnFrame DEF gatewayVars, connVars
<1>5. WritesAwaited'
      BY <1>1 DEF CalmState, CalmInv, WritesAwaited, gatewayVars
<1>6. IdsFresh' /\ crashes' = 0 /\ slow' \subseteq Conn /\ due' \subseteq Conn
      BY DEF CalmState, CalmInv, IdsFresh, gatewayVars, connVars
<1> QED BY <1>1, <1>3, <1>4, <1>5, <1>6 DEF CalmInv

(* register and deregister read what there is: no error, no expiry.        *)
LEMMA ReadFacts ==
  ASSUME CalmState, NEW r \in Req, RegisterRead(r) \/ DeregisterRead(r)
  PROVE  LET d == req[r].conn
         IN /\ req[r] # Free /\ d \in Conn /\ UNCHANGED <<sess, ttl, index>>
            /\ req'[r] # Free /\ req'[r].conn = d /\ req'[r].body = req[r].body
            /\ req'[r].prev = sess[d]
            /\ RegisterRead(r) => /\ req[r].pc = "reg_read"
                                  /\ sess[d] = NoSession => req'[r].pc = "reg_write"
                                  /\ sess[d] # NoSession => req'[r].pc = "reg_clean"
            /\ DeregisterRead(r) => /\ req[r].pc = "dereg_read"
                                    /\ sess[d] = NoSession => req'[r].pc = "done"
                                    /\ sess[d] # NoSession => req'[r].pc = "dereg_wipe"
            /\ \A s \in Req \ {r} : req'[s] = req[s]
<1> DEFINE d == req[r].conn
<1>1. req[r] # Free /\ UNCHANGED <<sess, ttl, index>>
      BY DEF RegisterRead, DeregisterRead, At, redisVars
<1>2. req[r] \in Request /\ d \in Conn BY <1>1, RequestType DEF CalmState
<1>3. HGetAll(d) = {sess[d]} BY DEF HGetAll, CalmState, Calm
<1>4. PICK pc \in {"reg_write", "reg_clean", "done", "dereg_wipe"} :
        /\ req' = [req EXCEPT ![r] = [@ EXCEPT !.prev = sess[d], !.pc = pc]]
        /\ RegisterRead(r) => pc = IF sess[d] = NoSession THEN "reg_write" ELSE "reg_clean"
        /\ DeregisterRead(r) => pc = IF sess[d] = NoSession THEN "done" ELSE "dereg_wipe"
      BY <1>3 DEF RegisterRead, DeregisterRead, At
<1>5. req'[r] = [req[r] EXCEPT !.prev = sess[d], !.pc = pc] /\ \A s \in Req \ {r} : req'[s] = req[s]
      BY <1>4 DEF CalmState, PresenceTypeOK
<1>6. sess[d] \in Hash BY <1>2 DEF CalmState, PresenceTypeOK
<1>7. req'[r] \in Request BY <1>2, <1>5, <1>6 DEF Request
<1>8. req'[r] # Free BY <1>7, PresenceAssumption
<1>9. /\ RegisterRead(r) => req[r].pc = "reg_read"
      /\ DeregisterRead(r) => req[r].pc = "dereg_read"
      BY DEF RegisterRead, DeregisterRead, At
<1>10. req'[r].conn = d /\ req'[r].body = req[r].body /\ req'[r].prev = sess[d] /\ req'[r].pc = pc
      BY <1>2, <1>5 DEF Request
<1> QED BY <1>1, <1>2, <1>4, <1>5, <1>8, <1>9, <1>10

(* What the stage of a connection says about its writing call.             *)
LEMMA StageOfCall ==
  ASSUME CalmState, NEW d \in Conn, call[d] # NoReq
  PROVE  LET pc == req[call[d]].pc
         IN /\ pc = "reg_read" => stage[d] \in {"registering", "updating"}
            /\ pc = "reg_write" => stage[d] \in {"registering", "updating"}
            /\ pc = "reg_clean" => stage[d] = "updating"
            /\ pc \in {"dereg_read", "dereg_wipe"} => stage[d] = "closing"
<1>1. CallAgrees(d) BY DEF CalmState, CalmInv
<1>2. stage[d] \in {"registering", "updating", "closing"} BY DEF CalmState, Owned
<1> QED BY <1>1, <1>2 DEF CallAgrees

(* The facts of a writing request's connection.                            *)
LEMMA WriterFacts ==
  ASSUME CalmState, NEW r \in Req, req[r] # Free,
         req[r].pc \in {"reg_read", "reg_clean", "reg_write", "dereg_read", "dereg_wipe"}
  PROVE  LET d == req[r].conn
         IN /\ d \in Conn /\ call[d] = r /\ CallAgrees(d) /\ Lasting(d)
            /\ req[r].pc \in {"reg_read", "reg_write"} => stage[d] \in {"registering", "updating"}
            /\ req[r].pc = "reg_clean" => stage[d] = "updating"
            /\ req[r].pc \in {"dereg_read", "dereg_wipe"} => stage[d] = "closing"
            /\ stage[d] \in {"registering", "updating"} => Mine(d) \in Session
<1> DEFINE d == req[r].conn
<1>1. d \in Conn BY RequestType DEF CalmState
<1>2. call[d] = r BY DEF CalmState, CalmInv, WritesAwaited
<1>3. CallAgrees(d) /\ Lasting(d) BY <1>1 DEF CalmState, CalmInv
<1>4. call[d] # NoReq BY <1>2, GatewayAssumption
<1>5. stage[d] \in {"registering", "updating"} => Mine(d) \in Session
      BY <1>1 DEF CalmState, Owned, Mine, Session
<1> QED BY <1>1, <1>2, <1>3, <1>4, <1>5, StageOfCall

(* The HGETALL of register and of deregister.                              *)
LEMMA ReadKeeps ==
  ASSUME CalmState, NEW r \in Req, NEW d \in Conn, req[r].conn = d,
         RegisterRead(r) \/ DeregisterRead(r), UNCHANGED gatewayVars
  PROVE  CalmInv'
<1>1. /\ req[r] # Free /\ d \in Conn /\ UNCHANGED <<sess, ttl, index>>
      /\ req'[r] # Free /\ req'[r].conn = d /\ req'[r].body = req[r].body
      /\ req'[r].prev = sess[d]
      /\ RegisterRead(r) => /\ req[r].pc = "reg_read"
                            /\ sess[d] = NoSession => req'[r].pc = "reg_write"
                            /\ sess[d] # NoSession => req'[r].pc = "reg_clean"
      /\ DeregisterRead(r) => /\ req[r].pc = "dereg_read"
                              /\ sess[d] = NoSession => req'[r].pc = "done"
                              /\ sess[d] # NoSession => req'[r].pc = "dereg_wipe"
      /\ \A s \in Req \ {r} : req'[s] = req[s]
      BY ReadFacts
<1>2. req[r].pc \in {"reg_read", "dereg_read"} BY <1>1
<1>3. call[d] = r /\ CallAgrees(d) /\ Lasting(d) BY <1>1, <1>2, WriterFacts
<1>4. /\ req[r].pc = "reg_read" => stage[d] \in {"registering", "updating"}
      /\ req[r].pc = "dereg_read" => stage[d] = "closing"
      BY <1>1, <1>2, WriterFacts
<1>5. /\ Blank(d)' <=> Blank(d)
      /\ Full(d)' <=> Full(d)
      /\ Mine(d)' = Mine(d)
      BY <1>1 DEF Blank, Full, Exact, Mine, KeysOf, gatewayVars, connVars
<1>6. stage'[d] = stage[d] /\ call'[d] = r BY <1>3 DEF gatewayVars, connVars
<1>7. CallAgrees(d)'
  <2>1. CASE stage[d] = "registering" BY <1>1, <1>3, <1>4, <1>5, <1>6, <2>1 DEF CallAgrees, Blank
  <2>2. CASE stage[d] = "updating" BY <1>1, <1>3, <1>4, <1>5, <1>6, <2>2 DEF CallAgrees, Full
  <2>3. CASE stage[d] = "closing" BY <1>1, <1>3, <1>4, <1>5, <1>6, <2>3 DEF CallAgrees, Full
  <2> QED BY <1>2, <1>4, <2>1, <2>2, <2>3
<1>8. ASSUME Beating(d)' <=> Beating(d) PROVE Lasting(d)'
      BY <1>1, <1>3, <1>8 DEF Lasting, gatewayVars, connVars
<1> QED BY <1>1, <1>2, <1>7, <1>8, WriteKeeps

(* The first pipeline of a re-registration.                                *)
LEMMA CleanKeeps ==
  ASSUME CalmState, NEW r \in Req, NEW d \in Conn, req[r].conn = d,
         RegisterClean(r), UNCHANGED gatewayVars
  PROVE  CalmInv'
<1>1. /\ req[r] # Free /\ req[r].pc = "reg_clean" /\ UNCHANGED <<sess, ttl>>
      /\ index' = SRem(index, ChansOf(req[r].prev), d)
      BY DEF RegisterClean, At, CalmState, Calm
<1>2. /\ req'[r] # Free /\ req'[r].pc = "reg_write" /\ req'[r].conn = d
      /\ req'[r].body = req[r].body
      /\ \A s \in Req \ {r} : req'[s] = req[s]
      BY <1>1, GotoFacts DEF RegisterClean, CalmState
<1>3. d \in Conn /\ call[d] = r /\ CallAgrees(d) /\ Lasting(d) /\ stage[d] = "updating"
      BY <1>1, WriterFacts
<1>4. req[r].body = Mine(d) /\ req[r].prev = sess[d] /\ Full(d)
      BY <1>1, <1>3 DEF CallAgrees
<1>5. sess[d] \in Session /\ sess[d].user \notin Channel
      BY <1>3, <1>4, PresenceAssumption DEF Full, CalmState, PresenceTypeOK, Hash, Session
<1>6. Exact(d, {owner[d]})'
  <2>1. \A k \in Key : d \in index[k] <=> k \in {owner[d]} \cup sess[d].chans
        BY <1>4 DEF Full, Exact, KeysOf
  <2>2. \A k \in Key : d \in index'[k] <=> d \in index[k] /\ k \notin sess[d].chans
        BY <1>1, <1>4 DEF SRem, ChansOf, Full
  <2>3. owner[d] \notin sess[d].chans
        BY <1>4, <1>5 DEF Full, Session
  <2> QED BY <2>1, <2>2, <2>3 DEF Exact, gatewayVars, connVars
<1>7. CallAgrees(d)'
      BY <1>1, <1>2, <1>3, <1>4, <1>6 DEF CallAgrees, Mine, Full, gatewayVars, connVars
<1>8. ASSUME Beating(d)' <=> Beating(d) PROVE Lasting(d)'
      BY <1>1, <1>3, <1>8 DEF Lasting, gatewayVars, connVars
<1>9. \A c \in Conn \ {d} : \A k \in Key : c \in index'[k] <=> c \in index[k]
      BY <1>1 DEF SRem
<1> QED BY <1>1, <1>2, <1>3, <1>7, <1>8, <1>9, WriteKeeps

(* The pipeline that writes a registration.                                *)
LEMMA RegisterKeeps ==
  ASSUME CalmState, NEW r \in Req, NEW d \in Conn, req[r].conn = d,
         RegisterWrite(r), UNCHANGED gatewayVars
  PROVE  CalmInv'
<1>1. /\ req[r] # Free /\ req[r].pc = "reg_write"
      /\ sess' = [sess EXCEPT ![d] = req[r].body] /\ ttl' = [ttl EXCEPT ![d] = TTL]
      /\ index' = SAdd(index, KeysOf(req[r].body), d)
      BY DEF RegisterWrite, At
<1>2. /\ req'[r] # Free /\ req'[r].pc = "done" /\ req'[r].conn = d
      /\ \A s \in Req \ {r} : req'[s] = req[s]
      BY <1>1, GotoFacts DEF RegisterWrite, CalmState
<1>3. /\ d \in Conn /\ call[d] = r /\ CallAgrees(d)
      /\ stage[d] \in {"registering", "updating"} /\ Mine(d) \in Session
      BY <1>1, WriterFacts
<1>4. req[r].body = Mine(d) /\ (Exact(d, {}) \/ Exact(d, {owner[d]}))
      BY <1>1, <1>3 DEF CallAgrees, Blank
<1>5. KeysOf(Mine(d)) = {owner[d]} \cup subs[d]
      BY <1>3, PresenceAssumption DEF KeysOf, Mine
<1>6. sess'[d] = Mine(d) /\ ttl'[d] = TTL
      BY <1>1, <1>3, <1>4 DEF CalmState, PresenceTypeOK
<1>7. \A k \in Key : d \in index'[k] <=> k \in KeysOf(Mine(d))
      BY <1>1, <1>4, <1>5 DEF SAdd, Exact
<1>8. Mine(d)' = Mine(d) BY DEF Mine, gatewayVars, connVars
<1>9. Agreed(d)' BY <1>6, <1>7, <1>8 DEF Agreed, Exact, KeysOf
<1>10. stage'[d] = stage[d] /\ call'[d] = r BY <1>3 DEF gatewayVars, connVars
<1>11. CallAgrees(d)' BY <1>2, <1>3, <1>9, <1>10 DEF CallAgrees
<1>12. Lasting(d)'
  <2>1. d \in slow' => call'[d] # NoReq BY <1>3, <1>10, GatewayAssumption
  <2>2. TTL \in Nat BY PresenceAssumption
  <2> QED BY <1>3, <1>6, <1>10, <2>1, <2>2 DEF Lasting
<1>13. /\ \A c \in Conn \ {d} : \A k \in Key : c \in index'[k] <=> c \in index[k]
       /\ \A c \in Conn \ {d} : sess'[c] = sess[c] /\ ttl'[c] = ttl[c]
      BY <1>1 DEF SAdd, CalmState, PresenceTypeOK
<1> QED BY <1>1, <1>2, <1>3, <1>11, <1>12, <1>13, WriteKeeps

(* The pipeline that wipes a session.                                      *)
LEMMA WipeKeeps ==
  ASSUME CalmState, NEW r \in Req, NEW d \in Conn, req[r].conn = d,
         DeregisterWipe(r), UNCHANGED gatewayVars
  PROVE  CalmInv'
<1>1. /\ req[r] # Free /\ req[r].pc = "dereg_wipe"
      /\ sess' = [sess EXCEPT ![d] = NoSession] /\ ttl' = [ttl EXCEPT ![d] = 0]
      /\ index' = SRem(index, KeysOf(req[r].prev), d)
      BY DEF DeregisterWipe, At
<1>2. /\ req'[r] # Free /\ req'[r].pc = "done" /\ req'[r].conn = d
      /\ \A s \in Req \ {r} : req'[s] = req[s]
      BY <1>1, GotoFacts DEF DeregisterWipe, CalmState
<1>3. d \in Conn /\ call[d] = r /\ CallAgrees(d) /\ Lasting(d) /\ stage[d] = "closing"
      BY <1>1, WriterFacts
<1>4. req[r].prev = sess[d] /\ Exact(d, KeysOf(sess[d]))
      BY <1>1, <1>3 DEF CallAgrees, Full
<1>5. sess'[d] = NoSession BY <1>1, <1>3 DEF CalmState, PresenceTypeOK
<1>6. Blank(d)' BY <1>1, <1>4, <1>5 DEF Blank, Exact, SRem
<1>7. stage'[d] = stage[d] /\ call'[d] = r /\ slow' = slow BY <1>3 DEF gatewayVars, connVars
<1>8. CallAgrees(d)' BY <1>2, <1>3, <1>6, <1>7 DEF CallAgrees
<1>9. Lasting(d)' BY <1>3, <1>5, <1>7 DEF Lasting
<1>10. /\ \A c \in Conn \ {d} : \A k \in Key : c \in index'[k] <=> c \in index[k]
       /\ \A c \in Conn \ {d} : sess'[c] = sess[c] /\ ttl'[c] = ttl[c]
      BY <1>1 DEF SRem, CalmState, PresenceTypeOK
<1> QED BY <1>1, <1>2, <1>3, <1>8, <1>9, <1>10, WriteKeeps

(* An open connection has a session.                                       *)
LEMMA OpenHasSession ==
  ASSUME CalmState, NEW c \in Conn, stage[c] \in {"open", "updating"}
  PROVE  sess[c] # NoSession
<1>1. CallAgrees(c) BY DEF CalmState, CalmInv
<1>2. Mine(c) # NoSession BY PresenceAssumption DEF CalmState, Owned, Mine, Session
<1> QED BY <1>1, <1>2 DEF CallAgrees, Agreed, Full

(* A heartbeat, awaited or not, refreshes the TTL of what is there.        *)
LEMMA HeartKeeps ==
  ASSUME CalmState, NEW r \in Req, NEW d \in Conn, req[r].conn = d,
         HeartbeatExists(r) \/ HeartbeatExpire(r), UNCHANGED gatewayVars
  PROVE  CalmInv'
<1>1. /\ req[r] # Free /\ req[r].pc \in {"hb_exists", "hb_expire"} /\ UNCHANGED <<sess, index>>
      /\ HeartbeatExists(r) => ttl' = ttl
      /\ HeartbeatExpire(r) => ttl' = [ttl EXCEPT ![d] = IF sess[d] = NoSession THEN 0 ELSE TTL]
      BY DEF HeartbeatExists, HeartbeatExpire, At, redisVars
<1>2. PICK pc \in {"hb_expire", "done"} :
        /\ Goto(r, pc)
        /\ HeartbeatExists(r) /\ sess[d] # NoSession => pc = "hb_expire"
      BY DEF HeartbeatExists, HeartbeatExpire
<1>3. /\ req'[r] # Free /\ req'[r].pc = pc /\ req'[r].conn = d
      /\ \A s \in Req \ {r} : req'[s] = req[s]
      BY <1>1, <1>2, GotoFacts DEF CalmState
<1>4. CallAgrees(d) /\ BeatsOfOpen(d) /\ Lasting(d) BY DEF CalmState, CalmInv
<1>5. \A c \in Conn : call[c] # NoReq => call[c] # r
  <2>1. SUFFICES ASSUME NEW c \in Conn, call[c] = r PROVE FALSE OBVIOUS
  <2>2. stage[c] \in {"registering", "updating", "closing"} /\ CallAgrees(c)
        BY <2>1, GatewayAssumption DEF CalmState, CalmInv, Owned
  <2> QED BY <1>1, <2>1, <2>2 DEF CallAgrees
<1>6. \A c \in Conn : call[c] # NoReq => req'[call[c]] = req[call[c]] BY <1>3, <1>5, Tickets
<1>7. CallAgrees(d)' BY <1>1, <1>6, CallFrame DEF gatewayVars, connVars
<1>8. BeatsOfOpen(d)'
  <2>1. CASE beat[d] = r BY <1>2, <1>3, <1>4, <2>1 DEF BeatsOfOpen, gatewayVars, connVars
  <2>2. CASE beat[d] # r BY <1>3, <1>4, <2>2, Tickets DEF BeatsOfOpen, gatewayVars, connVars
  <2> QED BY <2>1, <2>2
<1>9. Lasting(d)'
  <2>1. UNCHANGED <<stage, slow, call, beat, due, sess>> BY <1>1 DEF gatewayVars, connVars
  <2>2. CASE HeartbeatExpire(r)
    <3>1. sess[d] # NoSession => ttl'[d] = TTL BY <1>1, <2>2 DEF CalmState, PresenceTypeOK
    <3>2. TTL \in Nat BY PresenceAssumption
    <3> QED BY <1>4, <2>1, <3>1, <3>2, OpenHasSession DEF Lasting
  <2>3. CASE HeartbeatExists(r)
    <3>1. stage[d] \in {"open", "updating"} => (Beating(d)' <=> Beating(d))
      <4>1. SUFFICES ASSUME stage[d] \in {"open", "updating"} PROVE Beating(d)' <=> Beating(d) OBVIOUS
      <4>2. req'[r].pc = "hb_expire" BY <1>2, <1>3, <2>3, <4>1, OpenHasSession
      <4>3. CASE beat[d] = r BY <1>1, <2>1, <4>2, <4>3 DEF Beating
      <4>4. CASE beat[d] # r BY <1>3, <2>1, <4>4, Tickets DEF Beating
      <4> QED BY <4>3, <4>4
    <3>2. ttl' = ttl BY <1>1, <2>3
    <3> QED BY <1>4, <2>1, <3>1, <3>2 DEF Lasting
  <2> QED BY <2>2, <2>3
<1>10. ASSUME NEW c \in Conn \ {d} PROVE CallAgrees(c)' /\ BeatsOfOpen(c)' /\ Lasting(c)'
  <2>1. beat[c] # NoReq => req'[beat[c]] = req[beat[c]] BY <1>3, <1>10, Tickets
  <2>2. ttl'[c] = ttl[c] BY <1>1, <1>10 DEF CalmState, PresenceTypeOK
  <2> QED BY <1>1, <1>6, <1>10, <2>1, <2>2, ConnFrame DEF gatewayVars, connVars
<1>11. WritesAwaited'
      BY <1>2, <1>3 DEF CalmState, CalmInv, WritesAwaited, gatewayVars
<1>12. IdsFresh' /\ crashes' = 0 /\ slow' \subseteq Conn /\ due' \subseteq Conn
      BY DEF CalmState, CalmInv, IdsFresh, gatewayVars, connVars
<1> QED BY <1>7, <1>8, <1>9, <1>10, <1>11, <1>12 DEF CalmInv

(* Queries only read; an answer nobody waits for changes nothing.          *)
LEMMA IdleKeeps ==
  ASSUME CalmState, UNCHANGED gatewayVars, UNCHANGED redisVars,
         \/ req' = req
         \/ \E r \in Req : Orphan(r) /\ req' = [req EXCEPT ![r] = Free]
  PROVE  CalmInv'
<1>1. ASSUME NEW c \in Conn PROVE CallAgrees(c)' /\ BeatsOfOpen(c)' /\ Lasting(c)'
  <2>1. /\ call[c] # NoReq => req'[call[c]] = req[call[c]]
        /\ beat[c] # NoReq => req'[beat[c]] = req[beat[c]]
        BY <1>1, Tickets DEF Orphan, CalmState, PresenceTypeOK
  <2> QED BY <1>1, <2>1, ConnFrame DEF gatewayVars, connVars, redisVars
<1>2. WritesAwaited'
      BY DEF CalmState, CalmInv, WritesAwaited, gatewayVars, PresenceTypeOK
<1>3. IdsFresh' /\ crashes' = 0 /\ slow' \subseteq Conn /\ due' \subseteq Conn
      BY DEF CalmState, CalmInv, IdsFresh, gatewayVars, connVars
<1> QED BY <1>1, <1>2, <1>3 DEF CalmInv

(* A tick: nothing that is held has run out of its TTL.                    *)
LEMMA TickKeeps ==
  ASSUME CalmState, Tick
  PROVE  CalmInv'
<1>1. /\ due = {} /\ slow = {} /\ \A c \in Conn : beat[c] = NoReq
      /\ slow' = {c \in Conn : call[c] # NoReq}
      /\ due' = {c \in Conn : stage[c] \in {"open", "updating"}}
      /\ UNCHANGED <<seq, crashes, stage, owner, subs, call, beat, req, index>>
      /\ ttl' = [c \in Conn |-> IF ttl[c] = 0 THEN 0 ELSE ttl[c] - 1]
      /\ sess' = [c \in Conn |-> IF ttl[c] <= 1 THEN NoSession ELSE sess[c]]
      BY DEF Tick, Elapse, connVars
<1>2. ASSUME NEW c \in Conn PROVE CallAgrees(c)' /\ BeatsOfOpen(c)' /\ Lasting(c)'
  <2>1. CallAgrees(c) /\ Lasting(c) /\ ~Beating(c)
        BY <1>1, <1>2 DEF CalmState, CalmInv, Beating
  <2>2. TTL \in Nat /\ TTL >= 4 /\ ttl[c] \in 0..TTL
        BY <1>2, PresenceAssumption DEF CalmState, Calm, PresenceTypeOK
  <2>3. stage[c] \in Stages \ {"abandoned"}
        BY <1>2, <2>1 DEF CalmState, Owned, CallAgrees
  <2>4. /\ stage[c] = "registering" /\ sess[c] # NoSession => ttl[c] >= TTL
        /\ stage[c] \in {"open", "updating"} => ttl[c] >= TTL - 1
        /\ stage[c] = "closing" /\ sess[c] # NoSession => ttl[c] >= TTL - 2
        BY <1>1, <2>1, <2>2 DEF Lasting
  <2>5. stage[c] \in {"none", "gone"} => sess[c] = NoSession BY <2>1 DEF CallAgrees, Blank
  <2>6. sess[c] = NoSession \/ ttl[c] >= 2 BY <2>2, <2>3, <2>4, <2>5 DEF Stages
  <2>7. sess'[c] = sess[c] BY <1>1, <1>2, <2>2, <2>6
  <2>8. CallAgrees(c)' BY <1>1, <1>2, <2>7, CallFrame
  <2>9. BeatsOfOpen(c)' BY <1>1 DEF BeatsOfOpen
  <2>10. Lasting(c)'
    <3>1. ttl'[c] = IF ttl[c] = 0 THEN 0 ELSE ttl[c] - 1 BY <1>1, <1>2
    <3>2. /\ stage[c] = "registering" /\ sess[c] # NoSession => ttl'[c] >= TTL - 1
          /\ stage[c] \in {"open", "updating"} => ttl'[c] >= TTL - 2
          /\ stage[c] = "closing" /\ sess[c] # NoSession => ttl'[c] >= TTL - 3
          BY <2>2, <2>4, <3>1
    <3>3. /\ stage[c] \in {"open", "updating"} => Beating(c)'
          /\ c \in slow' <=> call[c] # NoReq
          /\ call'[c] = call[c] /\ stage'[c] = stage[c]
          BY <1>1, <1>2 DEF Beating
    <3>4. stage[c] \in {"registering", "closing"} => call[c] # NoReq
          BY <2>1, GatewayAssumption DEF CallAgrees
    <3> QED BY <2>7, <3>2, <3>3, <3>4 DEF Lasting
  <2> QED BY <2>8, <2>9, <2>10
<1>3. WritesAwaited' /\ IdsFresh' BY <1>1 DEF CalmState, CalmInv, WritesAwaited, IdsFresh
<1>4. crashes' = 0 /\ slow' \subseteq Conn /\ due' \subseteq Conn
      BY <1>1 DEF CalmState, CalmInv
<1> QED BY <1>2, <1>3, <1>4 DEF CalmInv

(* A request that arrives takes a slot that was of no call or heartbeat.   *)
LEMMA AcceptFacts ==
  ASSUME CalmState, NEW r \in Req, NEW d \in Conn, NEW body \in Hash,
         NEW pc \in {"reg_read", "dereg_read", "hb_exists"}, Accept(r, pc, d, body)
  PROVE  /\ req'[r] # Free /\ req'[r].pc = pc /\ req'[r].conn = d
         /\ req'[r].body = body /\ req'[r].prev = NoSession
         /\ \A s \in Req \ {r} : req'[s] = req[s]
         /\ \A c \in Conn : /\ call[c] # NoReq => call[c] # r /\ req'[call[c]] = req[call[c]]
                            /\ beat[c] # NoReq => beat[c] # r /\ req'[beat[c]] = req[beat[c]]
<1>1. req[r] = Free /\ req'[r] = [pc |-> pc, conn |-> d, body |-> body, prev |-> NoSession]
      BY DEF Accept, CalmState, PresenceTypeOK
<1>2. \A s \in Req \ {r} : req'[s] = req[s] BY DEF Accept, CalmState, PresenceTypeOK
<1>3. req'[r] \in Request BY <1>1 DEF Request, Hash
<1>4. req'[r] # Free BY <1>3, PresenceAssumption
<1> QED BY <1>1, <1>2, <1>4, Tickets

(* The read loop of d begins a call: what else changes is of d alone.      *)
LEMMA CallKeeps ==
  ASSUME CalmState, NEW d \in Conn, NEW body \in Hash, NEW pc \in {"reg_read", "dereg_read"},
         Call(d, pc, body), call[d] = NoReq, crashes' = crashes,
         \A c \in Conn \ {d} : /\ stage'[c] = stage[c] /\ owner'[c] = owner[c]
                               /\ subs'[c] = subs[c] /\ beat'[c] = beat[c],
         due' \subseteq due, due \subseteq due' \cup {d}, slow' = slow, IdsFresh',
         \A r \in Req : call'[d] = r /\ req'[r] # Free /\ req'[r].pc = pc /\ req'[r].conn = d
                       /\ req'[r].body = body /\ req'[r].prev = NoSession
                       /\ UNCHANGED <<sess, ttl, index>> => CallAgrees(d)',
         \/ beat'[d] = NoReq /\ d \notin due'
         \/ beat'[d] = beat[d] /\ due' = due /\ stage'[d] \in {"open", "updating"},
         call'[d] # NoReq /\ UNCHANGED <<sess, ttl>> /\ (beat'[d] = beat[d] /\ due' = due => (Beating(d)' <=> Beating(d)))
            => Lasting(d)'
  PROVE  CalmInv'
<1>1. PICK r \in Req : /\ Accept(r, pc, d, body) /\ call' = [call EXCEPT ![d] = r]
                       /\ UNCHANGED <<redisVars, query>>
      BY DEF Call
<1>2. /\ req'[r] # Free /\ req'[r].pc = pc /\ req'[r].conn = d
      /\ req'[r].body = body /\ req'[r].prev = NoSession
      /\ \A s \in Req \ {r} : req'[s] = req[s]
      /\ \A c \in Conn : /\ call[c] # NoReq => call[c] # r /\ req'[call[c]] = req[call[c]]
                         /\ beat[c] # NoReq => beat[c] # r /\ req'[beat[c]] = req[beat[c]]
      BY <1>1, AcceptFacts
<1>3. call'[d] = r /\ r # NoReq /\ \A c \in Conn \ {d} : call'[c] = call[c]
      BY <1>1, GatewayAssumption DEF CalmState, Owned
<1>4. UNCHANGED <<sess, ttl, index>> BY <1>1 DEF redisVars
<1>5. CallAgrees(d)' BY <1>2, <1>3, <1>4
<1>6. BeatsOfOpen(d)'
  <2>1. CASE beat'[d] = NoReq /\ d \notin due' BY <2>1 DEF BeatsOfOpen
  <2>2. CASE beat'[d] = beat[d] /\ due' = due /\ stage'[d] \in {"open", "updating"}
    <3>1. BeatsOfOpen(d) BY DEF CalmState, CalmInv
    <3> QED BY <1>2, <1>3, <2>2, <3>1 DEF BeatsOfOpen
  <2> QED BY <2>1, <2>2
<1>7. Lasting(d)'
  <2>1. beat'[d] = beat[d] /\ due' = due => (Beating(d)' <=> Beating(d)) BY <1>2 DEF Beating
  <2> QED BY <1>3, <1>4, <2>1
<1>8. ASSUME NEW c \in Conn \ {d} PROVE CallAgrees(c)' /\ BeatsOfOpen(c)' /\ Lasting(c)'
  <2>1. /\ stage'[c] = stage[c] /\ owner'[c] = owner[c] /\ subs'[c] = subs[c]
        /\ beat'[c] = beat[c] /\ call'[c] = call[c]
        /\ (c \in due' <=> c \in due) /\ (c \in slow' <=> c \in slow)
        BY <1>3, <1>8
  <2>2. /\ call[c] # NoReq => req'[call[c]] = req[call[c]]
        /\ beat[c] # NoReq => req'[beat[c]] = req[beat[c]]
        BY <1>2, <1>8
  <2> QED BY <1>4, <1>8, <2>1, <2>2, ConnFrame
<1>9. WritesAwaited'
  <2>1. SUFFICES ASSUME NEW s \in Req, req'[s] # Free,
                        req'[s].pc \in {"reg_read", "reg_clean", "reg_write", "dereg_read", "dereg_wipe"}
                 PROVE  call'[req'[s].conn] = s
        BY DEF WritesAwaited
  <2>2. CASE s = r BY <1>2, <1>3, <2>2
  <2>3. CASE s # r
    <3>1. req'[s] = req[s] BY <1>2, <2>3
    <3>2. call[req[s].conn] = s /\ req[s].conn \in Conn
          BY <2>1, <3>1, RequestType DEF CalmState, CalmInv, WritesAwaited
    <3>3. req[s].conn # d BY <3>2, GatewayAssumption
    <3> QED BY <1>3, <3>1, <3>2, <3>3
  <2> QED BY <2>2, <2>3
<1> QED BY <1>5, <1>6, <1>7, <1>8, <1>9 DEF CalmState, CalmInv

(* A new connection registers under an id that was never used.             *)
LEMMA ConnectKeeps ==
  ASSUME CalmState, NEW g \in Instance, NEW u \in User, Connect(g, u)
  PROVE  CalmInv'
<1>1. PICK d \in Conn : d = <<g, seq[g] + 1>> BY NewConn DEF Connect, CalmState
<1>2. /\ seq[g] < MaxSeq /\ seq' = [seq EXCEPT ![g] = @ + 1]
      /\ stage' = [stage EXCEPT ![d] = "registering"]
      /\ owner' = [owner EXCEPT ![d] = u] /\ subs' = [subs EXCEPT ![d] = {}]
      /\ Call(d, "reg_read", [user |-> u, chans |-> {}])
      /\ UNCHANGED <<crashes, beat, due, slow>>
      BY <1>1 DEF Connect
<1>3. stage[d] = "none"
  <2>1. seq[g] \in 0..MaxSeq /\ MaxSeq \in Nat BY GatewayAssumption DEF CalmState, Owned
  <2>2. seq[g] + 1 \in 1..MaxSeq /\ seq[g] + 1 > seq[g] BY <1>2, <2>1
  <2> QED BY <1>1, <2>2 DEF CalmState, CalmInv, IdsFresh
<1>4. /\ stage'[d] = "registering" /\ owner'[d] = u /\ subs'[d] = {}
      /\ \A c \in Conn \ {d} : stage'[c] = stage[c] /\ owner'[c] = owner[c] /\ subs'[c] = subs[c]
      BY <1>2 DEF CalmState, Owned
<1>5. CallAgrees(d) /\ BeatsOfOpen(d) BY DEF CalmState, CalmInv
<1>6. call[d] = NoReq /\ Blank(d) /\ beat[d] = NoReq /\ d \notin due
      BY <1>3, <1>5 DEF CallAgrees, BeatsOfOpen
<1>7. IdsFresh'
  <2>1. SUFFICES ASSUME NEW h \in Instance, NEW n \in 1..MaxSeq, n > seq'[h]
                 PROVE  stage'[<<h, n>>] = "none"
        BY DEF IdsFresh
  <2>2. <<h, n>> \in Conn BY GatewayAssumption
  <2>3. seq[g] \in 0..MaxSeq /\ seq[h] \in 0..MaxSeq /\ MaxSeq \in Nat
        BY GatewayAssumption DEF CalmState, Owned
  <2>4. n > seq[h] /\ <<h, n>> # d
        BY <1>1, <1>2, <2>1, <2>3 DEF CalmState, Owned
  <2> QED BY <1>4, <2>2, <2>4 DEF CalmState, CalmInv, IdsFresh
<1>8. PICK body \in Hash : body = [user |-> u, chans |-> {}] BY DEF Hash, Session
<1>9. ASSUME NEW r \in Req, call'[d] = r, req'[r] # Free, req'[r].pc = "reg_read", req'[r].conn = d,
             req'[r].body = body, req'[r].prev = NoSession,
             UNCHANGED <<sess, ttl, index>>
      PROVE  CallAgrees(d)'
  <2>1. Blank(d)' BY <1>6, <1>9 DEF Blank, Exact
  <2>2. Mine(d)' = [user |-> u, chans |-> {}] BY <1>4 DEF Mine
  <2> QED BY <1>4, <1>8, <1>9, <2>1, <2>2 DEF CallAgrees
<1>10. ASSUME call'[d] # NoReq, UNCHANGED <<sess, ttl>> PROVE Lasting(d)'
      BY <1>4, <1>6, <1>10 DEF Lasting, Blank
<1>11. /\ due' \subseteq due /\ due \subseteq due' \cup {d} /\ slow' = slow /\ crashes' = crashes
       /\ beat'[d] = NoReq /\ d \notin due'
       /\ \A c \in Conn \ {d} : beat'[c] = beat[c]
      BY <1>2, <1>6
<1>12. Call(d, "reg_read", body) BY <1>2, <1>8
<1>13. \A r \in Req : call'[d] = r /\ req'[r] # Free /\ req'[r].pc = "reg_read" /\ req'[r].conn = d
                     /\ req'[r].body = body /\ req'[r].prev = NoSession
                     /\ UNCHANGED <<sess, ttl, index>> => CallAgrees(d)'
      BY <1>9
<1>14. \A c \in Conn \ {d} : /\ stage'[c] = stage[c] /\ owner'[c] = owner[c]
                             /\ subs'[c] = subs[c] /\ beat'[c] = beat[c]
      BY <1>4, <1>11
<1>15. call'[d] # NoReq /\ UNCHANGED <<sess, ttl>> => Lasting(d)' BY <1>10
<1> QED BY <1>6, <1>7, <1>11, <1>12, <1>13, <1>14, <1>15, CallKeeps

(* A subscription changes: the whole set is registered again.              *)
LEMMA UpdateKeeps ==
  ASSUME CalmState, NEW d \in Conn, NEW chans \in SUBSET Channel, UpdateSubscription(d, chans)
  PROVE  CalmInv'
<1>1. /\ stage[d] = "open" /\ stage' = [stage EXCEPT ![d] = "updating"]
      /\ subs' = [subs EXCEPT ![d] = chans]
      /\ Call(d, "reg_read", [user |-> owner[d], chans |-> chans])
      /\ UNCHANGED <<seq, crashes, owner, beat, due, slow>>
      BY DEF UpdateSubscription
<1>2. PICK u \in User : u = owner[d] BY <1>1 DEF CalmState, Owned
<1>3. /\ stage'[d] = "updating" /\ subs'[d] = chans /\ owner'[d] = u
      /\ \A c \in Conn \ {d} : stage'[c] = stage[c] /\ subs'[c] = subs[c]
      BY <1>1, <1>2 DEF CalmState, Owned
<1>4. CallAgrees(d) /\ BeatsOfOpen(d) /\ Lasting(d) BY DEF CalmState, CalmInv
<1>5. call[d] = NoReq /\ Agreed(d) BY <1>1, <1>4 DEF CallAgrees
<1>6. IdsFresh'
  <2>1. \A h \in Instance, n \in 1..MaxSeq : <<h, n>> \in Conn BY GatewayAssumption
  <2> QED BY <1>1, <1>3, <2>1 DEF CalmState, CalmInv, IdsFresh
<1>7. [user |-> u, chans |-> chans] \in Hash BY DEF Hash, Session
<1>8. ASSUME NEW r \in Req, call'[d] = r, req'[r] # Free, req'[r].pc = "reg_read", req'[r].conn = d,
             req'[r].body = [user |-> u, chans |-> chans], UNCHANGED <<sess, ttl, index>>
      PROVE  CallAgrees(d)'
  <2>1. Full(d)
        BY <1>1, <1>5, OpenHasSession DEF Full, Agreed, Mine
  <2>2. Full(d)' BY <1>2, <1>3, <1>8, <2>1 DEF Full, Exact, KeysOf
  <2>3. Mine(d)' = [user |-> u, chans |-> chans] BY <1>3 DEF Mine
  <2> QED BY <1>3, <1>8, <2>2, <2>3 DEF CallAgrees
<1>9. ASSUME call'[d] # NoReq, UNCHANGED <<sess, ttl>>, Beating(d)' <=> Beating(d) PROVE Lasting(d)'
      BY <1>1, <1>3, <1>4, <1>9 DEF Lasting
<1> QED BY <1>1, <1>2, <1>3, <1>5, <1>6, <1>7, <1>8, <1>9, CallKeeps

(* The read loop ends.                                                     *)
LEMMA CloseKeeps ==
  ASSUME CalmState, NEW d \in Conn, Close(d)
  PROVE  CalmInv'
<1>1. /\ stage[d] = "open" /\ stage' = [stage EXCEPT ![d] = "closing"]
      /\ beat' = [beat EXCEPT ![d] = NoReq] /\ due' = due \ {d}
      /\ Call(d, "dereg_read", NoSession)
      /\ UNCHANGED <<seq, crashes, owner, subs, slow>>
      BY DEF Close
<1>2. /\ stage'[d] = "closing" /\ beat'[d] = NoReq /\ d \notin due'
      /\ \A c \in Conn \ {d} : stage'[c] = stage[c] /\ beat'[c] = beat[c]
      BY <1>1 DEF CalmState, Owned
<1>3. CallAgrees(d) /\ Lasting(d) BY DEF CalmState, CalmInv
<1>4. call[d] = NoReq /\ Agreed(d) BY <1>1, <1>3 DEF CallAgrees
<1>5. IdsFresh'
  <2>1. \A h \in Instance, n \in 1..MaxSeq : <<h, n>> \in Conn BY GatewayAssumption
  <2> QED BY <1>1, <1>2, <2>1 DEF CalmState, CalmInv, IdsFresh
<1>6. NoSession \in Hash BY DEF Hash
<1>7. ASSUME NEW r \in Req, call'[d] = r, req'[r] # Free, req'[r].pc = "dereg_read", req'[r].conn = d,
             UNCHANGED <<sess, ttl, index>>
      PROVE  CallAgrees(d)'
  <2>1. Full(d)
        BY <1>1, <1>4, OpenHasSession DEF Full, Agreed, Mine
  <2>2. Full(d)' BY <1>1, <1>7, <2>1 DEF Full, Exact, KeysOf
  <2> QED BY <1>2, <1>7, <2>2 DEF CallAgrees
<1>8. ASSUME call'[d] # NoReq, UNCHANGED <<sess, ttl>> PROVE Lasting(d)'
  <2>1. ttl[d] \in Int /\ TTL \in Int BY PresenceAssumption DEF CalmState, PresenceTypeOK
  <2>2. ttl[d] >= TTL - 2 BY <1>1, <1>3, <2>1 DEF Lasting
  <2> QED BY <1>2, <1>8, <2>1, <2>2 DEF Lasting
<1> QED BY <1>1, <1>2, <1>4, <1>5, <1>6, <1>7, <1>8, CallKeeps

(* A call is answered.                                                     *)
LEMMA ReturnKeeps ==
  ASSUME CalmState, NEW d \in Conn, Return(d)
  PROVE  CalmInv'
<1>1. PICK r \in Req : r = call[d] /\ r # NoReq
      BY DEF Return, CalmState, Owned
<1>2. /\ req[r] # Free /\ req[r].pc = "done" /\ req' = [req EXCEPT ![r] = Free]
      /\ UNCHANGED <<sess, ttl, index>> /\ Resume(d, "gone")
      BY <1>1 DEF Return, Release, At, redisVars
<1>3. req[r].conn = d BY <1>1, Tickets
<1>4. /\ call' = [call EXCEPT ![d] = NoReq] /\ slow' = slow \ {d}
      /\ UNCHANGED <<seq, crashes, owner, beat, due>>
      /\ stage' = [stage EXCEPT ![d] = IF stage[d] = "closing" THEN "gone" ELSE "open"]
      /\ \A c \in Conn : c # d \/ stage[d] # "closing" => subs'[c] = subs[c]
      BY <1>2 DEF Resume, CalmState, Owned
<1>5. /\ call'[d] = NoReq /\ d \notin slow'
      /\ stage'[d] = IF stage[d] = "closing" THEN "gone" ELSE "open"
      /\ \A c \in Conn \ {d} : call'[c] = call[c] /\ stage'[c] = stage[c]
      BY <1>4 DEF CalmState, Owned
<1>6. \A s \in Req \ {r} : req'[s] = req[s] BY <1>2 DEF CalmState, PresenceTypeOK
<1>7. CallAgrees(d) /\ BeatsOfOpen(d) /\ Lasting(d) BY DEF CalmState, CalmInv
<1>8. stage[d] \in {"registering", "updating", "closing"} BY <1>1 DEF CalmState, Owned
<1>9. /\ stage[d] = "closing" => Blank(d)
      /\ stage[d] # "closing" => Agreed(d)
      BY <1>1, <1>2, <1>7, <1>8 DEF CallAgrees
<1>10. CallAgrees(d)'
  <2>1. CASE stage[d] = "closing"
    <3>1. Blank(d)' BY <1>2, <1>9, <2>1 DEF Blank, Exact
    <3> QED BY <1>5, <2>1, <3>1 DEF CallAgrees
  <2>2. CASE stage[d] # "closing"
    <3>1. Agreed(d)' BY <1>2, <1>4, <1>9, <2>2 DEF Agreed, Exact, Mine, KeysOf
    <3> QED BY <1>5, <2>2, <3>1 DEF CallAgrees
  <2> QED BY <2>1, <2>2
<1>11. beat[d] # NoReq => beat[d] \in Req /\ beat[d] # r
      BY <1>1, <1>7, Tickets DEF BeatsOfOpen
<1>12. BeatsOfOpen(d)' /\ (Beating(d)' <=> Beating(d))
  <2>1. stage[d] = "closing" => beat[d] = NoReq /\ d \notin due BY <1>7 DEF BeatsOfOpen
  <2>2. beat[d] # NoReq => req'[beat[d]] = req[beat[d]] BY <1>6, <1>11
  <2>3. beat' = beat /\ due' = due BY <1>4
  <2>4. Beating(d)' <=> Beating(d) BY <2>2, <2>3 DEF Beating
  <2>5. BeatsOfOpen(d)'
    <3>1. CASE beat[d] = NoReq BY <1>5, <1>7, <2>1, <2>3, <3>1 DEF BeatsOfOpen
    <3>2. CASE beat[d] # NoReq BY <1>5, <1>7, <1>8, <2>1, <2>2, <2>3, <3>2 DEF BeatsOfOpen
    <3> QED BY <3>1, <3>2
  <2> QED BY <2>4, <2>5
<1>13. Lasting(d)'
  <2>1. ttl[d] \in Int /\ TTL \in Int BY PresenceAssumption DEF CalmState, PresenceTypeOK
  <2>2. CASE stage[d] = "closing" BY <1>5, <2>2 DEF Lasting
  <2>3. CASE stage[d] = "updating" BY <1>2, <1>5, <1>7, <1>12, <2>1, <2>3 DEF Lasting
  <2>4. CASE stage[d] = "registering"
    <3>1. sess[d] # NoSession
      <4>1. Mine(d) # NoSession BY <2>4, PresenceAssumption DEF CalmState, Owned, Mine, Session
      <4> QED BY <1>9, <2>4, <4>1 DEF Agreed
    <3>2. ttl[d] >= TTL - 1 BY <1>7, <2>1, <2>4, <3>1 DEF Lasting
    <3> QED BY <1>2, <1>5, <2>1, <2>4, <3>2 DEF Lasting
  <2> QED BY <1>8, <2>2, <2>3, <2>4
<1>14. ASSUME NEW c \in Conn \ {d} PROVE CallAgrees(c)' /\ BeatsOfOpen(c)' /\ Lasting(c)'
  <2>1. /\ call[c] # NoReq => req'[call[c]] = req[call[c]]
        /\ beat[c] # NoReq => req'[beat[c]] = req[beat[c]]
        BY <1>3, <1>6, <1>14, Tickets
  <2> QED BY <1>2, <1>4, <1>5, <1>14, <2>1, ConnFrame
<1>15. WritesAwaited'
  <2>1. SUFFICES ASSUME NEW s \in Req, req'[s] # Free,
                        req'[s].pc \in {"reg_read", "reg_clean", "reg_write", "dereg_read", "dereg_wipe"}
                 PROVE  call'[req'[s].conn] = s
        BY DEF WritesAwaited
  <2>2. s # r BY <1>2, <2>1 DEF CalmState, PresenceTypeOK
  <2>3. req'[s] = req[s] BY <1>6, <2>2
  <2>4. call[req[s].conn] = s /\ req[s].conn \in Conn
        BY <2>1, <2>3, RequestType DEF CalmState, CalmInv, WritesAwaited
  <2>5. req[s].conn # d BY <1>1, <2>2, <2>4
  <2> QED BY <1>5, <2>3, <2>4, <2>5
<1>16. IdsFresh'
  <2>1. \A h \in Instance, n \in 1..MaxSeq : <<h, n>> \in Conn BY GatewayAssumption
  <2> QED BY <1>4, <1>5, <1>8, <2>1 DEF CalmState, CalmInv, IdsFresh
<1>17. crashes' = 0 /\ slow' \subseteq Conn /\ due' \subseteq Conn BY <1>4 DEF CalmState, CalmInv
<1> QED BY <1>10, <1>12, <1>13, <1>14, <1>15, <1>16, <1>17 DEF CalmInv

(* A heartbeat is sent.                                                    *)
LEMMA SendKeeps ==
  ASSUME CalmState, NEW d \in Conn, SendHeartbeat(d)
  PROVE  CalmInv'
<1>1. PICK r \in Req : Accept(r, "hb_exists", d, NoSession) /\ beat' = [beat EXCEPT ![d] = r]
      BY DEF SendHeartbeat
<1>2. /\ d \in due /\ due' = due \ {d}
      /\ UNCHANGED <<sess, ttl, index, seq, crashes, stage, owner, subs, call, slow>>
      BY DEF SendHeartbeat, redisVars, connVars
<1>3. NoSession \in Hash BY DEF Hash
<1>4. /\ req'[r] # Free /\ req'[r].pc = "hb_exists" /\ req'[r].conn = d
      /\ \A s \in Req \ {r} : req'[s] = req[s]
      /\ \A c \in Conn : /\ call[c] # NoReq => call[c] # r /\ req'[call[c]] = req[call[c]]
                         /\ beat[c] # NoReq => beat[c] # r /\ req'[beat[c]] = req[beat[c]]
      BY <1>1, <1>3, AcceptFacts
<1>5. beat'[d] = r /\ r # NoReq /\ \A c \in Conn \ {d} : beat'[c] = beat[c]
      BY <1>1, GatewayAssumption DEF CalmState, Owned
<1>6. BeatsOfOpen(d) /\ Lasting(d) BY DEF CalmState, CalmInv
<1>7. CallAgrees(d)' BY <1>2, <1>4, CallFrame
<1>8. BeatsOfOpen(d)' BY <1>2, <1>4, <1>5, <1>6 DEF BeatsOfOpen
<1>9. Lasting(d)'
  <2>1. Beating(d) /\ Beating(d)' BY <1>2, <1>4, <1>5 DEF Beating
  <2> QED BY <1>2, <1>6, <2>1 DEF Lasting
<1>10. ASSUME NEW c \in Conn \ {d} PROVE CallAgrees(c)' /\ BeatsOfOpen(c)' /\ Lasting(c)'
      BY <1>2, <1>4, <1>5, <1>10, ConnFrame
<1>11. WritesAwaited' BY <1>2, <1>4 DEF CalmState, CalmInv, WritesAwaited
<1>12. IdsFresh' /\ crashes' = 0 /\ slow' \subseteq Conn /\ due' \subseteq Conn
      BY <1>2 DEF CalmState, CalmInv, IdsFresh
<1> QED BY <1>7, <1>8, <1>9, <1>10, <1>11, <1>12 DEF CalmInv

(* A heartbeat is answered.                                                *)
LEMMA EndKeeps ==
  ASSUME CalmState, NEW d \in Conn, EndHeartbeat(d)
  PROVE  CalmInv'
<1>1. PICK r \in Req : r = beat[d] /\ r # NoReq
      BY DEF EndHeartbeat, CalmState, Owned
<1>2. /\ req[r] # Free /\ req[r].pc = "done" /\ req' = [req EXCEPT ![r] = Free]
      /\ beat' = [beat EXCEPT ![d] = NoReq]
      /\ UNCHANGED <<sess, ttl, index, seq, crashes, stage, owner, subs, call, due, slow>>
      BY <1>1 DEF EndHeartbeat, Release, At, redisVars, connVars, CalmState, Calm
<1>3. \A s \in Req \ {r} : req'[s] = req[s] BY <1>2 DEF CalmState, PresenceTypeOK
<1>4. beat'[d] = NoReq /\ \A c \in Conn \ {d} : beat'[c] = beat[c]
      BY <1>2 DEF CalmState, Owned
<1>5. BeatsOfOpen(d) /\ Lasting(d) BY DEF CalmState, CalmInv
<1>6. req[r].conn = d BY <1>1, Tickets
<1>7. \A c \in Conn : call[c] # NoReq => req'[call[c]] = req[call[c]]
  <2>1. call[d] # r BY <1>1, <1>5 DEF BeatsOfOpen
  <2> QED BY <1>3, <1>6, <2>1, Tickets
<1>8. CallAgrees(d)' BY <1>2, <1>7, CallFrame
<1>9. BeatsOfOpen(d)' BY <1>2, <1>4, <1>5 DEF BeatsOfOpen
<1>10. Lasting(d)'
  <2>1. Beating(d)' <=> Beating(d) BY <1>1, <1>2, <1>4 DEF Beating
  <2> QED BY <1>2, <1>5, <2>1 DEF Lasting
<1>11. ASSUME NEW c \in Conn \ {d} PROVE CallAgrees(c)' /\ BeatsOfOpen(c)' /\ Lasting(c)'
  <2>1. beat[c] # NoReq => req'[beat[c]] = req[beat[c]] BY <1>3, <1>6, <1>11, Tickets
  <2> QED BY <1>2, <1>4, <1>7, <1>11, <2>1, ConnFrame
<1>12. WritesAwaited'
      BY <1>2, <1>3 DEF CalmState, CalmInv, WritesAwaited, PresenceTypeOK
<1>13. IdsFresh' /\ crashes' = 0 /\ slow' \subseteq Conn /\ due' \subseteq Conn
      BY <1>2 DEF CalmState, CalmInv, IdsFresh
<1> QED BY <1>8, <1>9, <1>10, <1>11, <1>12, <1>13 DEF CalmInv

(* Presence serves what it has accepted.                                   *)
LEMMA ServeKeeps ==
  ASSUME CalmState, NEW r \in Req, RequestStep(r), UNCHANGED gatewayVars
  PROVE  CalmInv'
<1>1. req[r] # Free
      BY DEF RequestStep, RegisterRead, RegisterClean, RegisterWrite, DeregisterRead,
             DeregisterWipe, HeartbeatExists, HeartbeatExpire, At
<1>2. PICK d \in Conn : req[r].conn = d BY <1>1, RequestType DEF CalmState
<1> QED BY <1>2, ReadKeeps, CleanKeeps, RegisterKeeps, WipeKeeps, HeartKeeps DEF RequestStep

(* Every step keeps the calm invariant.                                    *)
LEMMA CalmStep == CalmState /\ [Next]_vars => CalmState'
<1> SUFFICES ASSUME CalmState, [Next]_vars PROVE CalmState' OBVIOUS
<1>1. Calm' BY DEF CalmState, Calm
<1>2. PresenceTypeOK' /\ Owned'
      BY OwnedStep, PresenceSimulates, TypeStep DEF CalmState
<1>3. ~Faults /\ MaxCrashes = 0 /\ crashes = 0 BY DEF CalmState, Calm, CalmInv
<1>4. ASSUME NEW g \in Instance, Crash(g) PROVE FALSE BY <1>3, <1>4 DEF Crash
<1>5. ASSUME NEW c \in Conn, Timeout(c) \/ LoseHeartbeat(c) PROVE FALSE
      BY <1>3, <1>5 DEF Timeout, LoseHeartbeat
<1>6. ASSUME NEW g \in Instance, NEW u \in User, Connect(g, u) PROVE CalmInv'
      BY <1>6, ConnectKeeps
<1>7. ASSUME NEW c \in Conn, NEW ch \in Channel, Subscribe(c, ch) \/ Unsubscribe(c, ch)
      PROVE  CalmInv'
  <2>1. subs[c] \subseteq Channel BY <1>7 DEF CalmState, Owned
  <2>2. PICK chans \in SUBSET Channel : UpdateSubscription(c, chans)
        BY <1>7, <2>1 DEF Subscribe, Unsubscribe
  <2> QED BY <2>2, UpdateKeeps
<1>8. ASSUME NEW c \in Conn, Close(c) \/ Return(c) \/ SendHeartbeat(c) \/ EndHeartbeat(c)
      PROVE  CalmInv'
      BY <1>8, CloseKeeps, ReturnKeeps, SendKeeps, EndKeeps
<1>9. ASSUME NEW r \in Req, Reap(r) PROVE CalmInv'
      BY <1>9, IdleKeeps DEF Reap, Release
<1>10. ASSUME NEW q \in Query, Ask(q) \/ (QueryStep(q) /\ UNCHANGED gatewayVars) PROVE CalmInv'
      BY <1>10, IdleKeeps
      DEF Ask, QueryStart, QueryEnd, QueryStep, QueryMembers, QueryFilter
<1>11. ASSUME PresenceStep PROVE CalmInv' BY <1>10, <1>11, ServeKeeps DEF PresenceStep
<1>12. ASSUME PresenceAbort PROVE CalmInv' BY <1>3, <1>12 DEF PresenceAbort, Abort
<1>13. ASSUME Tick PROVE CalmInv' BY <1>13, TickKeeps
<1>14. ASSUME UNCHANGED vars PROVE CalmInv' BY <1>14, IdleKeeps DEF vars, presenceVars, redisVars
<1>15. CalmInv'
      BY <1>4, <1>5, <1>6, <1>7, <1>8, <1>9, <1>10, <1>11, <1>12, <1>13, <1>14 DEF Next
<1> QED BY <1>1, <1>2, <1>15 DEF CalmState

(* The calm invariant holds always.                                        *)
LEMMA CalmAlways == Calm /\ Spec => []CalmState
<1>1. Calm /\ Init => CalmState
  <2>1. PresenceInit => PresenceTypeOK
        BY PresenceAssumption DEF PresenceInit, PresenceTypeOK, Hash
  <2> QED BY <2>1, OwnedInit, CalmInit DEF CalmState, Init
<1> QED BY <1>1, CalmStep, PTL DEF Spec

(* With no failures, for any number of gateways, connections, channels and *)
(* concurrent requests: between two messages of a client, presence holds   *)
(* its subscriptions and indexes it under exactly those.                   *)
THEOREM SettledAgreement == Calm /\ Spec => []SettledAgrees
<1>1. CalmState => SettledAgrees
  <2> SUFFICES ASSUME CalmState, NEW c \in Conn, stage[c] = "open"
               PROVE  /\ sess[c] = [user |-> owner[c], chans |-> subs[c]]
                      /\ \A k \in Key : c \in index[k] <=> k \in KeysOf(sess[c])
      BY DEF SettledAgrees
  <2>1. Agreed(c) BY DEF CalmState, CalmInv, CallAgrees
  <2> QED BY <2>1 DEF Agreed, Exact, Mine
<1> QED BY <1>1, CalmAlways, PTL

(* With no failures a connection that has gone leaves nothing in Redis,    *)
(* although heartbeats of it may still be served.                          *)
THEOREM GoneLeavesNothing == Calm /\ Spec => []GoneIsForgotten
<1>1. CalmState => GoneIsForgotten
  <2> SUFFICES ASSUME CalmState, NEW c \in Conn, stage[c] = "gone"
               PROVE  sess[c] = NoSession /\ \A k \in Key : c \notin index[k]
      BY DEF GoneIsForgotten
  <2>1. Blank(c) BY DEF CalmState, CalmInv, CallAgrees
  <2> QED BY <2>1 DEF Blank, Exact
<1> QED BY <1>1, CalmAlways, PTL

(* With no failures the heartbeats keep every open connection's session,   *)
(* for any TTL of at least four intervals.                                 *)
THEOREM BeatsOutrunTTL == Calm /\ Spec => []OpenSurvivesTTL
<1>1. CalmState => OpenSurvivesTTL BY OpenHasSession DEF OpenSurvivesTTL
<1> QED BY <1>1, CalmAlways, PTL

(* With no failures no query answers with a connection that had gone       *)
(* before the second of its two round trips.                               *)
THEOREM QueriesDropGone == Calm /\ Spec => QueryDropsGone
<1>1. CalmState /\ [Next]_vars =>
        [\A q \in Query :
           query[q] # Free /\ query[q].pc = "filter" /\ query'[q].pc = "done"
             => \A c \in query'[q].conns : Held(c)]_vars
  <2> SUFFICES ASSUME CalmState, [Next]_vars, NEW q \in Query,
                      query[q] # Free, query[q].pc = "filter", query'[q].pc = "done",
                      NEW c \in query'[q].conns
               PROVE  Held(c)
      OBVIOUS
  <2>1. [PresenceNext]_presenceVars BY PresenceSimulates DEF CalmState
  <2>2. query[q] \in Lookup BY DEF CalmState, PresenceTypeOK
  <2>3. query'[q] # query[q] OBVIOUS
  <2>4. QueryFilter(q)
    <3>1. PICK p \in Query : QueryStep(p) \/ QueryEnd(p) \/ \E k \in Key : QueryStart(p, k)
          BY <2>1, <2>3
          DEF PresenceNext, Arrive, RequestStep, RegisterRead, RegisterClean, RegisterWrite,
              DeregisterRead, DeregisterWipe, HeartbeatExists, HeartbeatExpire, Abort, Release,
              Elapse, presenceVars
    <3>2. p = q
          BY <2>3, <3>1 DEF QueryStep, QueryMembers, QueryFilter, QueryEnd, QueryStart, CalmState,
             PresenceTypeOK
    <3> QED BY <3>1, <3>2 DEF QueryStep, QueryMembers, QueryEnd, QueryStart
  <2>5. c \in Conn /\ sess[c] # NoSession
        BY <2>2, <2>4 DEF QueryFilter, Live, Lookup, CalmState, PresenceTypeOK
  <2>6. CallAgrees(c) /\ stage[c] \in Stages BY <2>5 DEF CalmState, CalmInv, Owned
  <2> QED BY <2>5, <2>6 DEF CallAgrees, Blank, Held, Stages
<1> QED BY <1>1, CalmAlways, PTL DEF Spec, QueryDropsGone
=============================================================================

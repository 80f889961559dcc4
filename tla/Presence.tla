------------------------------ MODULE Presence ------------------------------
(***************************************************************************)
(* The presence service (services/presence/handler.go): the registry of    *)
(* WebSocket sessions kept in Redis.                                       *)
(*                                                                         *)
(*   presence:session:{conn}   a hash with a TTL     -> sess, ttl          *)
(*   presence:user:{u}:sessions, presence:channel:{ch}:sessions            *)
(*                             index sets, no TTL    -> index              *)
(*                                                                         *)
(* A handler is a sequence of Redis round trips with no lock or MULTI      *)
(* around them, so each round trip is an action of its own and requests    *)
(* interleave between them.  One pipeline is one round trip: Redis runs    *)
(* the buffered commands of a client back to back.                         *)
(***************************************************************************)
EXTENDS Integers

CONSTANTS
  Conn,       \* connection ids the gateways hand out
  User,
  Channel,
  Req,        \* slots for the writing requests handled at the same time
  Query,      \* slots for the GET /sessions requests handled at the same time
  TTL,        \* sessionTTL, in heartbeat intervals
  Faults,     \* may a round trip fail, or a request's context be cancelled?
  NoSession,  \* HGETALL of a hash that does not exist
  Free        \* the content of an unused slot

Key == User \cup Channel
Session == [user: User, chans: SUBSET Channel]
Hash == Session \cup {NoSession}

(* A writing request: body is the session a register will store, prev what *)
(* the handler read from Redis.                                            *)
Request ==
  [pc: {"reg_read", "reg_clean", "reg_write", "dereg_read", "dereg_wipe",
        "hb_exists", "hb_expire", "done"},
   conn: Conn, body: Hash, prev: Hash]

(* A query: conns is the SMEMBERS reply and then the answer.               *)
Lookup == [pc: {"members", "filter", "done"}, key: Key, conns: SUBSET Conn]

ASSUME PresenceAssumption ==
  /\ TTL \in Nat \ {0}
  /\ Faults \in BOOLEAN
  /\ User \cap Channel = {}
  /\ NoSession \notin Session
  /\ Free \notin Request \cup Lookup

VARIABLES
  sess,   \* conn -> the session hash
  ttl,    \* conn -> heartbeat intervals until the hash expires (0: no hash)
  index,  \* user or channel -> the connections in its set
  req,    \* slot -> the writing request it handles
  query,  \* slot -> the query it handles
  torn    \* history: connections whose latest register to reach its second
          \* pipeline was cut off before it

redisVars == <<sess, ttl, index, torn>>
presenceVars == <<sess, ttl, index, req, query, torn>>

(* Type invariant: what the Redis keys of presence and its requests hold.  *)
PresenceTypeOK ==
  /\ sess \in [Conn -> Hash]
  /\ ttl \in [Conn -> 0..TTL]
  /\ index \in [Key -> SUBSET Conn]
  /\ req \in [Req -> Request \cup {Free}]
  /\ query \in [Query -> Lookup \cup {Free}]
  /\ torn \in SUBSET Conn

PresenceInit ==
  /\ sess = [c \in Conn |-> NoSession]
  /\ ttl = [c \in Conn |-> 0]
  /\ index = [k \in Key |-> {}]
  /\ req = [r \in Req |-> Free]
  /\ query = [q \in Query |-> Free]
  /\ torn = {}

-----------------------------------------------------------------------------
ChansOf(h) == IF h = NoSession THEN {} ELSE h.chans
KeysOf(h) == IF h = NoSession THEN {} ELSE {h.user} \cup h.chans

At(r, pc) == req[r] # Free /\ req[r].pc = pc
Goto(r, pc) == req' = [req EXCEPT ![r].pc = pc]

SRem(idx, keys, c) == [k \in Key |-> IF k \in keys THEN idx[k] \ {c} ELSE idx[k]]
SAdd(idx, keys, c) == [k \in Key |-> IF k \in keys THEN idx[k] \cup {c} ELSE idx[k]]

(* A request reaches its handler.                                          *)
Accept(r, pc, c, body) ==
  /\ req[r] = Free
  /\ req' = [req EXCEPT ![r] = [pc |-> pc, conn |-> c, body |-> body, prev |-> NoSession]]

(* A handler has answered and its slot is free again.                      *)
Release(r) ==
  /\ At(r, "done")
  /\ req' = [req EXCEPT ![r] = Free]
  /\ UNCHANGED <<redisVars, query>>

(* The error of a HGETALL is ignored: the handler goes on as if there were *)
(* no session.                                                             *)
HGetAll(c) == {sess[c]} \cup (IF Faults THEN {NoSession} ELSE {})

-----------------------------------------------------------------------------
(* register: read the previous registration ...                            *)
RegisterRead(r) ==
  /\ At(r, "reg_read")
  /\ \E prev \in HGetAll(req[r].conn) :
       req' = [req EXCEPT ![r].prev = prev,
                          ![r].pc = IF prev = NoSession THEN "reg_write" ELSE "reg_clean"]
  /\ UNCHANGED <<redisVars, query>>

(* Mutant: the entries of the previous registration stay.                  *)
RegisterCleanSkipped(r) ==
  /\ At(r, "reg_clean")
  /\ Goto(r, "reg_write")
  /\ UNCHANGED <<redisVars, query>>

(* ... take the connection out of the index of the channels it listed      *)
(* (errors ignored) ...                                                    *)
RegisterClean(r) ==
  /\ At(r, "reg_clean")
  /\ \/ index' = SRem(index, ChansOf(req[r].prev), req[r].conn)
     \/ Faults /\ index' = index
  /\ Goto(r, "reg_write")
  /\ UNCHANGED <<sess, ttl, query, torn>>

(* Mutant: only the keys not registered before are added to the index.     *)
RegisterWriteDelta(r) ==
  /\ At(r, "reg_write")
  /\ LET c == req[r].conn
         new == req[r].body
     IN /\ sess' = [sess EXCEPT ![c] = new]
        /\ ttl' = [ttl EXCEPT ![c] = TTL]
        /\ index' = SAdd(index, KeysOf(new) \ KeysOf(req[r].prev), c)
        /\ torn' = torn \ {c}
  /\ Goto(r, "done")
  /\ UNCHANGED query

(* ... and write the hash, its TTL and the index entries.                  *)
RegisterWrite(r) ==
  /\ At(r, "reg_write")
  /\ LET c == req[r].conn
         new == req[r].body
     IN /\ sess' = [sess EXCEPT ![c] = new]
        /\ ttl' = [ttl EXCEPT ![c] = TTL]
        /\ index' = SAdd(index, KeysOf(new), c)
        /\ torn' = torn \ {c}
  /\ Goto(r, "done")
  /\ UNCHANGED query

(* deregister: read the session; if there is none the handler is done.     *)
DeregisterRead(r) ==
  /\ At(r, "dereg_read")
  /\ \E prev \in HGetAll(req[r].conn) :
       req' = [req EXCEPT ![r].prev = prev,
                          ![r].pc = IF prev = NoSession THEN "done" ELSE "dereg_wipe"]
  /\ UNCHANGED <<redisVars, query>>

(* Mutant: the channel sets are forgotten.                                 *)
DeregisterWipeUserOnly(r) ==
  /\ At(r, "dereg_wipe")
  /\ LET c == req[r].conn
     IN /\ sess' = [sess EXCEPT ![c] = NoSession]
        /\ ttl' = [ttl EXCEPT ![c] = 0]
        /\ index' = SRem(index, {req[r].prev.user}, c)
  /\ Goto(r, "done")
  /\ UNCHANGED <<query, torn>>

(* Delete the hash, and the index entries of what was READ.                *)
DeregisterWipe(r) ==
  /\ At(r, "dereg_wipe")
  /\ LET c == req[r].conn
     IN /\ sess' = [sess EXCEPT ![c] = NoSession]
        /\ ttl' = [ttl EXCEPT ![c] = 0]
        /\ index' = SRem(index, KeysOf(req[r].prev), c)
  /\ Goto(r, "done")
  /\ UNCHANGED <<query, torn>>

(* heartbeat: 404 when the session is gone ...                             *)
HeartbeatExists(r) ==
  /\ At(r, "hb_exists")
  /\ Goto(r, IF sess[req[r].conn] = NoSession THEN "done" ELSE "hb_expire")
  /\ UNCHANGED <<redisVars, query>>

(* Mutant: the heartbeat only looks.                                       *)
HeartbeatExpireNoop(r) ==
  /\ At(r, "hb_expire")
  /\ Goto(r, "done")
  /\ UNCHANGED <<redisVars, query>>

(* ... else EXPIRE, which does nothing to a key deleted in the meantime.   *)
HeartbeatExpire(r) ==
  /\ At(r, "hb_expire")
  /\ LET c == req[r].conn
     IN ttl' = [ttl EXCEPT ![c] = IF sess[c] = NoSession THEN 0 ELSE TTL]
  /\ Goto(r, "done")
  /\ UNCHANGED <<sess, index, query, torn>>

(* The request's context is cancelled (its caller gave up or died) or      *)
(* Redis stays unreachable: the handler performs none of its later steps.  *)
Abort(r) ==
  /\ Faults
  /\ req[r] # Free /\ ~At(r, "done")
  /\ torn' = IF At(r, "reg_write") /\ ChansOf(req[r].prev) # {}
               THEN torn \cup {req[r].conn} ELSE torn
  /\ Goto(r, "done")
  /\ UNCHANGED <<sess, ttl, index, query>>

-----------------------------------------------------------------------------
(* GET /sessions?channel_id= and ?user_id=: both read an index set and     *)
(* then, in a second round trip, which of its connections have a hash.     *)
QueryStart(q, k) ==
  /\ query[q] = Free
  /\ query' = [query EXCEPT ![q] = [pc |-> "members", key |-> k, conns |-> {}]]
  /\ UNCHANGED <<redisVars, req>>

QueryMembers(q) ==
  /\ query[q] # Free /\ query[q].pc = "members"
  /\ query' = [query EXCEPT ![q].pc = "filter", ![q].conns = index[query[q].key]]
  /\ UNCHANGED <<redisVars, req>>

Live(conns) == {c \in conns : sess[c] # NoSession}

(* Mutant: the members of the index set are returned as they are.          *)
QueryFilterNone(q) ==
  /\ query[q] # Free /\ query[q].pc = "filter"
  /\ query' = [query EXCEPT ![q].pc = "done"]
  /\ UNCHANGED <<redisVars, req>>

QueryFilter(q) ==
  /\ query[q] # Free /\ query[q].pc = "filter"
  /\ query' = [query EXCEPT ![q].pc = "done", ![q].conns = Live(@)]
  /\ UNCHANGED <<redisVars, req>>

QueryEnd(q) ==
  /\ query[q] # Free /\ query[q].pc = "done"
  /\ query' = [query EXCEPT ![q] = Free]
  /\ UNCHANGED <<redisVars, req>>

-----------------------------------------------------------------------------
(* A heartbeat interval passes: Redis drops the hashes whose TTL runs out. *)
(* The index sets have no TTL.                                             *)
Elapse ==
  /\ ttl' = [c \in Conn |-> IF ttl[c] = 0 THEN 0 ELSE ttl[c] - 1]
  /\ sess' = [c \in Conn |-> IF ttl[c] <= 1 THEN NoSession ELSE sess[c]]
  /\ UNCHANGED <<index, req, query, torn>>

RequestStep(r) ==
  \/ RegisterRead(r) \/ RegisterClean(r) \/ RegisterWrite(r)
  \/ DeregisterRead(r) \/ DeregisterWipe(r)
  \/ HeartbeatExists(r) \/ HeartbeatExpire(r)

QueryStep(q) == QueryMembers(q) \/ QueryFilter(q)

(* Any client, any requests.                                               *)
Arrive(r) ==
  /\ \E c \in Conn :
       \/ \E body \in Session : Accept(r, "reg_read", c, body)
       \/ Accept(r, "dereg_read", c, NoSession)
       \/ Accept(r, "hb_exists", c, NoSession)
  /\ UNCHANGED <<redisVars, query>>

PresenceNext ==
  \/ \E r \in Req : Arrive(r) \/ RequestStep(r) \/ Abort(r) \/ Release(r)
  \/ \E q \in Query : QueryStep(q) \/ QueryEnd(q) \/ \E k \in Key : QueryStart(q, k)
  \/ Elapse

PresenceSpec == PresenceInit /\ [][PresenceNext]_presenceVars

-----------------------------------------------------------------------------
(* A register that has cleaned the index entry of ch and has yet to write. *)
Rewriting(c, ch) ==
  \E r \in Req : /\ At(r, "reg_write")
                 /\ req[r].conn = c
                 /\ ch \in ChansOf(req[r].prev)

(* Whatever requests interleave, a session that exists is found under its  *)
(* user, and under each channel it lists unless a register of the same     *)
(* connection is between its two pipelines or the last one stopped there.  *)
(* (register cleans the old index entries before it writes the new ones.)  *)
IndexCovers ==
  \A c \in Conn : sess[c] # NoSession =>
    /\ c \in index[sess[c].user]
    /\ \A ch \in sess[c].chans : c \in index[ch] \/ Rewriting(c, ch) \/ c \in torn
=============================================================================

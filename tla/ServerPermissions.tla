------------------------- MODULE ServerPermissions -------------------------
(***************************************************************************)
(* The servers service: servers, channels, memberships and roles in        *)
(* PostgreSQL, and CheckPerm, which every other service asks before it     *)
(* acts for a user.  CheckPerm reads the membership from the database and  *)
(* the permissions of the user's roles through a Caffeine cache.           *)
(*                                                                         *)
(* Requests run concurrently at READ COMMITTED.  A method that reads       *)
(* before it writes is two actions, its checks and its commit; one whose   *)
(* checks read nothing that can change is one action.  A request that      *)
(* fails its checks changes nothing and is left out.  Names, channel types *)
(* and the username cache, which no permission depends on, are too.        *)
(***************************************************************************)
EXTENDS FiniteSets, Naturals

CONSTANTS
  Server, User, Channel,  \* identifiers
  Founder,                \* the users who create servers
  Custom, Grant,          \* the names and permission sets createRole is given
  Permission,             \* holds "MANAGE" and others
  Req,                    \* slots for concurrent requests
  None

ASSUME PermissionAssumption ==
  /\ "MANAGE" \in Permission /\ Permission # {"MANAGE"}
  /\ Founder \subseteq User
  /\ Grant \subseteq (SUBSET Permission) \ {{}}
  /\ None \notin User \cup Server

VARIABLES
  owner,    \* server -> its owner, None before createServer
  perms,    \* <<server, role>> -> its permissions, {} before the role exists
  closed,   \* servers with deleted = true
  home,     \* channel -> its server, None before createChannel
  removed,  \* channels with deleted = true
  members,  \* memberships
  given,    \* membership_roles
  cache,    \* roleLookup: <<server, user>> -> permissions, or None
  req,      \* slot -> the request in progress, or None
  held      \* history: <<server, user>> -> every permission ever held

vars == <<owner, perms, closed, home, removed, members, given, cache, req, held>>
tables == <<owner, perms, closed, home, removed, members, given, held>>

Role == {"@everyone", "@owner"} \cup Custom
Key == Server \X User
Open == {s \in Server : owner[s] # None} \ closed

Write == [op: {"join", "leave"}, s: Server, u: User]
Assign == [op: {"assign"}, s: Server, u: User, role: Role]
NewChannel == [op: {"channel"}, s: Server]

(* perms is what the answer is made from: a check that is done allows the  *)
(* actions in it and no other; one that allows nothing is over at once.    *)
(* inside is a history field: was the user a member since the call began?  *)
Check == [op: {"check"}, pc: {"member", "cache", "read", "fill", "done"},
          s: Server, u: User, perms: SUBSET Permission, inside: BOOLEAN]

(* Type invariant.                                                         *)
TypeOK ==
  /\ owner \in [Server -> User \cup {None}]
  /\ perms \in [Server \X Role -> SUBSET Permission]
  /\ closed \subseteq Server
  /\ home \in [Channel -> Server \cup {None}]
  /\ removed \subseteq Channel
  /\ members \subseteq Key
  /\ given \subseteq Server \X User \X Role
  /\ cache \in [Key -> (SUBSET Permission) \cup {None}]
  /\ req \in [Req -> Write \cup Assign \cup NewChannel \cup Check \cup {None}]
  /\ held \in [Key -> SUBSET Permission]

Init ==
  /\ owner = [s \in Server |-> None] /\ closed = {}
  /\ perms = [sr \in Server \X Role |-> {}]
  /\ home = [c \in Channel |-> None] /\ removed = {}
  /\ members = {} /\ given = {}
  /\ cache = [k \in Key |-> None]
  /\ req = [r \in Req |-> None]
  /\ held = [k \in Key |-> {}]

(* findRolesByUserAndServer and the union of their permissions.            *)
Permissions(s, u) ==
  UNION {perms[<<s, n>>] : n \in {x \in Role : <<s, u, x>> \in given}}

Begin(r, q) == req[r] = None /\ req' = [req EXCEPT ![r] = q]
Doing(r, op) == req[r] # None /\ req[r].op = op
End(r) == req' = [req EXCEPT ![r] = None]

---------------------------------------------------------------------------
(* The tables.                                                             *)

(* createServer: the server, its two roles, the owner's membership.        *)
CreateServer(s, u) ==
  /\ owner[s] = None /\ u \in Founder
  /\ owner' = [owner EXCEPT ![s] = u]
  /\ perms' = [perms EXCEPT ![<<s, "@everyone">>] = Permission \ {"MANAGE"},
                            ![<<s, "@owner">>] = Permission]
  /\ members' = members \cup {<<s, u>>}
  /\ given' = given \cup {<<s, u, "@owner">>}
  /\ held' = [held EXCEPT ![<<s, u>>] = @ \cup Permission]
  /\ UNCHANGED <<closed, home, removed, cache, req>>

(* Neither the channels nor the memberships of the server are touched.     *)
DeleteServer(s, u) ==
  /\ s \in Open /\ owner[s] = u
  /\ closed' = closed \cup {s}
  /\ UNCHANGED <<owner, perms, home, removed, members, given, cache, req, held>>

(* Any caller may create a role; (server, name) is unique.                 *)
CreateRole(s, n, P) ==
  /\ s \in Open
  /\ perms[<<s, n>>] = {}
  /\ perms' = [perms EXCEPT ![<<s, n>>] = P]
  /\ UNCHANGED <<owner, closed, home, removed, members, given, cache, req, held>>

(* joinServer, up to its 409.                                              *)
JoinCheck(r, s, u) ==
  /\ s \in Open /\ <<s, u>> \notin members
  /\ Begin(r, [op |-> "join", s |-> s, u |-> u])
  /\ UNCHANGED <<tables, cache>>

(* Checks of (s, u) in flight learn that the user has been a member.       *)
Witness(r, s, u) ==
  req' = [x \in Req |->
            IF x = r THEN None
            ELSE IF Doing(x, "check") /\ req[x].s = s /\ req[x].u = u
                   THEN [req[x] EXCEPT !.inside = TRUE]
                   ELSE req[x]]

(* A second join of the same user meets the primary key and rolls back.    *)
JoinInsert(r) ==
  /\ Doing(r, "join")
  /\ LET s == req[r].s
         u == req[r].u IN
     \/ /\ <<s, u>> \notin members
        /\ members' = members \cup {<<s, u>>}
        /\ given' = given \cup {<<s, u, "@everyone">>}
        /\ held' = [held EXCEPT ![<<s, u>>] = @ \cup perms[<<s, "@everyone">>]]
        /\ Witness(r, s, u)
     \/ <<s, u>> \in members /\ End(r) /\ UNCHANGED <<members, given, held>>
  /\ UNCHANGED <<owner, perms, closed, home, removed, cache>>

(* leaveServer: the owner cannot leave.                                    *)
LeaveCheck(r, s, u) ==
  /\ s \in Open /\ owner[s] # u /\ <<s, u>> \in members
  /\ Begin(r, [op |-> "leave", s |-> s, u |-> u])
  /\ UNCHANGED <<tables, cache>>

(* The foreign key of membership_roles cascades.                           *)
LeaveDelete(r) ==
  /\ Doing(r, "leave")
  /\ members' = members \ {<<req[r].s, req[r].u>>}
  /\ given' = {x \in given : <<x[1], x[2]>> # <<req[r].s, req[r].u>>}
  /\ End(r)
  /\ UNCHANGED <<owner, perms, closed, home, removed, cache, held>>

(* by needs MANAGE in the database, or is the owner.                       *)
AssignCheck(r, s, by, u, role) ==
  /\ s \in Open /\ <<s, u>> \in members
  /\ perms[role] # {} /\ role[1] = s
  /\ owner[s] = by \/ "MANAGE" \in Permissions(s, by)
  /\ Begin(r, [op |-> "assign", s |-> s, u |-> u, role |-> role[2]])
  /\ UNCHANGED <<tables, cache>>

(* Mutant: membership_roles has no foreign key to memberships.             *)
AssignInsertUnreferenced(r) ==
  /\ Doing(r, "assign")
  /\ LET s == req[r].s
         u == req[r].u IN
     /\ given' = given \cup {<<s, u, req[r].role>>}
     /\ held' = [held EXCEPT ![<<s, u>>] = @ \cup perms[<<s, req[r].role>>]]
  /\ End(r)
  /\ UNCHANGED <<owner, perms, closed, home, removed, members, cache>>

(* The foreign key refuses a row for someone who has left meanwhile.       *)
AssignInsert(r) ==
  /\ Doing(r, "assign")
  /\ LET s == req[r].s
         u == req[r].u IN
     \/ /\ <<s, u>> \in members
        /\ given' = given \cup {<<s, u, req[r].role>>}
        /\ held' = [held EXCEPT ![<<s, u>>] = @ \cup perms[<<s, req[r].role>>]]
     \/ <<s, u>> \notin members /\ UNCHANGED <<given, held>>
  /\ End(r)
  /\ UNCHANGED <<owner, perms, closed, home, removed, members, cache>>

(* Bound: an unused channel id is left for every createChannel in progress.*)
SpareId ==
  Cardinality({r \in Req : Doing(r, "channel")}) < Cardinality({c \in Channel : home[c] = None})

(* createChannel, by any member.                                           *)
ChannelCheck(r, s, u) ==
  /\ s \in Open /\ <<s, u>> \in members
  /\ SpareId
  /\ Begin(r, [op |-> "channel", s |-> s])
  /\ UNCHANGED <<tables, cache>>

ChannelInsert(r, c) ==
  /\ Doing(r, "channel")
  /\ home[c] = None
  /\ home' = [home EXCEPT ![c] = req[r].s]
  /\ End(r)
  /\ UNCHANGED <<owner, perms, closed, removed, members, given, cache, held>>

(* deleteChannel, by the owner.                                            *)
DeleteChannel(s, c, u) ==
  /\ s \in Open /\ owner[s] = u
  /\ c \notin removed /\ home[c] = s
  /\ removed' = removed \cup {c}
  /\ UNCHANGED <<owner, perms, closed, home, members, given, cache, req, held>>

---------------------------------------------------------------------------
(* CheckPerm.                                                              *)

Ask(r, s, u) ==
  Begin(r, [op |-> "check", pc |-> "member", s |-> s, u |-> u, perms |-> {},
            inside |-> <<s, u>> \in members])

(* With a server id (chat) the channel is not looked at.                   *)
CheckByServer(r, s, u) ==
  /\ owner[s] # None
  /\ Ask(r, s, u)
  /\ UNCHANGED <<tables, cache>>

(* With a blank one (voice) the channel must exist, or the check is denied.*)
CheckByChannel(r, c, u) ==
  /\ home[c] # None /\ c \notin removed
  /\ Ask(r, home[c], u)
  /\ UNCHANGED <<tables, cache>>

At(r, pc) == Doing(r, "check") /\ req[r].pc = pc
Goto(r, pc, P) == req' = [req EXCEPT ![r].pc = pc, ![r].perms = P]
Answer(r, P) == IF P = {} THEN End(r) ELSE Goto(r, "done", P)

(* Mutant: the membership is not looked up.                                *)
CheckMemberSkipped(r) ==
  /\ At(r, "member")
  /\ Goto(r, "cache", {})
  /\ UNCHANGED <<tables, cache>>

(* The membership comes from the database, never from the cache.           *)
CheckMember(r) ==
  /\ At(r, "member")
  /\ IF <<req[r].s, req[r].u>> \in members THEN Goto(r, "cache", {}) ELSE Answer(r, {})
  /\ UNCHANGED <<tables, cache>>

(* @Cacheable: a hit is the answer.                                        *)
CheckCache(r) ==
  /\ At(r, "cache")
  /\ LET got == cache[<<req[r].s, req[r].u>>] IN
     IF got = None THEN Goto(r, "read", {}) ELSE Answer(r, got)
  /\ UNCHANGED <<tables, cache>>

(* A miss: the roles are read ...                                          *)
CheckRead(r) ==
  /\ At(r, "read")
  /\ Goto(r, "fill", Permissions(req[r].s, req[r].u))
  /\ UNCHANGED <<tables, cache>>

(* Mutant: the cache key leaves out the user.                              *)
CheckFillByServer(r) ==
  /\ At(r, "fill")
  /\ cache' = [k \in Key |-> IF k[1] = req[r].s THEN req[r].perms ELSE cache[k]]
  /\ Answer(r, req[r].perms)
  /\ UNCHANGED tables

(* ... and put into the cache, whatever has been cached or changed since.  *)
CheckFill(r) ==
  /\ At(r, "fill")
  /\ cache' = [cache EXCEPT ![<<req[r].s, req[r].u>>] = req[r].perms]
  /\ Answer(r, req[r].perms)
  /\ UNCHANGED tables

Reply(r) ==
  /\ At(r, "done")
  /\ End(r)
  /\ UNCHANGED <<tables, cache>>

(* Mutant: an empty permission set is cached for ever.                     *)
CacheExpireOnlyFull(k) ==
  /\ cache[k] \notin {None, {}}
  /\ cache' = [cache EXCEPT ![k] = None]
  /\ UNCHANGED <<tables, req>>

(* 60 s after the write, or when the cache is full.                        *)
CacheExpire(k) ==
  /\ cache[k] # None
  /\ cache' = [cache EXCEPT ![k] = None]
  /\ UNCHANGED <<tables, req>>

---------------------------------------------------------------------------
Admin ==
  \E s \in Server, u \in User :
    \/ CreateServer(s, u)
    \/ DeleteServer(s, u)
    \/ \E n \in Custom, P \in Grant : CreateRole(s, n, P)
    \/ \E c \in Channel : DeleteChannel(s, c, u)

Call(r) ==
  \E s \in Server, u \in User :
    \/ JoinCheck(r, s, u)
    \/ LeaveCheck(r, s, u)
    \/ \E by \in User, role \in Server \X Role : AssignCheck(r, s, by, u, role)
    \/ ChannelCheck(r, s, u)
    \/ CheckByServer(r, s, u)
    \/ \E c \in Channel : CheckByChannel(r, c, u)

Serve(r) ==
  \/ JoinInsert(r) \/ LeaveDelete(r) \/ AssignInsert(r)
  \/ \E c \in Channel : ChannelInsert(r, c)
  \/ CheckMember(r) \/ CheckCache(r) \/ CheckRead(r) \/ CheckFill(r) \/ Reply(r)

Next ==
  \/ Admin
  \/ \E r \in Req : Call(r) \/ Serve(r)
  \/ \E k \in Key : CacheExpire(k)

(* Requests that have started are served, and cache entries expire.        *)
Spec ==
  /\ Init /\ [][Next]_vars
  /\ \A r \in Req : WF_vars(Serve(r))
  /\ \A k \in Key : WF_vars(CacheExpire(k))

---------------------------------------------------------------------------
(* Role rows follow memberships: an assignRole that races a leave leaves   *)
(* no role behind for the user to find on joining again.                   *)
RolesNeedMembership == \A x \in given : <<x[1], x[2]>> \in members

(* A server's owner never loses the membership or the @owner role that     *)
(* createServer gave: whoever can delete a server can also act in it.      *)
OwnerKeepsAll ==
  \A s \in Server : owner[s] # None =>
     /\ <<s, owner[s]>> \in members
     /\ Permissions(s, owner[s]) = Permission

(* Whatever the cache and the checks in flight go through, CheckPerm only  *)
(* allows what some role of that user in that server once granted.         *)
AllowedWasGranted ==
  /\ \A k \in Key : cache[k] = None \/ cache[k] \subseteq held[k]
  /\ \A r \in Req : At(r, "done") => req[r].perms \subseteq held[<<req[r].s, req[r].u>>]

(* Leaving a server takes access away at once, cached permissions or not:  *)
(* a check is allowed only if the user was a member while it ran.          *)
AllowedInside == \A r \in Req : At(r, "done") => req[r].inside

CacheAgrees == \A k \in Key : cache[k] = None \/ cache[k] = Permissions(k[1], k[2])

(* When roles stop changing, stale entries, and those a check in flight    *)
(* still writes, die out: CheckPerm ends up answering from the live roles. *)
PermissionsConverge == (<>[][given' = given]_vars) => <>[]CacheAgrees
=============================================================================

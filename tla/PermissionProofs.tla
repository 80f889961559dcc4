-------------------------- MODULE PermissionProofs --------------------------
(***************************************************************************)
(* Proofs about the servers service, for any servers, users, roles,        *)
(* permissions and numbers of concurrent requests.                         *)
(***************************************************************************)
EXTENDS ServerPermissions, TLAPS

(* A server that was created keeps its roles, and its owner the role.      *)
Founded ==
  \A s \in Server : owner[s] # None =>
    /\ owner[s] \in User
    /\ <<s, owner[s]>> \in members
    /\ <<s, owner[s], "@owner">> \in given
    /\ perms[<<s, "@owner">>] = Permission
    /\ perms[<<s, "@everyone">>] # {}

(* Channels belong to servers that were created.                           *)
Housed == \A c \in Channel : home[c] # None => owner[home[c]] # None

(* A role that is given exists, is given to a member and has been counted. *)
GivenCounted ==
  \A s \in Server, u \in User, n \in Role : <<s, u, n>> \in given =>
    /\ owner[s] # None
    /\ <<s, u>> \in members
    /\ perms[<<s, n>>] # {}
    /\ perms[<<s, n>>] \subseteq held[<<s, u>>]

CacheCounted == \A k \in Key : cache[k] = None \/ cache[k] \subseteq held[k]

(* What the checks of a request established and no other request undoes.   *)
Checked(q) ==
  /\ owner[q.s] # None
  /\ q.op = "leave" => owner[q.s] # q.u
  /\ q.op = "assign" => perms[<<q.s, q.role>>] # {}
  /\ q.op = "check" =>
       /\ q.inside \/ (q.pc = "member" /\ <<q.s, q.u>> \notin members)
       /\ q.perms \subseteq held[<<q.s, q.u>>]
Established == \A r \in Req : req[r] # None => Checked(req[r])

(* The inductive invariant.                                                *)
Inv ==
  /\ TypeOK /\ Founded /\ Housed /\ GivenCounted /\ CacheCounted /\ Established

AnyRequest == Write \cup Assign \cup NewChannel \cup Check

(* The operation tells the kind of a request.                              *)
LEMMA Kinds ==
  ASSUME TypeOK, NEW r \in Req
  PROVE  /\ Doing(r, "join") \/ Doing(r, "leave") => req[r] \in Write
         /\ Doing(r, "assign") => req[r] \in Assign
         /\ Doing(r, "channel") => req[r] \in NewChannel
         /\ Doing(r, "check") => req[r] \in Check
<1>1. req[r] = None \/ req[r] \in Write \cup Assign \cup NewChannel \cup Check
  BY DEF TypeOK
<1> QED BY <1>1 DEF Doing, Write, Assign, NewChannel, Check

(* The initial state: empty tables.                                        *)
LEMMA InvInit == Init => Inv
<1> SUFFICES ASSUME Init PROVE Inv OBVIOUS
<1>1. TypeOK BY DEF Init, TypeOK
<1>2. Founded /\ Housed /\ GivenCounted /\ CacheCounted /\ Established
  BY DEF Init, Founded, Housed, GivenCounted, CacheCounted, Established
<1> QED BY <1>1, <1>2 DEF Inv

(* A step of one request that leaves the tables alone keeps the invariant  *)
(* if what it makes of the request, and of the cache, is in order.         *)
LEMMA RequestMoves ==
  ASSUME Inv, NEW r \in Req, NEW q, UNCHANGED tables,
         req' = [req EXCEPT ![r] = q],
         q = None \/ q \in AnyRequest,
         q # None => Checked(q),
         cache' \in [Key -> (SUBSET Permission) \cup {None}], CacheCounted'
  PROVE  Inv'
<1>1. TypeOK'
  BY DEF Inv, TypeOK, tables, AnyRequest
<1>2. (Founded /\ Housed /\ GivenCounted)'
  BY DEF Inv, Founded, Housed, GivenCounted, tables
<1>3. Established'
  <2> SUFFICES ASSUME NEW x \in Req, req'[x] # None PROVE Checked(req[x])'
    BY DEF Established
  <2>1. req'[x] = IF x = r THEN q ELSE req[x] BY DEF Inv, TypeOK
  <2>2. Checked(req'[x])
    BY <2>1 DEF Inv, Established
  <2> QED BY <2>2 DEF Checked, tables
<1> QED BY <1>1, <1>2, <1>3 DEF Inv

(* A request that begins in order keeps the invariant.                     *)
LEMMA BeginKeeps ==
  ASSUME Inv, NEW r \in Req, NEW q \in AnyRequest, Checked(q), Begin(r, q),
         UNCHANGED <<tables, cache>>
  PROVE  Inv'
<1>1. cache' \in [Key -> (SUBSET Permission) \cup {None}] /\ CacheCounted'
  BY DEF Inv, TypeOK, CacheCounted, tables
<1> QED BY <1>1, RequestMoves DEF Begin

(* A CheckPerm about a server that was created.                            *)
LEMMA AskKeeps ==
  ASSUME Inv, NEW r \in Req, NEW s \in Server, NEW u \in User, owner[s] # None,
         Ask(r, s, u), UNCHANGED <<tables, cache>>
  PROVE  Inv'
<1> DEFINE q == [op |-> "check", pc |-> "member", s |-> s, u |-> u, perms |-> {},
                 inside |-> <<s, u>> \in members]
<1>1. (<<s, u>> \in members) \in BOOLEAN OBVIOUS
<1>2. q \in AnyRequest BY <1>1 DEF AnyRequest, Check
<1>3. Checked(q) BY DEF Checked
<1>4. Begin(r, q) BY DEF Ask
<1> QED BY <1>2, <1>3, <1>4, BeginKeeps

(* The checks with which requests begin.                                   *)
LEMMA CallKeeps ==
  ASSUME Inv, NEW r \in Req, Call(r)
  PROVE  Inv'
<1> USE DEF Inv, TypeOK
<1>1. PICK s \in Server, u \in User :
        \/ JoinCheck(r, s, u)
        \/ LeaveCheck(r, s, u)
        \/ \E by \in User, role \in Server \X Role : AssignCheck(r, s, by, u, role)
        \/ ChannelCheck(r, s, u)
        \/ CheckByServer(r, s, u)
        \/ \E c \in Channel : CheckByChannel(r, c, u)
  BY DEF Call
<1>2. CASE JoinCheck(r, s, u)
  <2> DEFINE q == [op |-> "join", s |-> s, u |-> u]
  <2>1. q \in AnyRequest /\ Checked(q)
    BY <1>2 DEF JoinCheck, Open, Write, AnyRequest, Checked
  <2>2. Begin(r, q) /\ UNCHANGED <<tables, cache>> BY <1>2 DEF JoinCheck
  <2> QED BY <2>1, <2>2, BeginKeeps
<1>3. CASE LeaveCheck(r, s, u)
  <2> DEFINE q == [op |-> "leave", s |-> s, u |-> u]
  <2>1. q \in AnyRequest /\ Checked(q)
    BY <1>3 DEF LeaveCheck, Open, Write, AnyRequest, Checked
  <2>2. Begin(r, q) /\ UNCHANGED <<tables, cache>> BY <1>3 DEF LeaveCheck
  <2> QED BY <2>1, <2>2, BeginKeeps
<1>4. ASSUME NEW by \in User, NEW role \in Server \X Role, AssignCheck(r, s, by, u, role)
      PROVE  Inv'
  <2> DEFINE q == [op |-> "assign", s |-> s, u |-> u, role |-> role[2]]
  <2>1. role = <<s, role[2]>> /\ role[2] \in Role BY <1>4 DEF AssignCheck
  <2>2. perms[<<s, role[2]>>] # {} /\ owner[s] # None BY <1>4, <2>1 DEF AssignCheck, Open
  <2>3. q \in AnyRequest /\ Checked(q) BY <2>1, <2>2 DEF AnyRequest, Assign, Checked
  <2>4. Begin(r, q) /\ UNCHANGED <<tables, cache>> BY <1>4 DEF AssignCheck
  <2> QED BY <2>3, <2>4, BeginKeeps
<1>5. CASE ChannelCheck(r, s, u)
  <2> DEFINE q == [op |-> "channel", s |-> s]
  <2>1. q \in AnyRequest /\ Checked(q)
    BY <1>5 DEF ChannelCheck, Open, NewChannel, AnyRequest, Checked
  <2>2. Begin(r, q) /\ UNCHANGED <<tables, cache>> BY <1>5 DEF ChannelCheck
  <2> QED BY <2>1, <2>2, BeginKeeps
<1>6. CASE CheckByServer(r, s, u)
  BY <1>6, AskKeeps DEF CheckByServer
<1>7. ASSUME NEW c \in Channel, CheckByChannel(r, c, u) PROVE Inv'
  <2>1. home[c] \in Server /\ owner[home[c]] # None BY <1>7 DEF CheckByChannel, Housed
  <2> QED BY <1>7, <2>1, AskKeeps DEF CheckByChannel
<1> QED BY <1>1, <1>2, <1>3, <1>4, <1>5, <1>6, <1>7

(* A check goes on, or is over, with permissions that were held.           *)
LEMMA CheckGoesOn ==
  ASSUME Inv, NEW r \in Req, Doing(r, "check"), NEW P \in SUBSET Permission,
         NEW pc \in {"cache", "read", "fill", "done"}, Goto(r, pc, P), UNCHANGED tables,
         req[r].inside \/ <<req[r].s, req[r].u>> \in members,
         P \subseteq held[<<req[r].s, req[r].u>>],
         cache' \in [Key -> (SUBSET Permission) \cup {None}], CacheCounted'
  PROVE  Inv'
<1> DEFINE q == [req[r] EXCEPT !.pc = pc, !.perms = P]
<1>1. req[r] \in Check /\ req[r] # None /\ Checked(req[r])
  BY Kinds DEF Inv, Established, Doing
<1>2. q \in Check /\ q.s = req[r].s /\ q.u = req[r].u /\ q.perms = P /\ q.op = "check"
      /\ q.inside = req[r].inside
  BY <1>1 DEF Check
<1>3. Checked(q)
  BY <1>1, <1>2 DEF Checked, Doing
<1>4. req' = [req EXCEPT ![r] = q]
  BY DEF Goto, Inv, TypeOK
<1> QED BY <1>2, <1>3, <1>4, RequestMoves DEF AnyRequest

(* A request is over.                                                      *)
LEMMA EndKeeps ==
  ASSUME Inv, NEW r \in Req, End(r), UNCHANGED tables,
         cache' \in [Key -> (SUBSET Permission) \cup {None}], CacheCounted'
  PROVE  Inv'
BY RequestMoves DEF End

(* What the roles of a user grant has been held.                           *)
LEMMA LiveIsHeld ==
  ASSUME Inv, NEW s \in Server, NEW u \in User
  PROVE  Permissions(s, u) \in SUBSET Permission /\ Permissions(s, u) \subseteq held[<<s, u>>]
<1> SUFFICES ASSUME NEW p \in Permissions(s, u)
             PROVE  p \in Permission /\ p \in held[<<s, u>>]
  OBVIOUS
<1>1. PICK n \in Role : <<s, u, n>> \in given /\ p \in perms[<<s, n>>]
  BY DEF Permissions
<1>2. <<s, n>> \in Server \X Role OBVIOUS
<1>3. perms[<<s, n>>] \subseteq Permission BY <1>2 DEF Inv, TypeOK
<1> QED BY <1>1, <1>3 DEF Inv, GivenCounted

(* Looking up the membership, the cache and the roles, filling the cache   *)
(* and answering.                                                          *)
LEMMA CheckKeeps ==
  ASSUME Inv, NEW r \in Req,
         CheckMember(r) \/ CheckCache(r) \/ CheckRead(r) \/ CheckFill(r) \/ Reply(r)
  PROVE  Inv'
<1> DEFINE s == req[r].s
           u == req[r].u
<1>1. Doing(r, "check") BY DEF CheckMember, CheckCache, CheckRead, CheckFill, Reply, At
<1>2. /\ s \in Server /\ u \in User /\ <<s, u>> \in Key /\ req[r].perms \in SUBSET Permission
      /\ req[r].perms \subseteq held[<<s, u>>]
      /\ req[r].pc # "member" => req[r].inside
  <2>1. req[r] \in Check BY <1>1, Kinds DEF Inv
  <2>2. Checked(req[r]) /\ req[r].op = "check" BY <1>1 DEF Inv, Established, Doing
  <2> QED BY <2>1, <2>2 DEF Check, Checked, Key
<1>3. UNCHANGED tables
  BY DEF CheckMember, CheckCache, CheckRead, CheckFill, Reply, tables
<1>4. cache' \in [Key -> (SUBSET Permission) \cup {None}] /\ CacheCounted'
  <2>1. CASE cache' = cache BY <2>1, <1>3 DEF Inv, TypeOK, CacheCounted, tables
  <2>2. CASE cache' = [cache EXCEPT ![<<s, u>>] = req[r].perms]
    BY <2>2, <1>2, <1>3 DEF Inv, TypeOK, CacheCounted, tables
  <2> QED BY <2>1, <2>2 DEF CheckMember, CheckCache, CheckRead, CheckFill, Reply
<1>5. ASSUME NEW P \in SUBSET Permission, Answer(r, P), P \subseteq held[<<s, u>>],
             req[r].inside \/ P = {}
      PROVE  Inv'
  <2>1. CASE P = {} BY <2>1, <1>3, <1>4, <1>5, EndKeeps DEF Answer
  <2>2. CASE P # {} BY <2>2, <1>1, <1>3, <1>4, <1>5, CheckGoesOn DEF Answer
  <2> QED BY <2>1, <2>2
<1>6. CASE CheckMember(r)
  <2>1. CASE <<s, u>> \in members
    <3>1. Goto(r, "cache", {}) BY <1>6, <2>1 DEF CheckMember
    <3> QED BY <3>1, <2>1, <1>1, <1>3, <1>4, CheckGoesOn
  <2>2. CASE <<s, u>> \notin members
    BY <1>5, <1>6, <2>2 DEF CheckMember
  <2> QED BY <2>1, <2>2
<1>7. CASE CheckCache(r)
  <2>1. req[r].inside BY <1>2, <1>7 DEF CheckCache, At
  <2>2. CASE cache[<<s, u>>] = None
    <3>1. Goto(r, "read", {}) BY <1>7, <2>2 DEF CheckCache
    <3> QED BY <3>1, <2>1, <1>1, <1>3, <1>4, CheckGoesOn
  <2>3. CASE cache[<<s, u>>] # None
    <3>1. /\ cache[<<s, u>>] \in SUBSET Permission
          /\ cache[<<s, u>>] \subseteq held[<<s, u>>]
      BY <1>2, <2>3 DEF Inv, TypeOK, CacheCounted
    <3>2. Answer(r, cache[<<s, u>>]) BY <1>7, <2>3 DEF CheckCache
    <3> QED BY <3>1, <3>2, <2>1, <1>5
  <2> QED BY <2>2, <2>3
<1>8. CASE CheckRead(r)
  <2>1. req[r].inside BY <1>2, <1>8 DEF CheckRead, At
  <2>2. /\ Permissions(s, u) \in SUBSET Permission
        /\ Permissions(s, u) \subseteq held[<<s, u>>]
    BY <1>2, LiveIsHeld
  <2>3. Goto(r, "fill", Permissions(s, u)) BY <1>8 DEF CheckRead
  <2> QED BY <2>1, <2>2, <2>3, <1>1, <1>3, <1>4, CheckGoesOn
<1>9. CASE CheckFill(r)
  BY <1>2, <1>5, <1>9 DEF CheckFill, At
<1>10. CASE Reply(r)
  BY <1>3, <1>4, <1>10, EndKeeps DEF Reply
<1> QED BY <1>6, <1>7, <1>8, <1>9, <1>10

(* A cached entry expires.                                                 *)
LEMMA ExpireKeeps ==
  ASSUME Inv, NEW k \in Key, CacheExpire(k)
  PROVE  Inv'
<1>1. TypeOK' /\ CacheCounted'
  BY DEF Inv, TypeOK, CacheCounted, CacheExpire, tables
<1>2. (Founded /\ Housed /\ GivenCounted /\ Established)'
  BY DEF Inv, Founded, Housed, GivenCounted, Established, Checked, CacheExpire, tables
<1> QED BY <1>1, <1>2 DEF Inv

(* What the checks of a request established stays when tables change, if   *)
(* owners, roles and what was held stay and the user did not get in.       *)
LEMMA CheckedStays ==
  ASSUME NEW q \in AnyRequest, Checked(q), owner'[q.s] = owner[q.s],
         \A t \in Server, n \in Role : perms[<<t, n>>] # {} => perms'[<<t, n>>] # {},
         \A k \in Key : held[k] \subseteq held'[k],
         q.op = "check" /\ ~q.inside /\ <<q.s, q.u>> \in members' => <<q.s, q.u>> \in members
  PROVE  Checked(q)'
<1>1. q.op = "assign" => q.s \in Server /\ q.role \in Role
  BY DEF AnyRequest, Write, Assign, NewChannel, Check
<1>2. q.op = "check" => <<q.s, q.u>> \in Key
  BY DEF AnyRequest, Write, Assign, NewChannel, Check, Key
<1> QED BY <1>1, <1>2 DEF Checked

(* createServer: nothing refers to a server that does not exist yet.       *)
LEMMA CreateServerKeeps ==
  ASSUME Inv, NEW s \in Server, NEW u \in User, CreateServer(s, u)
  PROVE  Inv'
<1> USE PermissionAssumption
<1>1. /\ \A t \in Server : owner'[t] = IF t = s THEN u ELSE owner[t]
      /\ \A k \in Key : held[k] \subseteq held'[k]
      /\ held'[<<s, u>>] = held[<<s, u>>] \cup Permission
      /\ \A t \in Server, n \in Role :
           t # s => perms'[<<t, n>>] = perms[<<t, n>>]
      /\ perms'[<<s, "@owner">>] = Permission
      /\ perms'[<<s, "@everyone">>] = Permission \ {"MANAGE"}
      /\ members' = members \cup {<<s, u>>}
      /\ given' = given \cup {<<s, u, "@owner">>}
      /\ UNCHANGED <<closed, home, removed, cache, req>>
      /\ owner[s] = None /\ u # None
  BY DEF CreateServer, Inv, TypeOK, Key, Role
<1>2. TypeOK'
  <2>1. owner' \in [Server -> User \cup {None}] BY DEF CreateServer, Inv, TypeOK
  <2>2. perms' \in [Server \X Role -> SUBSET Permission] BY DEF CreateServer, Inv, TypeOK
  <2>3. held' \in [Key -> SUBSET Permission] BY DEF CreateServer, Inv, TypeOK
  <2>4. members' \subseteq Key /\ given' \subseteq Server \X User \X Role
    BY <1>1 DEF Inv, TypeOK, Key, Role
  <2> QED BY <1>1, <2>1, <2>2, <2>3, <2>4 DEF Inv, TypeOK
<1>3. Permission \ {"MANAGE"} # {} OBVIOUS
<1>4. \A n \in Role : n \notin {"@owner", "@everyone"} => perms'[<<s, n>>] = perms[<<s, n>>]
  BY DEF CreateServer, Inv, TypeOK
<1>5. Founded'
  <2> SUFFICES ASSUME NEW t \in Server, owner'[t] # None
               PROVE  /\ owner'[t] \in User /\ <<t, owner'[t]>> \in members'
                      /\ <<t, owner'[t], "@owner">> \in given'
                      /\ perms'[<<t, "@owner">>] = Permission
                      /\ perms'[<<t, "@everyone">>] # {}
    BY DEF Founded
  <2>1. CASE t = s BY <1>1, <1>3, <2>1
  <2>2. CASE t # s
    <3>1. /\ owner'[t] = owner[t] /\ perms'[<<t, "@owner">>] = perms[<<t, "@owner">>]
          /\ perms'[<<t, "@everyone">>] = perms[<<t, "@everyone">>]
      BY <1>1, <2>2 DEF Role
    <3> QED BY <1>1, <3>1 DEF Inv, Founded
  <2> QED BY <2>1, <2>2
<1>6. Housed'
  BY <1>1 DEF Inv, TypeOK, Housed
<1>7. GivenCounted'
  <2> SUFFICES ASSUME NEW t \in Server, NEW w \in User, NEW n \in Role, <<t, w, n>> \in given'
               PROVE  /\ owner'[t] # None /\ <<t, w>> \in members'
                      /\ perms'[<<t, n>>] # {} /\ perms'[<<t, n>>] \subseteq held'[<<t, w>>]
    BY DEF GivenCounted
  <2>1. CASE <<t, w, n>> \in given
    <3>1. t # s /\ <<t, w>> \in Key BY <2>1, <1>1 DEF Inv, GivenCounted, Key
    <3> QED BY <2>1, <3>1, <1>1 DEF Inv, GivenCounted
  <2>2. CASE <<t, w, n>> = <<s, u, "@owner">>
    BY <2>2, <1>1
  <2> QED BY <1>1, <2>1, <2>2
<1>8. CacheCounted'
  BY <1>1 DEF Inv, CacheCounted
<1>9. Established'
  <2> SUFFICES ASSUME NEW x \in Req, req[x] # None PROVE Checked(req[x])'
    BY <1>1 DEF Established
  <2>1. Checked(req[x]) /\ req'[x] = req[x] BY <1>1 DEF Inv, Established
  <2>2. req[x] \in AnyRequest BY DEF Inv, TypeOK, AnyRequest
  <2>3. req[x].s \in Server /\ req[x].s # s
    BY <1>1, <2>1, <2>2 DEF Checked, AnyRequest, Write, Assign, NewChannel, Check
  <2>4. \A t \in Server, n \in Role : perms[<<t, n>>] # {} => perms'[<<t, n>>] # {}
    BY <1>1, <1>3, <1>4
  <2> QED BY <1>1, <2>1, <2>2, <2>3, <2>4, CheckedStays
<1> QED BY <1>2, <1>5, <1>6, <1>7, <1>8, <1>9 DEF Inv

(* Steps that only mark servers or channels, or add a channel.             *)
LEMMA MarkKeeps ==
  ASSUME Inv, UNCHANGED <<owner, perms, members, given, cache, held>>,
         closed' \subseteq Server, removed' \subseteq Channel,
         home' \in [Channel -> Server \cup {None}], Housed',
         \/ req' = req
         \/ \E r \in Req : End(r)
  PROVE  Inv'
<1>1. \A x \in Req : req'[x] = req[x] \/ req'[x] = None BY DEF End, Inv, TypeOK
<1>2. req' \in [Req -> Write \cup Assign \cup NewChannel \cup Check \cup {None}]
  BY DEF End, Inv, TypeOK
<1>3. TypeOK' BY <1>2 DEF Inv, TypeOK
<1>4. (Founded /\ GivenCounted /\ CacheCounted)'
  BY DEF Inv, Founded, GivenCounted, CacheCounted
<1>5. Established'
  BY <1>1 DEF Inv, Established, Checked
<1> QED BY <1>3, <1>4, <1>5 DEF Inv

(* createRole: nobody has been given a role that does not exist.           *)
LEMMA CreateRoleKeeps ==
  ASSUME Inv, NEW s \in Server, NEW n \in Custom, NEW P \in Grant, CreateRole(s, n, P)
  PROVE  Inv'
<1> USE PermissionAssumption
<1>1. /\ <<s, n>> \in Server \X Role /\ P \in SUBSET Permission /\ P # {}
      /\ perms[<<s, n>>] = {}
      /\ perms' \in [Server \X Role -> SUBSET Permission]
      /\ perms'[<<s, n>>] = P
      /\ \A t \in Server, m \in Role : perms[<<t, m>>] # {} => perms'[<<t, m>>] = perms[<<t, m>>]
      /\ UNCHANGED <<owner, closed, home, removed, members, given, cache, req, held>>
  BY DEF CreateRole, Inv, TypeOK, Role
<1>2. TypeOK' BY <1>1 DEF Inv, TypeOK
<1>3. Founded'
  <2>1. Permission # {} OBVIOUS
  <2> QED BY <1>1, <2>1 DEF Inv, Founded, Role
<1>4. (Housed /\ CacheCounted)' BY <1>1 DEF Inv, Housed, CacheCounted
<1>5. GivenCounted'
  <2> SUFFICES ASSUME NEW t \in Server, NEW w \in User, NEW m \in Role, <<t, w, m>> \in given
               PROVE  /\ owner[t] # None /\ <<t, w>> \in members
                      /\ perms'[<<t, m>>] # {} /\ perms'[<<t, m>>] \subseteq held[<<t, w>>]
    BY <1>1 DEF GivenCounted
  <2>1. /\ owner[t] # None /\ <<t, w>> \in members
        /\ perms[<<t, m>>] # {} /\ perms[<<t, m>>] \subseteq held[<<t, w>>]
    BY DEF Inv, GivenCounted
  <2>2. perms'[<<t, m>>] = perms[<<t, m>>] BY <1>1, <2>1
  <2> QED BY <2>1, <2>2
<1>6. Established'
  <2> SUFFICES ASSUME NEW x \in Req, req[x] # None PROVE Checked(req[x])'
    BY <1>1 DEF Established
  <2>1. Checked(req[x]) /\ req[x] \in AnyRequest /\ req'[x] = req[x]
    BY <1>1 DEF Inv, Established, TypeOK, AnyRequest
  <2> QED BY <1>1, <2>1, CheckedStays
<1> QED BY <1>2, <1>3, <1>4, <1>5, <1>6 DEF Inv

(* Requests of the administration, each one transaction.                   *)
LEMMA AdminKeeps ==
  ASSUME Inv, Admin
  PROVE  Inv'
<1>1. PICK s \in Server, u \in User :
        \/ CreateServer(s, u)
        \/ DeleteServer(s, u)
        \/ \E n \in Custom, P \in Grant : CreateRole(s, n, P)
        \/ \E c \in Channel : DeleteChannel(s, c, u)
  BY DEF Admin
<1>2. CASE DeleteServer(s, u)
  BY <1>2, MarkKeeps DEF DeleteServer, Inv, TypeOK, Housed
<1>3. CASE \E c \in Channel : DeleteChannel(s, c, u)
  BY <1>3, MarkKeeps DEF DeleteChannel, Inv, TypeOK, Housed
<1> QED BY <1>1, <1>2, <1>3, CreateServerKeeps, CreateRoleKeeps

(* A join, a leave or an assignment commits: memberships and roles change, *)
(* and what users have held grows.                                         *)
LEMMA CommitKeeps ==
  ASSUME Inv, UNCHANGED <<owner, perms, closed, home, removed, cache>>,
         members' \subseteq Key, given' \subseteq Server \X User \X Role,
         held' \in [Key -> SUBSET Permission],
         \A k \in Key : held[k] \subseteq held'[k],
         req' \in [Req -> Write \cup Assign \cup NewChannel \cup Check \cup {None}],
         \A s \in Server : owner[s] # None =>
           <<s, owner[s]>> \in members' /\ <<s, owner[s], "@owner">> \in given',
         GivenCounted',
         \A x \in Req : req'[x] # None =>
           /\ Checked(req'[x])
           /\ req'[x].op = "check" /\ ~req'[x].inside /\ <<req'[x].s, req'[x].u>> \in members'
                => <<req'[x].s, req'[x].u>> \in members
  PROVE  Inv'
<1>1. TypeOK' BY DEF Inv, TypeOK
<1>2. (Founded /\ Housed)' BY DEF Inv, Founded, Housed
<1>3. CacheCounted' BY DEF Inv, CacheCounted
<1>4. Established'
  <2> SUFFICES ASSUME NEW x \in Req, req'[x] # None PROVE Checked(req[x])'
    BY DEF Established
  <2>1. PICK q : q = req'[x] OBVIOUS
  <2>2. q \in AnyRequest BY <2>1 DEF AnyRequest
  <2>3. Checked(q)' BY <2>1, <2>2, CheckedStays
  <2> QED BY <2>1, <2>3 DEF Checked
<1> QED BY <1>1, <1>2, <1>3, <1>4 DEF Inv

(* joinServer commits.                                                     *)
LEMMA JoinKeeps ==
  ASSUME Inv, NEW r \in Req, JoinInsert(r)
  PROVE  Inv'
<1> DEFINE s == req[r].s
           u == req[r].u
<1>1. /\ s \in Server /\ u \in User /\ owner[s] # None
      /\ <<s, u>> \in Key /\ "@everyone" \in Role /\ <<s, "@everyone">> \in Server \X Role
  <2>1. req[r] \in Write BY Kinds DEF Inv, JoinInsert
  <2>2. Checked(req[r]) BY DEF Inv, Established, JoinInsert, Doing
  <2> QED BY <2>1, <2>2 DEF Write, Checked, Key, Role
<1>2. CASE <<s, u>> \notin members
  <2>1. /\ members' = members \cup {<<s, u>>} /\ given' = given \cup {<<s, u, "@everyone">>}
        /\ held' = [held EXCEPT ![<<s, u>>] = @ \cup perms[<<s, "@everyone">>]]
        /\ Witness(r, s, u) /\ UNCHANGED <<owner, perms, closed, home, removed, cache>>
    BY <1>2 DEF JoinInsert
  <2>2. perms[<<s, "@everyone">>] \in SUBSET Permission /\ perms[<<s, "@everyone">>] # {}
    BY <1>1 DEF Inv, TypeOK, Founded
  <2>3. /\ held' \in [Key -> SUBSET Permission]
        /\ \A k \in Key : held[k] \subseteq held'[k]
        /\ perms[<<s, "@everyone">>] \subseteq held'[<<s, u>>]
    BY <1>1, <2>1, <2>2 DEF Inv, TypeOK
  <2>4. members' \subseteq Key /\ given' \subseteq Server \X User \X Role
    BY <1>1, <2>1 DEF Inv, TypeOK
  <2>5. GivenCounted'
    <3> SUFFICES ASSUME NEW t \in Server, NEW w \in User, NEW n \in Role, <<t, w, n>> \in given'
                 PROVE  /\ owner[t] # None /\ <<t, w>> \in members'
                        /\ perms[<<t, n>>] # {} /\ perms[<<t, n>>] \subseteq held'[<<t, w>>]
      BY <2>1 DEF GivenCounted
    <3>1. CASE <<t, w, n>> \in given
      <4>1. <<t, w>> \in Key BY DEF Key
      <4> QED BY <3>1, <4>1, <2>1, <2>3 DEF Inv, GivenCounted
    <3>2. CASE <<t, w, n>> = <<s, u, "@everyone">>
      BY <3>2, <1>1, <2>1, <2>2, <2>3
    <3> QED BY <2>1, <3>1, <3>2
  <2>6. ASSUME NEW x \in Req
        PROVE  /\ req'[x] \in AnyRequest \cup {None}
               /\ req'[x] # None =>
                    /\ Checked(req'[x])
                    /\ req'[x].op = "check" /\ ~req'[x].inside
                         => <<req'[x].s, req'[x].u>> # <<s, u>>
    <3>1. req[x] \in AnyRequest \cup {None} /\ (req[x] # None => Checked(req[x]))
      BY DEF Inv, TypeOK, AnyRequest, Established
    <3>2. CASE x = r BY <3>2, <2>1 DEF Witness
    <3>3. CASE x # r /\ Doing(x, "check") /\ req[x].s = s /\ req[x].u = u
      <4>1. req'[x] = [req[x] EXCEPT !.inside = TRUE] BY <2>1, <3>3 DEF Witness
      <4>2. req[x] \in Check /\ req[x] # None BY <3>3, Kinds DEF Inv, Doing
      <4>3. /\ req'[x] \in Check /\ req'[x].inside /\ req'[x].op = "check"
            /\ req'[x].s = req[x].s /\ req'[x].u = req[x].u /\ req'[x].perms = req[x].perms
        BY <4>1, <4>2 DEF Check
      <4>4. Checked(req'[x]) BY <3>1, <4>2, <4>3 DEF Checked, Check
      <4> QED BY <4>3, <4>4 DEF AnyRequest
    <3>4. CASE x # r /\ ~(Doing(x, "check") /\ req[x].s = s /\ req[x].u = u)
      <4>1. req'[x] = req[x] BY <2>1, <3>4 DEF Witness
      <4> QED BY <3>1, <3>4, <4>1 DEF Doing
    <3> QED BY <3>2, <3>3, <3>4
  <2>7. req' \in [Req -> Write \cup Assign \cup NewChannel \cup Check \cup {None}]
    <3>1. DOMAIN req' = Req /\ req' = [x \in Req |-> req'[x]] BY <2>1 DEF Witness
    <3> QED BY <3>1, <2>6 DEF AnyRequest
  <2>8. \A t \in Server : owner[t] # None =>
          <<t, owner[t]>> \in members' /\ <<t, owner[t], "@owner">> \in given'
    BY <2>1 DEF Inv, Founded
  <2>9. \A x \in Req : req'[x] # None =>
          /\ Checked(req'[x])
          /\ req'[x].op = "check" /\ ~req'[x].inside /\ <<req'[x].s, req'[x].u>> \in members'
               => <<req'[x].s, req'[x].u>> \in members
    BY <2>1, <2>6
  <2> QED BY <2>1, <2>3, <2>4, <2>5, <2>7, <2>8, <2>9, CommitKeeps
<1>3. CASE <<s, u>> \in members
  <2>1. End(r) /\ UNCHANGED <<tables, cache>> BY <1>3 DEF JoinInsert, tables
  <2>2. cache' \in [Key -> (SUBSET Permission) \cup {None}] /\ CacheCounted'
    BY <2>1 DEF Inv, TypeOK, CacheCounted, tables
  <2> QED BY <2>1, <2>2, EndKeeps
<1> QED BY <1>2, <1>3

(* The other requests, where a request is over.                            *)
LEMMA OverFacts ==
  ASSUME Inv, NEW r \in Req, End(r)
  PROVE  /\ req' \in [Req -> Write \cup Assign \cup NewChannel \cup Check \cup {None}]
         /\ \A x \in Req : req'[x] # None => Checked(req'[x])
BY DEF End, Inv, TypeOK, Established

(* leaveServer commits: the owner is not the one who leaves.               *)
LEMMA LeaveKeeps ==
  ASSUME Inv, NEW r \in Req, LeaveDelete(r)
  PROVE  Inv'
<1> DEFINE s == req[r].s
           u == req[r].u
<1>1. s \in Server /\ u \in User /\ owner[s] # u
  <2>1. req[r] \in Write BY Kinds DEF Inv, LeaveDelete
  <2>2. Checked(req[r]) /\ req[r].op = "leave" BY DEF Inv, Established, LeaveDelete, Doing
  <2> QED BY <2>1, <2>2 DEF Write, Checked
<1>2. /\ members' = members \ {<<s, u>>} /\ End(r)
      /\ \A t, w, n : <<t, w, n>> \in given' <=> <<t, w, n>> \in given /\ <<t, w>> # <<s, u>>
      /\ given' \subseteq given
      /\ UNCHANGED <<owner, perms, closed, home, removed, cache, held>>
  BY DEF LeaveDelete
<1>3. members' \subseteq Key /\ given' \subseteq Server \X User \X Role
      /\ held' \in [Key -> SUBSET Permission] /\ \A k \in Key : held[k] \subseteq held'[k]
  BY <1>2 DEF Inv, TypeOK
<1>4. \A t \in Server : owner[t] # None =>
        <<t, owner[t]>> \in members' /\ <<t, owner[t], "@owner">> \in given'
  BY <1>1, <1>2 DEF Inv, Founded
<1>5. GivenCounted'
  BY <1>2 DEF Inv, GivenCounted
<1> QED BY <1>2, <1>3, <1>4, <1>5, OverFacts, CommitKeeps

(* assignRole commits: the foreign key is what keeps a late one out.       *)
LEMMA AssignKeeps ==
  ASSUME Inv, NEW r \in Req, AssignInsert(r)
  PROVE  Inv'
<1> DEFINE s == req[r].s
           u == req[r].u
           n == req[r].role
<1>1. /\ s \in Server /\ u \in User /\ n \in Role /\ owner[s] # None
      /\ perms[<<s, n>>] # {} /\ <<s, u>> \in Key /\ <<s, n>> \in Server \X Role
  <2>1. req[r] \in Assign BY Kinds DEF Inv, AssignInsert
  <2>2. Checked(req[r]) /\ req[r].op = "assign" BY DEF Inv, Established, AssignInsert, Doing
  <2> QED BY <2>1, <2>2 DEF Assign, Checked, Key
<1>2. End(r) /\ UNCHANGED <<owner, perms, closed, home, removed, members, cache>>
  BY DEF AssignInsert
<1>3. CASE <<s, u>> \in members
  <2>1. /\ given' = given \cup {<<s, u, n>>}
        /\ held' = [held EXCEPT ![<<s, u>>] = @ \cup perms[<<s, n>>]]
    BY <1>3 DEF AssignInsert
  <2>2. perms[<<s, n>>] \in SUBSET Permission BY <1>1 DEF Inv, TypeOK
  <2>3. /\ held' \in [Key -> SUBSET Permission]
        /\ \A k \in Key : held[k] \subseteq held'[k]
        /\ perms[<<s, n>>] \subseteq held'[<<s, u>>]
    BY <1>1, <2>1, <2>2 DEF Inv, TypeOK
  <2>4. members' \subseteq Key /\ given' \subseteq Server \X User \X Role
    BY <1>1, <1>2, <2>1 DEF Inv, TypeOK
  <2>5. GivenCounted'
    <3> SUFFICES ASSUME NEW t \in Server, NEW w \in User, NEW m \in Role, <<t, w, m>> \in given'
                 PROVE  /\ owner[t] # None /\ <<t, w>> \in members
                        /\ perms[<<t, m>>] # {} /\ perms[<<t, m>>] \subseteq held'[<<t, w>>]
      BY <1>2 DEF GivenCounted
    <3>1. CASE <<t, w, m>> \in given
      <4>1. <<t, w>> \in Key BY DEF Key
      <4> QED BY <3>1, <4>1, <2>3 DEF Inv, GivenCounted
    <3>2. CASE <<t, w, m>> = <<s, u, n>>
      BY <3>2, <1>1, <1>3, <2>3
    <3> QED BY <2>1, <3>1, <3>2
  <2>6. \A t \in Server : owner[t] # None =>
          <<t, owner[t]>> \in members' /\ <<t, owner[t], "@owner">> \in given'
    BY <1>2, <2>1 DEF Inv, Founded
  <2> QED BY <1>2, <2>3, <2>4, <2>5, <2>6, OverFacts, CommitKeeps
<1>4. CASE <<s, u>> \notin members
  <2>1. UNCHANGED <<tables, cache>> BY <1>4, <1>2 DEF AssignInsert, tables
  <2>2. cache' \in [Key -> (SUBSET Permission) \cup {None}] /\ CacheCounted'
    BY <2>1 DEF Inv, TypeOK, CacheCounted, tables
  <2> QED BY <1>2, <2>1, <2>2, EndKeeps
<1> QED BY <1>3, <1>4

(* createChannel commits.                                                  *)
LEMMA ChannelKeeps ==
  ASSUME Inv, NEW r \in Req, NEW c \in Channel, ChannelInsert(r, c)
  PROVE  Inv'
<1>1. req[r].s \in Server /\ owner[req[r].s] # None
  <2>1. req[r] \in NewChannel BY Kinds DEF Inv, ChannelInsert
  <2>2. Checked(req[r]) BY DEF Inv, Established, ChannelInsert, Doing
  <2> QED BY <2>1, <2>2 DEF NewChannel, Checked
<1>2. /\ home' = [home EXCEPT ![c] = req[r].s] /\ End(r)
      /\ UNCHANGED <<owner, perms, closed, removed, members, given, cache, held>>
  BY DEF ChannelInsert
<1>3. home' \in [Channel -> Server \cup {None}] /\ Housed'
  BY <1>1, <1>2 DEF Inv, TypeOK, Housed
<1> QED BY <1>2, <1>3, MarkKeeps DEF Inv, TypeOK

(* Every step keeps the invariant.                                         *)
LEMMA InvStep == Inv /\ [Next]_vars => Inv'
<1> SUFFICES ASSUME Inv, [Next]_vars PROVE Inv' OBVIOUS
<1>1. CASE UNCHANGED vars
  <2>1. TypeOK' BY <1>1 DEF Inv, TypeOK, vars
  <2>2. (Founded /\ Housed /\ GivenCounted /\ CacheCounted /\ Established)'
    BY <1>1 DEF Inv, Founded, Housed, GivenCounted, CacheCounted, Established, Checked, vars
  <2> QED BY <2>1, <2>2 DEF Inv
<1>2. ASSUME NEW r \in Req, Serve(r) PROVE Inv'
  BY <1>2, JoinKeeps, LeaveKeeps, AssignKeeps, ChannelKeeps, CheckKeeps DEF Serve
<1> QED BY <1>1, <1>2, AdminKeeps, CallKeeps, ExpireKeeps DEF Next

(* The inductive invariant gives the properties.                           *)
LEMMA InvImplies ==
  Inv => TypeOK /\ RolesNeedMembership /\ OwnerKeepsAll /\ AllowedWasGranted /\ AllowedInside
<1> SUFFICES ASSUME Inv
             PROVE  RolesNeedMembership /\ OwnerKeepsAll /\ AllowedWasGranted /\ AllowedInside
  BY DEF Inv
<1>1. RolesNeedMembership
  <2> SUFFICES ASSUME NEW x \in given PROVE <<x[1], x[2]>> \in members
    BY DEF RolesNeedMembership
  <2>1. x \in Server \X User \X Role BY DEF Inv, TypeOK
  <2>2. x = <<x[1], x[2], x[3]>> /\ x[1] \in Server /\ x[2] \in User /\ x[3] \in Role BY <2>1
  <2> QED BY <2>2 DEF Inv, GivenCounted
<1>2. OwnerKeepsAll
  <2> SUFFICES ASSUME NEW s \in Server, owner[s] # None
               PROVE  <<s, owner[s]>> \in members /\ Permissions(s, owner[s]) = Permission
    BY DEF OwnerKeepsAll
  <2>1. /\ owner[s] \in User /\ <<s, owner[s]>> \in members
        /\ <<s, owner[s], "@owner">> \in given /\ perms[<<s, "@owner">>] = Permission
    BY DEF Inv, Founded
  <2>2. Permissions(s, owner[s]) \in SUBSET Permission BY <2>1, LiveIsHeld
  <2>3. Permission \subseteq Permissions(s, owner[s]) BY <2>1 DEF Permissions, Role
  <2> QED BY <2>1, <2>2, <2>3
<1>3. AllowedWasGranted /\ AllowedInside
  <2>1. \A r \in Req : At(r, "done") =>
          req[r].perms \subseteq held[<<req[r].s, req[r].u>>] /\ req[r].inside
    BY DEF Inv, Established, Checked, At, Doing
  <2> QED BY <2>1 DEF Inv, CacheCounted, AllowedWasGranted, AllowedInside
<1> QED BY <1>1, <1>2, <1>3

(* No assignRole that races a leave leaves a role behind, and an owner     *)
(* keeps the membership and every permission, in every interleaving.       *)
THEOREM RolesFollowMembership == Spec => [](RolesNeedMembership /\ OwnerKeepsAll)
BY InvInit, InvStep, InvImplies, PTL DEF Spec

(* CheckPerm allows only what a role once granted, through any sequence of *)
(* cache fills and expiries.                                               *)
THEOREM CachedWasGranted == Spec => [](TypeOK /\ AllowedWasGranted)
BY InvInit, InvStep, InvImplies, PTL DEF Spec

(* CheckPerm allows a user who was a member while it ran, and no other.    *)
THEOREM MembersOnly == Spec => []AllowedInside
BY InvInit, InvStep, InvImplies, PTL DEF Spec
=============================================================================

----------------------------- MODULE ServerSidebar -----------------------------
(***************************************************************************)
(* The server bar of the web app (ServerSidebar.tsx), composed with the    *)
(* channel panel through the URL: creating, joining or clicking a server   *)
(* pushes its page.  GET /servers, the POST that creates and the calls     *)
(* that join overlap in every way the buttons allow.  servers is a bag.    *)
(***************************************************************************)
EXTENDS ChannelSidebar

CONSTANTS
  Get,       \* bound: GETs of /servers under way at a time
  MaxClicks  \* bound: what the user does

VARIABLES
  servers, loading, error,
  modal,    \* "closed", or the tab that is open: "create" or "join"
  get,      \* call of fetchServers -> where it is
  create,   \* the POST /servers in progress
  join,     \* the handleJoin in progress
  overlap,  \* history: which of create and join were under way along with a GET of the list
  doubt,    \* history: servers whose create or join was reported as failed
  clicks

barVars == <<servers, loading, error, modal, get, create, join, overlap, doubt>>
vars == <<channelVars, barVars, clicks>>

(* Init: the mount effect has called fetchServers.                         *)
Init ==
  /\ ChannelInit
  /\ servers = EmptyBag /\ loading = TRUE /\ error = FALSE
  /\ modal = "closed" /\ create = Idle /\ join = Idle
  /\ get = [g \in Get |-> [pc |-> IF g = CHOOSE h \in Get : TRUE THEN "sent" ELSE "idle", for |-> "list"]]
  /\ overlap = {} /\ doubt = {} /\ clicks = 0

-----------------------------------------------------------------------------
(* A GET of the list is under way.                                         *)
Listing == \E g \in Get : get[g].pc # "idle"
Posting == {p \in {"create", "join"} : (IF p = "create" THEN create ELSE join).pc # "idle"}

(* fetchServers, called on mount, by Retry and by handleJoin.              *)
fetchServers(caller) ==
  /\ \E g \in Get : get[g].pc = "idle"
  /\ get' = [get EXCEPT ![CHOOSE g \in Get : get[g].pc = "idle"] = [pc |-> "sent", for |-> caller]]
  /\ loading' = TRUE /\ error' = FALSE

RetryServers ==
  /\ error /\ modal = "closed" /\ ~chModal
  /\ fetchServers("list")
  /\ overlap' = overlap \cup Posting
  /\ UNCHANGED <<channelVars, servers, modal, create, join, doubt>>

ListRead(g) ==
  /\ get[g].pc = "sent"
  /\ get' = [get EXCEPT ![g] = [pc |-> "read", for |-> @.for, snap |-> Inside]]
  /\ UNCHANGED <<channelVars, servers, loading, error, modal, create, join, overlap, doubt>>

(* What a fetchServers of handleJoin is awaited for goes on when it ends.  *)
Resume(g) ==
  join' = IF get[g].for = "join" THEN [join EXCEPT !.pc = "fetched"] ELSE join

ListArrive(g) ==
  /\ get[g].pc = "read"
  /\ servers' = SetToBag(get[g].snap)
  /\ loading' = FALSE
  /\ get' = [get EXCEPT ![g] = [pc |-> "idle", for |-> "list"]]
  /\ Resume(g)
  /\ UNCHANGED <<channelVars, error, modal, create, overlap, doubt>>

(* Mutant: the error is not shown.                                         *)
ListFailSilent(g) ==
  /\ get[g].pc # "idle"
  /\ loading' = FALSE
  /\ get' = [get EXCEPT ![g] = [pc |-> "idle", for |-> "list"]]
  /\ Resume(g)
  /\ UNCHANGED <<channelVars, servers, error, modal, create, overlap, doubt>>

ListFail(g) ==
  /\ get[g].pc # "idle"
  /\ error' = TRUE /\ loading' = FALSE
  /\ get' = [get EXCEPT ![g] = [pc |-> "idle", for |-> "list"]]
  /\ Resume(g)
  /\ UNCHANGED <<channelVars, servers, modal, create, overlap, doubt>>

-----------------------------------------------------------------------------
(* An icon is clicked; the dialogs cover the icons.                        *)
ClickServer(s) ==
  /\ ~loading /\ ~error /\ s \in BagToSet(servers) /\ s # path
  /\ modal = "closed" /\ ~chModal
  /\ Open(s)
  /\ UNCHANGED <<dbVars, formVars, barVars>>

(* "+" and the two tabs; the dialog opens at the tab used last.            *)
ShowTab(tab) ==
  /\ modal # tab
  /\ modal = "closed" => ~loading /\ ~chModal
  /\ modal' = tab
  /\ UNCHANGED <<channelVars, servers, loading, error, get, create, join, overlap, doubt>>

CloseServerModal ==
  /\ modal # "closed" /\ modal' = "closed"
  /\ UNCHANGED <<channelVars, servers, loading, error, get, create, join, overlap, doubt>>

(* handleCreate                                                            *)
CreateSubmit ==
  /\ modal = "create" /\ create.pc = "idle"
  /\ create' = [pc |-> "sent", sid |-> None]
  /\ overlap' = IF Listing THEN overlap \cup {"create"} ELSE overlap
  /\ UNCHANGED <<channelVars, servers, loading, error, modal, get, join, doubt>>

Created(s) ==
  /\ create.pc = "sent" /\ kind[s] = "absent"
  /\ kind' = [kind EXCEPT ![s] = "owner"]
  /\ create' = [pc |-> "done", sid |-> s]
  /\ UNCHANGED <<chans, panelVars, formVars, servers, loading, error, modal, get, join, overlap, doubt>>

CreateAnswer ==
  /\ create.pc = "done"
  /\ servers' = servers (+) SetToBag({create.sid})
  /\ modal' = "closed" /\ create' = Idle
  /\ Open(create.sid)
  /\ UNCHANGED <<dbVars, formVars, loading, error, get, join, overlap, doubt>>

CreateFail ==
  /\ create.pc # "idle"
  /\ doubt' = doubt \cup (IF create.pc = "done" THEN {create.sid} ELSE {})
  /\ create' = Idle
  /\ UNCHANGED <<channelVars, servers, loading, error, modal, get, join, overlap>>

-----------------------------------------------------------------------------
(* handleJoin for a server already listed: its page is opened.             *)
JoinListed(s) ==
  /\ modal = "join" /\ join.pc = "idle" /\ s \in BagToSet(servers)
  /\ modal' = "closed" /\ Open(s)
  /\ UNCHANGED <<dbVars, formVars, servers, loading, error, get, create, join, overlap, doubt>>

(* The id of a server not listed was pasted; an id that nobody has seen,   *)
(* of no server or of one whose create is unanswered, ends in JoinFail.    *)
JoinSubmit(s) ==
  /\ modal = "join" /\ join.pc = "idle" /\ s \notin BagToSet(servers) \cup {create.sid}
  /\ kind[s] # "absent"
  /\ join' = [pc |-> "sent", sid |-> s]
  /\ overlap' = IF Listing THEN overlap \cup {"join"} ELSE overlap
  /\ UNCHANGED <<channelVars, servers, loading, error, modal, get, create, doubt>>

(* POST join: 201, or 409 for a member; then the detail is asked for.      *)
Joined ==
  /\ join.pc = "sent"
  /\ kind' = [kind EXCEPT ![join.sid] = IF @ = "other" THEN "plain" ELSE @]
  /\ join' = [join EXCEPT !.pc = "joined"]
  /\ UNCHANGED <<chans, panelVars, formVars, servers, loading, error, modal, get, create, overlap, doubt>>

(* Mutant: appended without looking.                                       *)
JoinDetailBlind ==
  /\ join.pc = "joined"
  /\ servers' = servers (+) SetToBag({join.sid})
  /\ modal' = "closed" /\ join' = Idle
  /\ Open(join.sid)
  /\ UNCHANGED <<dbVars, formVars, loading, error, get, create, overlap, doubt>>

(* The detail arrives: the server is appended unless it is listed.         *)
JoinDetail ==
  /\ join.pc = "joined"
  /\ servers' = IF BagIn(join.sid, servers) THEN servers ELSE servers (+) SetToBag({join.sid})
  /\ modal' = "closed" /\ join' = Idle
  /\ Open(join.sid)
  /\ UNCHANGED <<dbVars, formVars, loading, error, get, create, overlap, doubt>>

(* The detail is refused: the whole list is fetched, and awaited.          *)
JoinRefetch ==
  /\ join.pc = "joined"
  /\ fetchServers("join")
  /\ join' = [join EXCEPT !.pc = "refetch"]
  /\ overlap' = overlap \cup (Posting \ {"join"})
  /\ UNCHANGED <<channelVars, servers, modal, create, doubt>>

(* fetchServers has ended, one way or the other: it never throws.          *)
JoinFetched ==
  /\ join.pc = "fetched"
  /\ modal' = "closed" /\ join' = Idle
  /\ Open(join.sid)
  /\ UNCHANGED <<dbVars, formVars, servers, loading, error, get, create, overlap, doubt>>

(* 404, another refusal, or no answer to one of the two calls.             *)
JoinFail ==
  /\ join.pc \in {"sent", "joined"}
  /\ doubt' = doubt \cup {join.sid}
  /\ join' = Idle
  /\ UNCHANGED <<channelVars, servers, loading, error, modal, get, create, overlap>>

-----------------------------------------------------------------------------
ServerClicks ==
  \/ RetryServers \/ CloseServerModal \/ ShowTab("create") \/ ShowTab("join") \/ CreateSubmit
  \/ \E s \in Server : ClickServer(s) \/ JoinListed(s) \/ JoinSubmit(s)

ServerAnswers ==
  \/ CreateAnswer \/ CreateFail
  \/ Joined \/ JoinDetail \/ JoinRefetch \/ JoinFetched \/ JoinFail
  \/ \E g \in Get : ListRead(g) \/ ListArrive(g) \/ ListFail(g)
  \/ \E s \in Server : Created(s)

(* What the user does, up to the bound, and what the network does.         *)
Next ==
  \/ /\ clicks < MaxClicks /\ clicks' = clicks + 1
     /\ ServerClicks \/ (ChannelClicks /\ UNCHANGED barVars)
  \/ /\ ServerAnswers \/ (ChannelAnswers /\ UNCHANGED barVars)
     /\ UNCHANGED clicks

(* Every call apiFetch makes ends, with an answer or an error.             *)
Fairness ==
  /\ \A f \in Fetch : WF_vars((FetchRead(f) \/ FetchArrive(f) \/ FetchFail(f)) /\ UNCHANGED <<barVars, clicks>>)
  /\ \A g \in Get : WF_vars((ListRead(g) \/ ListArrive(g) \/ ListFail(g)) /\ UNCHANGED clicks)

Spec == Init /\ [][Next]_vars /\ Fairness

-----------------------------------------------------------------------------
(* One icon per server (tasks.md T-61), however create, join, Retry and    *)
(* the answers interleave: a server is listed twice only if the list was   *)
(* being fetched while a create was under way.                             *)
OneIconPerServer ==
  \A s \in BagToSet(servers) : servers[s] = 1 \/ "create" \in overlap

(* When nothing is under way and no error is shown, the icons are exactly  *)
(* the servers the user is in, but for one whose create or join was        *)
(* reported as failed although it went through; a list read before a join  *)
(* and shown after it loses the server.                                    *)
IconsAreMemberships ==
  (~loading /\ ~error /\ create = Idle /\ join = Idle /\ ~Listing /\ overlap = {}) =>
    /\ BagToSet(servers) \subseteq Inside
    /\ Inside \ BagToSet(servers) \subseteq doubt

(* The panel of a server that stays open stops loading and shows that      *)
(* server or an error, unless requests of an earlier page crossed it.      *)
OpenIsShown ==
  \A s \in Server :
    (path = s) ~> (path # s \/ (~chLoading /\ (chError \/ server = s \/ crossed)))
=============================================================================

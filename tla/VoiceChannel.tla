--------------------------- MODULE VoiceChannel ----------------------------
(***************************************************************************)
(* One voice channel: the web page that joins it (VoiceChannelView.tsx),   *)
(* the voice service's join, leave and participants handlers (main.py) and *)
(* its signalling sockets (signaling.py).                                  *)
(*                                                                         *)
(* The page POSTs /join, asks for the microphone, lists who is there and   *)
(* opens a socket, over which it offers a peer connection to everyone      *)
(* listed: the newcomer offers.  Leaving POSTs /leave without waiting for  *)
(* it and closes the socket.  The service keeps the participants in a      *)
(* Redis sorted set and the sockets in a dictionary by user.               *)
(*                                                                         *)
(* A user has one page.  What is said on a peer connection, the session id *)
(* that /join answers and the rosters on the screen are left out.          *)
(***************************************************************************)
EXTENDS FiniteSets, Naturals

CONSTANTS
  User,
  Visit,  \* bound: the visits <<user, k>> that may be going on at a time
  None

ASSUME VoiceAssumption == None \notin Visit /\ \A v \in Visit : v[1] \in User

VARIABLES
  page,      \* user -> the page: stage, current visit, users listed, offers due
  join,      \* user -> the POST /join in progress
  leaving,   \* visits whose POST /leave is in progress
  sock,      \* visit -> its socket, as the service sees it
  conns,     \* active_connections: user -> visit, or None
  members,   \* the sorted set of participants
  sound,     \* history: users in the set ever since they joined, and given the list
  strayed    \* history: participants nothing is left of that would remove them

vars == <<page, join, leaving, sock, conns, members, sound, strayed>>

Of(v) == v[1]

Outside == [stage |-> "out", visit |-> None, listed |-> {}, due |-> {}]

Init ==
  /\ page = [u \in User |-> Outside]
  /\ join = [u \in User |-> "none"]
  /\ leaving = {} /\ sock = [v \in Visit |-> "gone"]
  /\ conns = [u \in User |-> None]
  /\ members = {} /\ sound = {} /\ strayed = {}

Stage(u) == page[u].stage
Present(u) == Stage(u) \in {"opening", "in"}
Enter(u, stage) == page' = [page EXCEPT ![u].stage = stage]
Leave(u) ==
  /\ page' = [page EXCEPT ![u] = Outside]
  /\ sound' = sound \ {u}

(* The page has let go of the socket.                                      *)
Closed(v) == page[Of(v)].visit # v

(* ZREM.                                                                   *)
Remove(u) ==
  /\ members' = members \ {u}
  /\ sound' = sound \ {u}
  /\ strayed' = strayed \ {u}

(* Nothing of this visit will remove the user any more, listed or not.     *)
Stray(u) == strayed' = strayed \cup ({u} \cap members)

(* A dictionary that changes size under a broadcast's loop makes it raise. *)
Torn == [j \in User |-> IF join[j] = "cast" THEN "torn" ELSE join[j]]

---------------------------------------------------------------------------
(* The service: POST /join.                                                *)

(* CheckPerm allows the user to connect, or not.                           *)
JoinPerm(u) ==
  /\ join[u] = "perm"
  /\ \E verdict \in {"add", "denied"} : join' = [join EXCEPT ![u] = verdict]
  /\ UNCHANGED <<page, leaving, sock, conns, members, sound, strayed>>

(* ZADD.                                                                   *)
JoinAdd(u) ==
  /\ join[u] = "add"
  /\ members' = members \cup {u}
  /\ sound' = sound \cup {u}
  /\ join' = [join EXCEPT ![u] = "expire"]
  /\ UNCHANGED <<page, leaving, sock, conns, strayed>>

(* EXPIRE, then the loop of broadcast, which awaits if it has a recipient. *)
JoinExpire(u) ==
  /\ join[u] = "expire"
  /\ join' = [join EXCEPT ![u] = IF \E w \in User \ {u} : conns[w] # None THEN "cast" ELSE "ok"]
  /\ UNCHANGED <<page, leaving, sock, conns, members, sound, strayed>>

(* The broadcast ends; it may have raised.                                 *)
JoinCast(u) ==
  /\ join[u] \in {"cast", "torn"}
  /\ \E end \in IF join[u] = "torn" THEN {"ok", "failed"} ELSE {"ok"} :
       join' = [join EXCEPT ![u] = end]
  /\ UNCHANGED <<page, leaving, sock, conns, members, sound, strayed>>

(* POST /leave; what its broadcast raises changes nothing.                 *)
LeaveServe(v) ==
  /\ v \in leaving
  /\ leaving' = leaving \ {v}
  /\ Remove(Of(v))
  /\ UNCHANGED <<page, join, sock, conns>>

(* The request is lost, or its ZREM raises; the page ignores it.  The end  *)
(* of the socket, if it is still to come, does the same.                   *)
LeaveLost(v) ==
  /\ v \in leaving
  /\ leaving' = leaving \ {v}
  /\ IF sock[v] = "gone" THEN Stray(Of(v)) ELSE UNCHANGED strayed
  /\ UNCHANGED <<page, join, sock, conns, members, sound>>

---------------------------------------------------------------------------
(* The service: the signalling sockets.                                    *)

(* The handshake is done; the page may know before the service goes on.    *)
Accept(v) ==
  /\ sock[v] = "opening"
  /\ sock' = [sock EXCEPT ![v] = "accepted"]
  /\ UNCHANGED <<page, join, leaving, conns, members, sound, strayed>>

(* connect: the socket becomes the user's only one.                        *)
Connect(v) ==
  /\ sock[v] = "accepted"
  /\ sock' = [sock EXCEPT ![v] = "open"]
  /\ conns' = [conns EXCEPT ![Of(v)] = v]
  /\ join' = IF conns[Of(v)] = None THEN Torn ELSE join
  /\ UNCHANGED <<page, leaving, members, sound, strayed>>

(* disconnect pops the user's entry, whichever socket it holds.            *)
Pop(v) ==
  /\ conns' = [conns EXCEPT ![Of(v)] = None]
  /\ join' = IF conns[Of(v)] # None THEN Torn ELSE join

Disconnect(v) ==
  /\ sock[v] = "open" /\ Closed(v)
  /\ Pop(v)
  /\ sock' = [sock EXCEPT ![v] = "popped"]
  /\ UNCHANGED <<page, leaving, members, sound, strayed>>

(* Mutant: the end of a socket does not remove the participant.            *)
DisconnectRemoveSkipped(v) ==
  /\ sock[v] = "popped"
  /\ sock' = [sock EXCEPT ![v] = "gone"]
  /\ UNCHANGED <<page, join, leaving, conns, members, sound, strayed>>

(* ... and the user is taken out of the set.                               *)
DisconnectRemove(v) ==
  /\ sock[v] = "popped"
  /\ sock' = [sock EXCEPT ![v] = "gone"]
  /\ Remove(Of(v))
  /\ UNCHANGED <<page, join, leaving, conns>>

(* ... unless from_url or ZREM raises: a /leave may still do it.           *)
DisconnectFails(v) ==
  /\ sock[v] = "popped"
  /\ sock' = [sock EXCEPT ![v] = "gone"]
  /\ IF v \in leaving THEN UNCHANGED strayed ELSE Stray(Of(v))
  /\ UNCHANGED <<page, join, leaving, conns, members, sound>>

(* A socket given up before it reached the service, which so never sees it *)
(* end.                                                                    *)
NeverOpened(v) ==
  /\ sock[v] = "opening" /\ Closed(v)
  /\ sock' = [sock EXCEPT ![v] = "gone"]
  /\ IF v \in leaving THEN UNCHANGED strayed ELSE Stray(Of(v))
  /\ UNCHANGED <<page, join, leaving, conns, members, sound>>

(* The relay of u's offer to w: delivered, or "peer not connected".        *)
Offer(u, w) ==
  /\ Stage(u) = "in" /\ w \in page[u].due /\ sock[page[u].visit] = "open"
  /\ page' = [page EXCEPT ![u].due = @ \ {w}]
  /\ UNCHANGED <<join, leaving, sock, conns, members, sound, strayed>>

(* Sending an offer, an answer or a candidate to a socket that is closing  *)
(* raises in u's own task: a WebSocketDisconnect ends u's socket as if u   *)
(* had left, any other error ends it and leaves u's entries behind.        *)
SignalRaises(u, w) ==
  LET v == page[u].visit IN
  /\ u # w /\ Stage(u) = "in" /\ sock[v] = "open"
  /\ conns[w] # None /\ Closed(conns[w])
  /\ Leave(u)
  /\ \/ Pop(v) /\ sock' = [sock EXCEPT ![v] = "popped"] /\ UNCHANGED strayed
     \/ sock' = [sock EXCEPT ![v] = "gone"] /\ Stray(u) /\ UNCHANGED <<conns, join>>
  /\ UNCHANGED <<leaving, members>>

(* The process dies with its dictionary, its sockets and its requests; the *)
(* pages that had a socket see it close and post no /leave, and the set    *)
(* stays in Redis.  (Without a socket it loses no more than requests.)     *)
ServiceDies ==
  /\ \E v \in Visit : sock[v] # "gone"
  /\ sock' = [v \in Visit |-> "gone"] /\ conns' = [u \in User |-> None]
  /\ leaving' = {}
  /\ join' = [u \in User |-> IF join[u] \in {"none", "ok", "denied"} THEN join[u] ELSE "failed"]
  /\ page' = [u \in User |-> IF Present(u) THEN Outside ELSE page[u]]
  /\ sound' = {u \in sound : ~Present(u)}
  /\ strayed' = members
  /\ UNCHANGED members

(* SESSION_TTL after the last join the set is dropped.                     *)
Elapse ==
  /\ members # {}
  /\ members' = {} /\ sound' = {}
  /\ UNCHANGED <<page, join, leaving, sock, conns, strayed>>

---------------------------------------------------------------------------
(* The page.                                                               *)

(* The user clicks join; a slot is reused once nothing of it is left.      *)
HandleJoin(u, v) ==
  /\ Of(v) = u /\ Stage(u) = "out"
  /\ sock[v] = "gone" /\ v \notin leaving /\ conns[u] # v
  /\ page' = [page EXCEPT ![u] = [stage |-> "joining", visit |-> v, listed |-> {}, due |-> {}]]
  /\ join' = [join EXCEPT ![u] = "perm"]
  /\ UNCHANGED <<leaving, sock, conns, members, sound, strayed>>

(* 200.                                                                    *)
JoinAnswer(u) ==
  /\ join[u] = "ok"
  /\ Enter(u, "mic")
  /\ join' = [join EXCEPT ![u] = "none"]
  /\ UNCHANGED <<leaving, sock, conns, members, sound, strayed>>

(* 403; or an error, or no answer, to a join that may have been done.      *)
JoinFails(u) ==
  /\ join[u] \in {"denied", "failed", "ok"}
  /\ Leave(u)
  /\ join' = [join EXCEPT ![u] = "none"]
  /\ IF join[u] = "denied" THEN UNCHANGED strayed ELSE Stray(u)
  /\ UNCHANGED <<leaving, sock, conns, members>>

(* getUserMedia.                                                           *)
MicGranted(u) ==
  /\ Stage(u) = "mic"
  /\ Enter(u, "listing")
  /\ UNCHANGED <<join, leaving, sock, conns, members, sound, strayed>>

(* No microphone, no list or no token: the page returns without a leave.   *)
GiveUp(u) ==
  /\ Stage(u) \in {"mic", "listing"}
  /\ Leave(u)
  /\ Stray(u)
  /\ UNCHANGED <<join, leaving, sock, conns, members>>

(* new WebSocket.                                                          *)
OpenSocket(u, list) ==
  /\ page' = [page EXCEPT ![u] =
       [stage |-> "opening", visit |-> @.visit, listed |-> list, due |-> {}]]
  /\ sock' = [sock EXCEPT ![page[u].visit] = "opening"]
  /\ UNCHANGED <<join, leaving, conns, members, strayed>>

(* Mutant: only users with a socket are listed.                            *)
ListAnswerConnected(u) ==
  /\ Stage(u) = "listing"
  /\ OpenSocket(u, {w \in User \ {u} : conns[w] # None})
  /\ UNCHANGED sound

(* The participants as they are now, without the user.                     *)
ListAnswer(u) ==
  /\ Stage(u) = "listing"
  /\ OpenSocket(u, members \ {u})
  /\ UNCHANGED sound

(* An answer other than 200 counts as an empty list.                       *)
ListFails(u) ==
  /\ Stage(u) = "listing"
  /\ OpenSocket(u, {})
  /\ sound' = sound \ {u}

(* The socket is open: an offer is due for everyone listed.                *)
OnOpen(u) ==
  /\ Stage(u) = "opening" /\ sock[page[u].visit] \in {"accepted", "open"}
  /\ page' = [page EXCEPT ![u] =
       [stage |-> "in", visit |-> @.visit, listed |-> @.listed, due |-> @.listed]]
  /\ UNCHANGED <<join, leaving, sock, conns, members, sound, strayed>>

(* doCleanup(true): /leave is posted and not waited for.                   *)
HandleLeave(u) ==
  /\ Present(u)
  /\ Leave(u)
  /\ leaving' = leaving \cup {page[u].visit}
  /\ UNCHANGED <<join, sock, conns, members, strayed>>

(* The socket drops: doCleanup(false), no /leave.                          *)
OnClose(u) ==
  /\ Present(u)
  /\ Leave(u)
  /\ UNCHANGED <<join, leaving, sock, conns, members, strayed>>

---------------------------------------------------------------------------
PageStep(u) ==
  \/ \E v \in Visit : HandleJoin(u, v)
  \/ JoinAnswer(u) \/ JoinFails(u) \/ MicGranted(u) \/ GiveUp(u)
  \/ ListAnswer(u) \/ ListFails(u) \/ OnOpen(u) \/ HandleLeave(u) \/ OnClose(u)

JoinStep(u) == JoinPerm(u) \/ JoinAdd(u) \/ JoinExpire(u) \/ JoinCast(u)

VisitStep(v) ==
  \/ LeaveServe(v) \/ LeaveLost(v)
  \/ Accept(v) \/ Connect(v) \/ NeverOpened(v)
  \/ Disconnect(v) \/ DisconnectRemove(v) \/ DisconnectFails(v)

Next ==
  \/ \E u \in User : PageStep(u) \/ JoinStep(u)
  \/ \E v \in Visit : VisitStep(v)
  \/ \E u, w \in User : Offer(u, w) \/ SignalRaises(u, w)
  \/ Elapse \/ ServiceDies

Spec == Init /\ [][Next]_vars

---------------------------------------------------------------------------
(* "The newcomer offers": of two users in the channel one has listed, and  *)
(* so offers to, the other, in every order of their joins and lists,       *)
(* unless a late leave or the TTL has taken one out of the set meanwhile.  *)
OneOffers ==
  \A u, w \in User :
    u # w /\ Present(u) /\ Present(w) /\ {u, w} \subseteq sound
      => w \in page[u].listed \/ u \in page[w].listed

(* Nothing of u is in progress.                                            *)
Quiet(u) ==
  /\ Stage(u) = "out" /\ join[u] = "none"
  /\ \A v \in Visit : Of(v) = u => sock[v] = "gone" /\ v \notin leaving

(* When all of a user's visits are over the user is no participant: /leave *)
(* and the end of the socket each see to it, in any order, mixed with      *)
(* those of other visits, also when one of the two is lost or fails.       *)
(* Excepted is who is listed when the last of them is lost, when the page  *)
(* gives up before it has a socket, or when the service dies.              *)
LeftMeansGone == \A u \in User : Quiet(u) /\ u \in members => u \in strayed
=============================================================================

---------------------------- MODULE ChannelSidebar ----------------------------
(***************************************************************************)
(* The channel panel of the web app (ChannelSidebar.tsx) and what it shows *)
(* of the servers service.  fetchData is never cancelled: the answers of   *)
(* an earlier server, or of an earlier visit, arrive whenever they arrive. *)
(*                                                                         *)
(* The order of the rows is left out: channels is a bag, so that a channel *)
(* listed twice can be told.  So are the texts of the form and its errors. *)
(***************************************************************************)
EXTENDS Bags, FiniteSets, Naturals

CONSTANTS
  Server, Channel,
  Fetch,    \* bound: calls of fetchData under way at a time
  None

ASSUME SidebarAssumption == None \notin Server

VARIABLES
  kind,           \* server -> "absent", "other", "plain" or "owner"
  chans,          \* server -> its channels in the servers database
  path,           \* the server of the URL, or None
  channels, server, currentUser, hasManageRole, chLoading, chError,
  chModal,        \* is the dialog open?
  chPost,         \* the POST of a channel in progress
  fetch,          \* call of fetchData -> where it is
  crossed,        \* history: a request began while another was under way
  chDoubt         \* history: channels whose POST was reported as failed

dbVars == <<kind, chans>>
listVars == <<channels, server, currentUser, hasManageRole>>
panelVars == <<listVars, chLoading, chError, fetch, path, crossed>>
formVars == <<chModal, chPost, chDoubt>>
channelVars == <<dbVars, panelVars, formVars>>

Idle == [pc |-> "idle", sid |-> None]
Inside == {s \in Server : kind[s] \in {"plain", "owner"}}

ChannelInit ==
  /\ kind \in [Server -> {"absent", "other", "plain", "owner"}]
  /\ chans \in [Server -> SUBSET Channel]
  /\ \A s, t \in Server : s # t => chans[s] \cap chans[t] = {}
  /\ \A s \in Server : kind[s] = "absent" => chans[s] = {}
  /\ path = None
  /\ channels = EmptyBag /\ server = None /\ currentUser = FALSE /\ hasManageRole = FALSE
  /\ chLoading = FALSE /\ chError = FALSE
  /\ chModal = FALSE /\ chPost = Idle
  /\ fetch = [f \in Fetch |-> Idle]
  /\ crossed = FALSE /\ chDoubt = {}

-----------------------------------------------------------------------------
UnderWay == chPost.pc # "idle" \/ \E f \in Fetch : fetch[f].pc # "idle"

(* fetchData(s): the four GETs go out.                                     *)
fetchData(s) ==
  /\ \E f \in Fetch : fetch[f].pc = "idle"
  /\ fetch' = [fetch EXCEPT ![CHOOSE f \in Fetch : fetch[f].pc = "idle"] = [pc |-> "sent", sid |-> s]]
  /\ chLoading' = TRUE /\ chError' = FALSE

(* The URL becomes that of server s (None: of no server) and the effect on *)
(* serverId runs, unless the server is the one already open.               *)
Open(s) ==
  \/ s = path /\ UNCHANGED panelVars
  \/ /\ s # path
     /\ path' = s
     /\ crossed' = UnderWay
     /\ \/ s # None /\ fetchData(s) /\ UNCHANGED listVars
        \/ /\ s = None
           /\ channels' = EmptyBag /\ server' = None /\ hasManageRole' = FALSE
           /\ chLoading' = FALSE /\ chError' = FALSE
           /\ UNCHANGED <<currentUser, fetch>>

(* Back and forward of the browser, or a link to a server one is in.       *)
Navigate(s) ==
  /\ s # path /\ Open(s)
  /\ UNCHANGED <<dbVars, formVars>>

Retry ==
  /\ ~chLoading /\ chError /\ path # None
  /\ fetchData(path)
  /\ crossed' = UnderWay
  /\ UNCHANGED <<dbVars, formVars, listVars, path>>

(* The servers service answers; the answer travels.                        *)
FetchRead(f) ==
  /\ fetch[f].pc = "sent"
  /\ fetch' = [fetch EXCEPT ![f] = [pc |-> "read", sid |-> @.sid, rows |-> chans[@.sid]]]
  /\ UNCHANGED <<dbVars, listVars, chLoading, chError, path, crossed, formVars>>

(* GET members lists every member with user_id and username: the roles     *)
(* that fetchData looks for in the user's entry are never there.           *)
RolesOfMember(s) == {}

(* Channels and server arrived, whichever server is open by now.  The      *)
(* roles follow only if both /auth/me and the members did too.             *)
FetchArrive(f) ==
  /\ fetch[f].pc = "read"
  /\ channels' = SetToBag(fetch[f].rows) /\ server' = fetch[f].sid
  /\ \E me, members \in BOOLEAN :
       /\ currentUser' = (currentUser \/ me)
       /\ hasManageRole' = IF me /\ members THEN RolesOfMember(fetch[f].sid) # {} ELSE hasManageRole
  /\ fetch' = [fetch EXCEPT ![f] = Idle]
  /\ chLoading' = FALSE
  /\ UNCHANGED <<dbVars, chError, path, crossed, formVars>>

(* Mutant: the finally is forgotten.                                       *)
FetchFailKeepsLoading(f) ==
  /\ fetch[f].pc # "idle"
  /\ fetch' = [fetch EXCEPT ![f] = Idle]
  /\ chError' = TRUE
  /\ UNCHANGED <<dbVars, listVars, chLoading, path, crossed, formVars>>

(* A GET throws, or the channels or the server are refused.                *)
FetchFail(f) ==
  /\ fetch[f].pc # "idle"
  /\ fetch' = [fetch EXCEPT ![f] = Idle]
  /\ chError' = TRUE /\ chLoading' = FALSE
  /\ UNCHANGED <<dbVars, listVars, path, crossed, formVars>>

-----------------------------------------------------------------------------
canManageChannels == (currentUser /\ server # None /\ kind[server] = "owner") \/ hasManageRole
ChShown == ~chLoading /\ ~chError /\ path # None

openModal ==
  /\ ChShown /\ canManageChannels /\ ~chModal
  /\ chModal' = TRUE
  /\ UNCHANGED <<dbVars, panelVars, chPost, chDoubt>>

(* Cancel, or a click beside the dialog; a POST under way goes on.         *)
closeModal ==
  /\ chModal /\ chModal' = FALSE
  /\ UNCHANGED <<dbVars, panelVars, chPost, chDoubt>>

(* handleCreate: the POST goes to the server of the URL.                   *)
ChannelSubmit ==
  /\ chModal /\ chPost.pc = "idle" /\ path # None
  /\ chPost' = [pc |-> "sent", sid |-> path]
  /\ crossed' = (crossed \/ UnderWay)
  /\ UNCHANGED <<dbVars, listVars, chLoading, chError, fetch, path, chModal, chDoubt>>

(* createChannel: "Any member can create a channel".                       *)
ChannelCreated(c) ==
  /\ chPost.pc = "sent" /\ chPost.sid \in Inside
  /\ \A s \in Server : c \notin chans[s]
  /\ chans' = [chans EXCEPT ![chPost.sid] = @ \cup {c}]
  /\ chPost' = [pc |-> "done", sid |-> chPost.sid, ch |-> c]
  /\ UNCHANGED <<kind, panelVars, chModal, chDoubt>>

(* Mutant: the 201 only closes the dialog.                                 *)
ChannelAnswerDrops ==
  /\ chPost.pc = "done"
  /\ chPost' = Idle /\ chModal' = FALSE
  /\ UNCHANGED <<dbVars, panelVars, chDoubt>>

(* 201: the channel is appended to whatever list is there.                 *)
ChannelAnswer ==
  /\ chPost.pc = "done"
  /\ channels' = channels (+) SetToBag({chPost.ch})
  /\ chPost' = Idle /\ chModal' = FALSE
  /\ UNCHANGED <<dbVars, server, currentUser, hasManageRole, chLoading, chError, fetch,
                 path, crossed, chDoubt>>

(* 403, another refusal, or no answer: an error in the dialog.             *)
ChannelFail ==
  /\ chPost.pc # "idle"
  /\ chDoubt' = chDoubt \cup (IF chPost.pc = "done" THEN {chPost.ch} ELSE {})
  /\ chPost' = Idle
  /\ UNCHANGED <<dbVars, panelVars, chModal>>

ChannelClicks ==
  \/ Retry \/ openModal \/ closeModal \/ ChannelSubmit
  \/ \E s \in Inside \cup {None} : Navigate(s)

ChannelAnswers ==
  \/ ChannelAnswer \/ ChannelFail
  \/ \E f \in Fetch : FetchRead(f) \/ FetchArrive(f) \/ FetchFail(f)
  \/ \E c \in Channel : ChannelCreated(c)

-----------------------------------------------------------------------------
Settled == ChShown /\ ~crossed /\ ~UnderWay

(* Under a server's URL the panel lists that server's channels, each once, *)
(* the ones just created included, but for a channel whose POST was        *)
(* reported as failed -- unless one request began while another was under  *)
(* way, as when the user moves on before the panel is loaded.  Then the    *)
(* answer that comes last wins, whichever server it is of.                 *)
PanelOfThisServer ==
  Settled =>
    /\ server = path
    /\ \A c \in BagToSet(channels) : c \in chans[path] /\ channels[c] = 1
    /\ chans[path] \ BagToSet(channels) \subseteq chDoubt
=============================================================================

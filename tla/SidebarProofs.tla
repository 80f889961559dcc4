---------------------------- MODULE SidebarProofs ----------------------------
(***************************************************************************)
(* The two sidebars of the web app, for any servers, channels, numbers of  *)
(* concurrent calls and sequences of clicks.                               *)
(*                                                                         *)
(* The channel panel: as long as no request began while another was under  *)
(* way, whatever is under way is for the server of the URL, and what has   *)
(* arrived is what that server has.                                        *)
(*                                                                         *)
(* The server bar: as long as no create or join overlapped a GET of the    *)
(* list, at most one GET is under way, and nothing changes what the user   *)
(* is in between its answer being computed and being shown.                *)
(***************************************************************************)
EXTENDS ServerSidebar, TLAPS

(* The calls of fetchData, POST of a channel, GET /servers, POST /servers  *)
(* and handleJoin.                                                         *)
FetchCall ==
  {Idle} \cup [pc: {"sent"}, sid: Server] \cup [pc: {"read"}, sid: Server, rows: SUBSET Channel]
PostCall ==
  {Idle} \cup [pc: {"sent"}, sid: Server] \cup [pc: {"done"}, sid: Server, ch: Channel]
GetCall ==
  [pc: {"idle"}, for: {"list"}] \cup [pc: {"sent"}, for: {"list", "join"}]
    \cup [pc: {"read"}, for: {"list", "join"}, snap: SUBSET Server]
CreateCall == {Idle} \cup [pc: {"sent"}, sid: {None}] \cup [pc: {"done"}, sid: Server]
JoinCall == {Idle} \cup [pc: {"sent", "joined", "refetch", "fetched"}, sid: Server]

Busy(f) == fetch[f].pc # "idle"

(* Only servers the user is in are ever opened.                            *)
PanelType ==
  /\ kind \in [Server -> {"absent", "other", "plain", "owner"}]
  /\ chans \in [Server -> SUBSET Channel]
  /\ path \in Inside \cup {None}
  /\ fetch \in [Fetch -> FetchCall]
  /\ \A f \in Fetch : Busy(f) => fetch[f].sid \in Inside
  /\ chPost \in PostCall
  /\ crossed \in BOOLEAN /\ hasManageRole \in BOOLEAN

(* Without crossing requests one is under way at most, for this server.    *)
OneRequest ==
  ~crossed =>
    /\ \A f \in Fetch : Busy(f) =>
         /\ fetch[f].sid = path /\ chPost = Idle
         /\ fetch[f].pc = "read" => fetch[f].rows = chans[path]
         /\ \A g \in Fetch : Busy(g) => g = f
    /\ chPost.pc # "idle" => chPost.sid = path

(* A channel that is created and not listed yet.                           *)
Unlisted == IF chPost.pc = "done" THEN {chPost.ch} ELSE {}

PanelHolds ==
  (~crossed /\ path # None /\ ~chError /\ \A f \in Fetch : ~Busy(f)) =>
    /\ server = path
    /\ \A c \in BagToSet(channels) : c \in chans[path] /\ channels[c] = 1
    /\ Unlisted \subseteq chans[path] \ BagToSet(channels)
    /\ chans[path] \ BagToSet(channels) \subseteq chDoubt \cup Unlisted

PanelInv == PanelType /\ OneRequest /\ PanelHolds

-----------------------------------------------------------------------------
Getting(g) == get[g].pc # "idle"

(* Only servers the user is in are listed, or about to be.                 *)
BarType ==
  /\ BagToSet(servers) \subseteq Inside
  /\ get \in [Get -> GetCall]
  /\ \A g \in Get : get[g].pc = "read" => get[g].snap \subseteq Inside
  /\ create \in CreateCall /\ (create.pc = "done" => create.sid \in Inside)
  /\ join \in JoinCall /\ (join.pc # "idle" => kind[join.sid] # "absent")
  /\ join.pc \in {"joined", "refetch", "fetched"} => join.sid \in Inside

(* The list handleJoin awaits is fetched once.                             *)
RefetchWaits ==
  \A g \in Get : Getting(g) /\ get[g].for = "join" =>
    /\ join.pc = "refetch"
    /\ \A h \in Get : Getting(h) /\ get[h].for = "join" => h = g

(* A create that no GET of the list overlaps: its server is not listed.    *)
CreateAlone ==
  create.pc # "idle" /\ "create" \notin overlap =>
    /\ ~Listing
    /\ create.pc = "done" => create.sid \notin BagToSet(servers) /\ join.sid # create.sid

(* A GET of the list that no create or join overlaps.                      *)
ListAlone ==
  overlap = {} =>
    \A g \in Get : Getting(g) =>
      /\ create = Idle /\ join.pc \in {"idle", "refetch"} /\ ~error
      /\ get[g].pc = "read" => get[g].snap = Inside
      /\ \A h \in Get : Getting(h) => h = g

(* A server the user is in that is about to be listed.                     *)
Coming ==
  (IF create.pc = "done" THEN {create.sid} ELSE {}) \cup
  (IF join.pc = "joined" THEN {join.sid} ELSE {})

BarHolds ==
  (overlap = {} /\ ~Listing /\ ~loading /\ ~error) =>
    Inside \ BagToSet(servers) \subseteq doubt \cup Coming

BarInv ==
  /\ BarType /\ RefetchWaits /\ CreateAlone /\ ListAlone /\ BarHolds
  /\ OneIconPerServer

SidebarInv == PanelInv /\ BarInv

-----------------------------------------------------------------------------
(* The panel.                                                              *)

LEMMA IdleFacts ==
  /\ Idle.pc = "idle" /\ Idle.sid = None
  /\ Idle \in FetchCall /\ Idle \in PostCall /\ Idle \in CreateCall /\ Idle \in JoinCall
BY DEF Idle, FetchCall, PostCall, CreateCall, JoinCall

(* The forms a call of fetchData can have.                                 *)
LEMMA FetchCallFacts ==
  ASSUME NEW c \in FetchCall
  PROVE  /\ c.pc \in {"idle", "sent", "read"}
         /\ c.pc # "idle" => c.sid \in Server
         /\ c.pc = "read" => c.rows \in SUBSET Channel
         /\ c.pc = "idle" => c = Idle
BY DEF FetchCall, Idle

LEMMA PostCallFacts ==
  ASSUME NEW c \in PostCall
  PROVE  /\ c.pc \in {"idle", "sent", "done"}
         /\ c.pc # "idle" => c.sid \in Server
         /\ c.pc = "done" => c.ch \in Channel
         /\ c.pc = "idle" => c = Idle
BY DEF PostCall, Idle

(* No panel is open at the start.                                          *)
LEMMA PanelInitial == ChannelInit => PanelInv
<1> SUFFICES ASSUME ChannelInit PROVE PanelInv OBVIOUS
<1>1. fetch = [f \in Fetch |-> Idle] /\ chPost = Idle /\ path = None
      /\ crossed = FALSE /\ hasManageRole = FALSE
  BY DEF ChannelInit
<1>2. \A f \in Fetch : ~Busy(f) BY <1>1, IdleFacts DEF Busy
<1>3. PanelType BY <1>1, <1>2, IdleFacts DEF ChannelInit, PanelType
<1> QED BY <1>1, <1>2, <1>3, IdleFacts DEF PanelInv, OneRequest, PanelHolds

(* The user only ever gets into servers; what one is in does not change.   *)
Grows ==
  /\ kind' \in [Server -> {"absent", "other", "plain", "owner"}]
  /\ \A s \in Inside : kind'[s] = kind[s]

LEMMA InsideGrows == Grows => Inside \subseteq Inside'
BY DEF Grows, Inside

LEMMA SameKinds == PanelType /\ kind' = kind => Grows /\ Inside' = Inside
BY DEF PanelType, Grows, Inside

(* The panel stays as it is.                                               *)
LEMMA PanelStutters ==
  ASSUME PanelInv, Grows, UNCHANGED <<chans, panelVars, formVars>>
  PROVE  PanelInv'
<1>1. UNCHANGED <<chans, path, fetch, chPost, crossed, hasManageRole, chError, server,
                  channels, chDoubt>>
  BY DEF panelVars, listVars, formVars
<1>2. PanelType'
  <2>1. Inside \subseteq Inside' BY InsideGrows
  <2> QED BY <1>1, <2>1 DEF PanelInv, PanelType, Grows, Busy
<1>4. OneRequest' BY <1>1 DEF PanelInv, OneRequest, Busy
<1>5. PanelHolds' BY <1>1 DEF PanelInv, PanelHolds, Busy, Unlisted
<1> QED BY <1>2, <1>4, <1>5 DEF PanelInv

(* fetchData occupies one call and leaves the others.                      *)
LEMMA FetchStarts ==
  ASSUME PanelInv, NEW s \in Server, fetchData(s)
  PROVE  \E f \in Fetch :
           /\ fetch[f].pc = "idle"
           /\ fetch'[f] = [pc |-> "sent", sid |-> s]
           /\ \A g \in Fetch : g # f => fetch'[g] = fetch[g]
           /\ fetch' \in [Fetch -> FetchCall]
<1>1. PICK f \in Fetch : /\ fetch[f].pc = "idle"
                         /\ fetch' = [fetch EXCEPT ![f] = [pc |-> "sent", sid |-> s]]
  BY DEF fetchData
<1>2. [pc |-> "sent", sid |-> s] \in FetchCall BY DEF FetchCall
<1> QED BY <1>1, <1>2 DEF PanelInv, PanelType

(* A fetch for the server of the URL begins, and crosses what is under way.*)
LEMMA FetchKeeps ==
  ASSUME PanelInv, path' \in Inside, fetchData(path'), crossed' = UnderWay,
         UNCHANGED <<dbVars, formVars, listVars>>
  PROVE  PanelInv'
<1>0. UNCHANGED <<kind, chans, chPost, chDoubt, hasManageRole>>
  BY DEF dbVars, formVars, listVars
<1>1. PICK s \in Inside : s = path' OBVIOUS
<1>2. s \in Server BY DEF Inside
<1>3. PICK f \in Fetch : /\ fetch[f].pc = "idle"
                         /\ fetch'[f] = [pc |-> "sent", sid |-> s]
                         /\ \A g \in Fetch : g # f => fetch'[g] = fetch[g]
                         /\ fetch' \in [Fetch -> FetchCall]
  BY <1>1, <1>2, FetchStarts
<1>4. Inside' = Inside BY <1>0 DEF Inside
<1>5. PanelType'
  <2>1. \A g \in Fetch : Busy(g)' => fetch'[g].sid \in Inside
    BY <1>3 DEF PanelInv, PanelType, Busy
  <2>2. crossed' \in BOOLEAN BY DEF UnderWay
  <2> QED BY <1>0, <1>1, <1>3, <1>4, <2>1, <2>2 DEF PanelInv, PanelType
<1>7. OneRequest'
  <2> SUFFICES ASSUME ~UnderWay PROVE OneRequest' BY DEF OneRequest
  <2>1. chPost.pc = "idle" /\ \A g \in Fetch : fetch[g].pc = "idle" BY DEF UnderWay
  <2>2. chPost' = Idle /\ chPost'.pc = "idle"
    BY <1>0, <2>1, PostCallFacts DEF PanelInv, PanelType
  <2>3. \A g \in Fetch : Busy(g)' => g = f BY <1>3, <2>1 DEF Busy
  <2> QED BY <1>1, <1>3, <2>2, <2>3 DEF OneRequest
<1>8. PanelHolds' BY <1>3 DEF PanelHolds, Busy
<1> QED BY <1>5, <1>7, <1>8 DEF PanelInv

(* The effect on serverId.                                                 *)
LEMMA OpenKeeps ==
  ASSUME PanelInv, NEW s \in Inside \cup {None}, Open(s), UNCHANGED <<dbVars, formVars>>
  PROVE  PanelInv'
<1>0. PanelType BY DEF PanelInv
<1>1. CASE UNCHANGED panelVars
  BY <1>0, <1>1, SameKinds, PanelStutters DEF dbVars
<1>2. CASE path' = s /\ crossed' = UnderWay /\ s # None /\ fetchData(s) /\ UNCHANGED listVars
  BY <1>2, FetchKeeps
<1>3. CASE /\ path' = None /\ crossed' = UnderWay
           /\ hasManageRole' = FALSE /\ fetch' = fetch
  <2>1. UNCHANGED <<kind, chans, chPost>> BY DEF dbVars, formVars
  <2>2. crossed' \in BOOLEAN BY <1>3 DEF UnderWay
  <2>3. Inside' = Inside BY <2>1 DEF Inside
  <2>4. PanelType' BY <1>0, <1>3, <2>1, <2>2, <2>3 DEF PanelType, Busy
  <2>5. OneRequest' BY <1>3, <2>1 DEF OneRequest, UnderWay, Busy
  <2> QED BY <1>3, <2>4, <2>5 DEF PanelInv, PanelHolds
<1> QED BY <1>1, <1>2, <1>3 DEF Open

(* Retry, the dialog and its Create button.                                *)
LEMMA ChannelClicksKeep ==
  ASSUME PanelInv, ChannelClicks
  PROVE  PanelInv'
<1>0. PanelType BY DEF PanelInv
<1>1. CASE Retry
  <2>1. path' = path /\ path # None /\ fetchData(path) /\ crossed' = UnderWay
        /\ UNCHANGED <<dbVars, formVars, listVars>>
    BY <1>1 DEF Retry
  <2>2. path' \in Inside BY <1>0, <2>1 DEF PanelType
  <2> QED BY <2>1, <2>2, FetchKeeps
<1>2. CASE openModal \/ closeModal
  <2>1. UNCHANGED <<kind, chans, path, fetch, chPost, crossed, hasManageRole, chError,
                    server, channels, chDoubt>>
    BY <1>2 DEF openModal, closeModal, dbVars, panelVars, listVars
  <2>2. Inside' = Inside BY <2>1 DEF Inside
  <2>3. PanelType' BY <1>0, <2>1, <2>2 DEF PanelType, Busy
  <2>5. OneRequest' BY <2>1 DEF PanelInv, OneRequest, Busy
  <2>6. PanelHolds' BY <2>1 DEF PanelInv, PanelHolds, Busy, Unlisted
  <2> QED BY <2>3, <2>5, <2>6 DEF PanelInv
<1>3. CASE ChannelSubmit
  <2>1. /\ UNCHANGED <<kind, chans, path, fetch, hasManageRole, chError,
                       server, channels, chDoubt>>
        /\ chPost.pc = "idle" /\ path # None
        /\ chPost' = [pc |-> "sent", sid |-> path] /\ crossed' = (crossed \/ UnderWay)
    BY <1>3 DEF ChannelSubmit, dbVars, listVars
  <2>2. Inside' = Inside BY <2>1 DEF Inside
  <2>3. path \in Server BY <1>0, <2>1 DEF PanelType, Inside
  <2>4. chPost' \in PostCall /\ chPost'.pc = "sent" /\ chPost'.sid = path
    BY <2>1, <2>3 DEF PostCall
  <2>5. crossed' \in BOOLEAN BY <1>0, <2>1 DEF PanelType, UnderWay
  <2>6. PanelType' BY <1>0, <2>1, <2>2, <2>4, <2>5 DEF PanelType, Busy
  <2>8. OneRequest' BY <2>1, <2>4 DEF OneRequest, Busy, UnderWay
  <2>9. PanelHolds'
    <3>1. Unlisted = {} /\ Unlisted' = {} BY <2>1, <2>4 DEF Unlisted
    <3> QED BY <2>1, <3>1 DEF PanelInv, PanelHolds, Busy
  <2> QED BY <2>6, <2>8, <2>9 DEF PanelInv
<1>4. ASSUME NEW s \in Inside \cup {None}, Navigate(s) PROVE PanelInv'
  BY <1>4, OpenKeeps DEF Navigate
<1> QED BY <1>1, <1>2, <1>3, <1>4 DEF ChannelClicks

(* A bag made from a set has one copy of each of its elements.             *)
LEMMA SetBag ==
  ASSUME NEW S
  PROVE  BagToSet(SetToBag(S)) = S /\ \A e \in S : SetToBag(S)[e] = 1
BY DEF BagToSet, SetToBag

(* A bag with one more of an element.                                      *)
With(B, e) == B (+) SetToBag({e})

LEMMA AddToBag ==
  ASSUME NEW B, NEW e
  PROVE  /\ BagToSet(With(B, e)) = BagToSet(B) \cup {e}
         /\ \A x \in BagToSet(B) : x # e /\ B[x] = 1 => With(B, e)[x] = 1
         /\ e \notin BagToSet(B) => With(B, e)[e] = 1
<1>1. \A x \in BagToSet(B) \cup {e} :
        With(B, e)[x] = (IF x \in DOMAIN B THEN B[x] ELSE 0) + (IF x \in {e} THEN 1 ELSE 0)
  BY DEF BagToSet, SetToBag, (+), With
<1>2. BagToSet(With(B, e)) = BagToSet(B) \cup {e} BY DEF BagToSet, SetToBag, (+), With
<1> QED BY <1>1, <1>2 DEF BagToSet

(* A call of fetchData that moves on, or ends.                             *)
LEMMA FetchMoves ==
  ASSUME PanelInv, NEW f \in Fetch, Busy(f), NEW v \in FetchCall,
         fetch' = [fetch EXCEPT ![f] = v],
         v.pc # "idle" => v.sid = fetch[f].sid /\ v.pc = "read" /\ v.rows = chans[v.sid],
         UNCHANGED <<dbVars, path, crossed, formVars>>
  PROVE  /\ fetch'[f] = v /\ \A g \in Fetch : g # f => fetch'[g] = fetch[g]
         /\ kind' \in [Server -> {"absent", "other", "plain", "owner"}]
         /\ chans' \in [Server -> SUBSET Channel]
         /\ path' \in Inside' \cup {None}
         /\ fetch' \in [Fetch -> FetchCall]
         /\ \A g \in Fetch : Busy(g)' => fetch'[g].sid \in Inside'
         /\ chPost' \in PostCall
         /\ crossed' \in BOOLEAN
         /\ OneRequest'
<1>0. PanelType BY DEF PanelInv
<1>1. UNCHANGED <<kind, chans, path, crossed, chPost, chDoubt>> BY DEF dbVars, formVars
<1>2. Inside' = Inside BY <1>1 DEF Inside
<1>3. fetch'[f] = v /\ \A g \in Fetch : g # f => fetch'[g] = fetch[g] BY <1>0 DEF PanelType
<1>4. \A g \in Fetch : Busy(g)' => Busy(g) /\ fetch'[g].sid = fetch[g].sid BY <1>3 DEF Busy
<1>5. \A g \in Fetch : Busy(g)' => fetch'[g].sid \in Inside'
  BY <1>0, <1>2, <1>4 DEF PanelType
<1>6. OneRequest'
  <2> SUFFICES ASSUME ~crossed PROVE OneRequest' BY <1>1 DEF OneRequest
  <2>1. ASSUME NEW g \in Fetch, Busy(g)'
        PROVE  /\ fetch'[g].sid = path /\ chPost = Idle
               /\ fetch'[g].pc = "read" => fetch'[g].rows = chans[path]
               /\ \A h \in Fetch : Busy(h)' => h = g
    <3>1. g = f BY <1>4, <2>1 DEF PanelInv, OneRequest
    <3>2. v.pc # "idle" BY <1>3, <2>1, <3>1 DEF Busy
    <3> QED BY <1>3, <1>4, <3>1, <3>2 DEF PanelInv, OneRequest
  <2>2. chPost.pc # "idle" => chPost.sid = path BY DEF PanelInv, OneRequest
  <2> QED BY <1>1, <2>1, <2>2 DEF OneRequest
<1> QED BY <1>0, <1>1, <1>2, <1>3, <1>5, <1>6 DEF PanelType

(* The answers to fetchData.                                               *)
LEMMA FetchAnswersKeep ==
  ASSUME PanelInv, NEW f \in Fetch, FetchRead(f) \/ FetchArrive(f) \/ FetchFail(f)
  PROVE  PanelInv'
<1>0. PanelType BY DEF PanelInv
<1>1. fetch[f] \in FetchCall BY <1>0 DEF PanelType
<1>2. Inside' = Inside /\ kind' = kind
  BY DEF FetchRead, FetchArrive, FetchFail, dbVars, Inside
<1>3. CASE FetchRead(f)
  <2>1. PICK v : v = [pc |-> "read", sid |-> fetch[f].sid, rows |-> chans[fetch[f].sid]] OBVIOUS
  <2>2. Busy(f) /\ fetch[f].sid \in Server BY <1>1, <1>3, FetchCallFacts DEF FetchRead, Busy
  <2>3. v \in FetchCall /\ v.pc = "read" /\ v.sid = fetch[f].sid /\ v.rows = chans[v.sid]
    BY <1>0, <2>1, <2>2 DEF FetchCall, PanelType
  <2>4. fetch' = [fetch EXCEPT ![f] = v] /\ UNCHANGED <<dbVars, listVars, path, crossed, formVars, chError>>
    BY <1>0, <1>3, <2>1 DEF FetchRead, PanelType
  <2>5. PanelType'
    BY <1>0, <2>2, <2>3, <2>4, FetchMoves DEF PanelType, listVars
  <2>6. OneRequest' /\ fetch'[f] = v BY <2>2, <2>3, <2>4, FetchMoves
  <2>8. PanelHolds' BY <2>3, <2>6 DEF PanelHolds, Busy
  <2> QED BY <2>5, <2>6, <2>8 DEF PanelInv
<1>4. CASE FetchFail(f)
  <2>1. Busy(f) /\ fetch' = [fetch EXCEPT ![f] = Idle] /\ chError' = TRUE
        /\ UNCHANGED <<dbVars, listVars, path, crossed, formVars>>
    BY <1>4 DEF FetchFail, Busy
  <2>2. OneRequest' /\ PanelType'
    BY <1>0, <2>1, IdleFacts, FetchMoves DEF PanelType, listVars
  <2>4. PanelHolds' BY <2>1 DEF PanelHolds
  <2> QED BY <2>2, <2>4 DEF PanelInv
<1>5. CASE FetchArrive(f)
  <2>1. PICK me \in BOOLEAN, members \in BOOLEAN :
          hasManageRole' = IF me /\ members THEN RolesOfMember(fetch[f].sid) # {} ELSE hasManageRole
    BY <1>5 DEF FetchArrive
  <2>2. /\ Busy(f) /\ fetch[f].pc = "read" /\ fetch' = [fetch EXCEPT ![f] = Idle]
        /\ channels' = SetToBag(fetch[f].rows) /\ server' = fetch[f].sid
        /\ UNCHANGED <<dbVars, chError, path, crossed, formVars>>
    BY <1>5 DEF FetchArrive, Busy
  <2>3. fetch[f].sid \in Inside BY <1>0, <2>2 DEF PanelType
  <2>4. hasManageRole' \in BOOLEAN
    <3>1. CASE me /\ members BY <2>1, <3>1
    <3>2. CASE ~(me /\ members) BY <1>0, <2>1, <3>2 DEF PanelType
    <3> QED BY <3>1, <3>2
  <2>5. PanelType' BY <2>2, <2>4, IdleFacts, FetchMoves DEF PanelType
  <2>6. OneRequest' /\ fetch'[f] = Idle BY <2>2, IdleFacts, FetchMoves
  <2>8. PanelHolds'
    <3> SUFFICES ASSUME ~crossed, path # None
                 PROVE  /\ server' = path
                        /\ \A c \in BagToSet(channels') : c \in chans[path] /\ channels'[c] = 1
                        /\ Unlisted' = {} /\ chans[path] \ BagToSet(channels') = {}
      BY <2>2 DEF PanelHolds, dbVars
    <3>1. fetch[f].sid = path /\ fetch[f].rows = chans[path] /\ chPost = Idle
      BY <2>2 DEF PanelInv, OneRequest
    <3>2. Unlisted' = {} BY <2>2, <3>1, IdleFacts DEF Unlisted, formVars
    <3> QED BY <2>2, <3>1, <3>2, SetBag
  <2> QED BY <2>5, <2>6, <2>8 DEF PanelInv
<1> QED BY <1>3, <1>4, <1>5

(* The POST of a channel: it is stored, answered or given up.              *)
LEMMA ChannelPostKeeps ==
  ASSUME PanelInv, (\E c \in Channel : ChannelCreated(c)) \/ ChannelAnswer \/ ChannelFail
  PROVE  PanelInv'
<1>0. PanelType /\ chPost \in PostCall BY DEF PanelInv, PanelType
<1>1. UNCHANGED <<kind, path, fetch, crossed, hasManageRole, chError, server>>
      /\ Inside' = Inside
  BY DEF ChannelCreated, ChannelAnswer, ChannelFail, dbVars, panelVars, listVars, Inside
<1>3. ASSUME NEW c \in Channel, ChannelCreated(c) PROVE PanelInv'
  <2>1. /\ chPost.pc = "sent" /\ \A s \in Server : c \notin chans[s]
        /\ chans' = [chans EXCEPT ![chPost.sid] = @ \cup {c}]
        /\ chPost' = [pc |-> "done", sid |-> chPost.sid, ch |-> c]
        /\ UNCHANGED <<channels, chDoubt>>
    BY <1>3 DEF ChannelCreated, panelVars, listVars
  <2>2. chPost.sid \in Server BY <1>0, <2>1, PostCallFacts
  <2>3. chPost' \in PostCall /\ chPost'.pc = "done" /\ chPost'.sid = chPost.sid /\ chPost'.ch = c
    BY <2>1, <2>2 DEF PostCall
  <2>4. chans' \in [Server -> SUBSET Channel] /\ chans'[chPost.sid] = chans[chPost.sid] \cup {c}
    BY <1>0, <2>1, <2>2 DEF PanelType
  <2>5. PanelType' BY <1>0, <1>1, <2>3, <2>4 DEF PanelType, Busy
  <2>6. ~crossed => /\ \A f \in Fetch : ~Busy(f)
                    /\ chPost.sid = path
    BY <2>1, IdleFacts DEF PanelInv, OneRequest
  <2>7. OneRequest' BY <1>1, <2>3, <2>6 DEF OneRequest, Busy
  <2>8. PanelHolds'
    <3> SUFFICES ASSUME ~crossed, path # None, ~chError
                 PROVE  /\ server = path
                        /\ \A d \in BagToSet(channels) : d \in chans'[path] /\ channels[d] = 1
                        /\ {c} \subseteq chans'[path] \ BagToSet(channels)
                        /\ chans'[path] \ BagToSet(channels) \subseteq chDoubt \cup {c}
      BY <1>1, <2>1, <2>3 DEF PanelHolds, Unlisted
    <3>1. Unlisted = {} BY <2>1 DEF Unlisted
    <3>2. /\ server = path
          /\ \A d \in BagToSet(channels) : d \in chans[path] /\ channels[d] = 1
          /\ chans[path] \ BagToSet(channels) \subseteq chDoubt
      BY <2>6, <3>1 DEF PanelInv, PanelHolds
    <3>3. c \notin BagToSet(channels) BY <2>1, <2>2, <2>6, <3>2
    <3> QED BY <2>4, <2>6, <3>2, <3>3
  <2> QED BY <2>5, <2>7, <2>8 DEF PanelInv
<1>4. ASSUME chPost' = Idle, chans' = chans PROVE PanelType' /\ OneRequest' /\ Unlisted' = {}
  BY <1>0, <1>1, <1>4, IdleFacts DEF PanelInv, PanelType, OneRequest, Busy, Unlisted
<1>5. CASE ChannelAnswer
  <2>1. /\ chPost.pc = "done" /\ chPost' = Idle /\ UNCHANGED <<chans, chDoubt>>
        /\ channels' = channels (+) SetToBag({chPost.ch})
    BY <1>5 DEF ChannelAnswer, dbVars
  <2>2. PICK c : c = chPost.ch OBVIOUS
  <2>3. Unlisted = {c} BY <2>1, <2>2 DEF Unlisted
  <2>4. PanelHolds'
    <3> SUFFICES ASSUME ~crossed, path # None, ~chError, \A f \in Fetch : ~Busy(f)
                 PROVE  /\ server = path
                        /\ \A d \in BagToSet(channels') : d \in chans[path] /\ channels'[d] = 1
                        /\ chans[path] \ BagToSet(channels') \subseteq chDoubt
      BY <1>1, <1>4, <2>1 DEF PanelHolds, Busy
    <3>1. /\ server = path
          /\ \A d \in BagToSet(channels) : d \in chans[path] /\ channels[d] = 1
          /\ {c} \subseteq chans[path] \ BagToSet(channels)
          /\ chans[path] \ BagToSet(channels) \subseteq chDoubt \cup {c}
      BY <2>3 DEF PanelInv, PanelHolds
    <3>2. BagToSet(channels') = BagToSet(channels) \cup {c}
          /\ \A d \in BagToSet(channels') : channels'[d] = 1
      <4>1. channels' = With(channels, c) BY <2>1, <2>2 DEF With
      <4>2. /\ BagToSet(channels') = BagToSet(channels) \cup {c}
            /\ \A x \in BagToSet(channels) : x # c /\ channels[x] = 1 => channels'[x] = 1
            /\ c \notin BagToSet(channels) => channels'[c] = 1
        BY <4>1, AddToBag
      <4> QED BY <3>1, <4>1, <4>2
    <3> QED BY <3>1, <3>2
  <2> QED BY <1>4, <2>1, <2>4 DEF PanelInv
<1>6. CASE ChannelFail
  <2>1. /\ chPost' = Idle /\ chans' = chans /\ channels' = channels
        /\ chDoubt' = chDoubt \cup Unlisted
    BY <1>6 DEF ChannelFail, dbVars, panelVars, listVars, Unlisted
  <2>2. PanelHolds' BY <1>1, <1>4, <2>1 DEF PanelInv, PanelHolds, Busy
  <2> QED BY <1>4, <2>1, <2>2 DEF PanelInv
<1> QED BY <1>3, <1>5, <1>6

LEMMA ChannelAnswersKeep == PanelInv /\ ChannelAnswers => PanelInv'
BY FetchAnswersKeep, ChannelPostKeeps DEF ChannelAnswers

(* What the clicks and answers of the panel leave alone.                   *)
LEMMA PanelKeepsKinds ==
  ASSUME ChannelClicks \/ ChannelAnswers
  PROVE  kind' = kind
BY DEF ChannelClicks, ChannelAnswers, Retry, openModal, closeModal, ChannelSubmit, Navigate,
       ChannelAnswer, ChannelFail, ChannelCreated, FetchRead, FetchArrive, FetchFail, dbVars

-----------------------------------------------------------------------------
(* The server bar.                                                         *)

LEMMA GetCallFacts ==
  ASSUME NEW c \in GetCall
  PROVE  /\ c.pc \in {"idle", "sent", "read"} /\ c.for \in {"list", "join"}
         /\ c.pc = "read" => c.snap \in SUBSET Server
BY DEF GetCall

LEMMA CreateCallFacts ==
  ASSUME NEW c \in CreateCall
  PROVE  /\ c.pc \in {"idle", "sent", "done"}
         /\ c.pc = "done" => c.sid \in Server
         /\ c.pc # "done" => c.sid = None
         /\ c.pc = "idle" => c = Idle
BY DEF CreateCall, Idle

LEMMA JoinCallFacts ==
  ASSUME NEW c \in JoinCall
  PROVE  /\ c.pc \in {"idle", "sent", "joined", "refetch", "fetched"}
         /\ c.pc # "idle" => c.sid \in Server
         /\ c.pc = "idle" => c = Idle /\ c.sid = None
         /\ c.pc # "idle" => \A pc \in {"joined", "refetch", "fetched"} :
              LET d == [c EXCEPT !.pc = pc] IN d \in JoinCall /\ d.pc = pc /\ d.sid = c.sid
BY DEF JoinCall, Idle

LEMMA ListingIs == Listing <=> \E g \in Get : Getting(g)
BY DEF Listing, Getting

(* At the start the first list is asked for and nothing is shown.          *)
LEMMA BarInitial == Init => BarInv
<1> SUFFICES ASSUME Init PROVE BarInv OBVIOUS
<1>1. /\ create = Idle /\ join = Idle /\ overlap = {} /\ error = FALSE /\ loading = TRUE
      /\ servers = EmptyBag
      /\ get = [g \in Get |-> [pc |-> IF g = CHOOSE h \in Get : TRUE THEN "sent" ELSE "idle",
                               for |-> "list"]]
  BY DEF Init
<1>2. BagToSet(servers) = {} BY <1>1, SetBag DEF EmptyBag
<1>3. ASSUME NEW g \in Get
      PROVE  /\ get[g] \in GetCall /\ get[g].for = "list" /\ get[g].pc # "read"
             /\ Getting(g) => g = CHOOSE h \in Get : TRUE
  BY <1>1 DEF GetCall, Getting
<1>4. get \in [Get -> GetCall] BY <1>1, <1>3
<1>5. BarType BY <1>1, <1>2, <1>3, <1>4, IdleFacts DEF BarType
<1>6. RefetchWaits /\ CreateAlone /\ BarHolds /\ OneIconPerServer
  BY <1>1, <1>2, <1>3, IdleFacts DEF RefetchWaits, CreateAlone, BarHolds, OneIconPerServer
<1>7. ListAlone BY <1>1, <1>3, IdleFacts DEF ListAlone
<1> QED BY <1>5, <1>6, <1>7 DEF BarInv

(* The bar stays as it is.                                                 *)
LEMMA BarStutters ==
  ASSUME BarInv, UNCHANGED <<kind, servers, loading, error, get, create, join, overlap, doubt>>
  PROVE  BarInv'
<1>1. Inside' = Inside /\ (Listing' <=> Listing) /\ \A g \in Get : Getting(g)' <=> Getting(g)
  BY DEF Inside, Listing, Getting
<1>2. BarType' BY <1>1 DEF BarInv, BarType
<1>3. RefetchWaits' BY <1>1 DEF BarInv, RefetchWaits
<1>4. CreateAlone' BY <1>1 DEF BarInv, CreateAlone
<1>5. ListAlone' BY <1>1 DEF BarInv, ListAlone
<1>6. BarHolds' BY <1>1 DEF BarInv, BarHolds, Coming
<1>7. OneIconPerServer' BY DEF BarInv, OneIconPerServer
<1> QED BY <1>2, <1>3, <1>4, <1>5, <1>6, <1>7 DEF BarInv

(* An icon, the id of a listed server, the tabs and the dialog.            *)
LEMMA OpeningKeeps ==
  ASSUME SidebarInv,
         \/ \E s \in Server : ClickServer(s) \/ JoinListed(s)
         \/ ShowTab("create") \/ ShowTab("join") \/ CloseServerModal
  PROVE  SidebarInv'
<1>0. PanelInv /\ BarInv /\ PanelType BY DEF SidebarInv, PanelInv
<1>1. UNCHANGED <<kind, servers, loading, error, get, create, join, overlap, doubt>>
  BY DEF ClickServer, JoinListed, ShowTab, CloseServerModal, channelVars, dbVars, barVars
<1>2. ASSUME NEW s \in Server, ClickServer(s) \/ JoinListed(s) PROVE PanelInv'
  <2>1. s \in Inside BY <1>0, <1>2 DEF ClickServer, JoinListed, BarInv, BarType
  <2> QED BY <1>0, <1>2, <2>1, OpenKeeps DEF ClickServer, JoinListed
<1>3. CASE ShowTab("create") \/ ShowTab("join") \/ CloseServerModal
  <2>1. UNCHANGED <<chans, panelVars, formVars>>
    BY <1>3 DEF ShowTab, CloseServerModal, channelVars, dbVars
  <2> QED BY <1>0, <1>1, <2>1, SameKinds, PanelStutters, BarStutters DEF SidebarInv
<1> QED BY <1>0, <1>1, <1>2, <1>3, BarStutters DEF SidebarInv

-----------------------------------------------------------------------------
(* fetchServers occupies one call and leaves the others.                   *)
LEMMA GetStarts ==
  ASSUME BarInv, NEW caller \in {"list", "join"}, fetchServers(caller)
  PROVE  \E g \in Get :
           /\ ~Getting(g) /\ get'[g].pc = "sent" /\ get'[g].for = caller
           /\ \A h \in Get : h # g => get'[h] = get[h]
           /\ get' \in [Get -> GetCall]
<1>1. PICK g \in Get : /\ get[g].pc = "idle"
                       /\ get' = [get EXCEPT ![g] = [pc |-> "sent", for |-> caller]]
  BY DEF fetchServers
<1>2. [pc |-> "sent", for |-> caller] \in GetCall BY DEF GetCall
<1>3. get \in [Get -> GetCall] BY DEF BarInv, BarType
<1> QED BY <1>1, <1>2, <1>3 DEF Getting

(* A GET of the list begins: for Retry, or for a join whose detail was     *)
(* refused.                                                                *)
LEMMA ListStartKeeps ==
  ASSUME SidebarInv, RetryServers \/ JoinRefetch
  PROVE  SidebarInv'
<1>0. PanelInv /\ BarInv /\ PanelType /\ BarType BY DEF SidebarInv, PanelInv, BarInv
<1>1. UNCHANGED <<kind, chans, panelVars, formVars, servers, create, doubt>> /\ error' = FALSE
      /\ Inside' = Inside
  BY DEF RetryServers, JoinRefetch, fetchServers, channelVars, dbVars, Inside
<1>2. PanelInv' BY <1>0, <1>1, SameKinds, PanelStutters
<1>3. OneIconPerServer'
  <2>1. overlap \subseteq overlap' BY DEF RetryServers, JoinRefetch
  <2> QED BY <1>0, <1>1, <2>1 DEF BarInv, OneIconPerServer
<1>4. "create" \notin overlap' => create = Idle
  <2>1. create.pc # "idle" => "create" \in overlap' BY DEF RetryServers, JoinRefetch, Posting
  <2> QED BY <1>0, <2>1, CreateCallFacts DEF BarType
<1>5. CASE RetryServers
  <2>1. fetchServers("list") /\ join' = join /\ error /\ overlap' = overlap \cup Posting
    BY <1>5 DEF RetryServers
  <2>2. PICK g \in Get : /\ ~Getting(g) /\ get'[g].pc = "sent" /\ get'[g].for = "list"
                         /\ \A h \in Get : h # g => get'[h] = get[h]
                         /\ get' \in [Get -> GetCall]
    BY <1>0, <2>1, GetStarts
  <2>3. BarType' BY <1>0, <1>1, <2>1, <2>2 DEF BarType
  <2>4. RefetchWaits' BY <1>0, <2>1, <2>2 DEF BarInv, RefetchWaits, Getting
  <2>5. CreateAlone' BY <1>1, <1>4, IdleFacts DEF CreateAlone
  <2>6. ListAlone'
    <3> SUFFICES ASSUME overlap' = {} PROVE ListAlone' BY DEF ListAlone
    <3>1. overlap = {} /\ join.pc = "idle" BY <2>1 DEF Posting
    <3>2. \A h \in Get : ~Getting(h) BY <1>0, <2>1, <3>1 DEF BarInv, ListAlone
    <3>3. \A h \in Get : Getting(h)' => h = g BY <2>2, <3>2 DEF Getting
    <3> QED BY <1>1, <1>4, <2>1, <2>2, <3>1, <3>3 DEF ListAlone
  <2>7. BarHolds' BY <2>2 DEF BarHolds, Listing
  <2> QED BY <1>2, <1>3, <2>3, <2>4, <2>5, <2>6, <2>7 DEF SidebarInv, BarInv
<1>6. CASE JoinRefetch
  <2>1. fetchServers("join") /\ join.pc = "joined" /\ join' = [join EXCEPT !.pc = "refetch"]
        /\ overlap \subseteq overlap'
    BY <1>6 DEF JoinRefetch
  <2>2. PICK g \in Get : /\ ~Getting(g) /\ get'[g].pc = "sent" /\ get'[g].for = "join"
                         /\ \A h \in Get : h # g => get'[h] = get[h]
                         /\ get' \in [Get -> GetCall]
    BY <1>0, <2>1, GetStarts
  <2>3. join' \in JoinCall /\ join'.pc = "refetch" /\ join'.sid = join.sid
    BY <1>0, <2>1, JoinCallFacts DEF BarType
  <2>4. BarType' BY <1>0, <1>1, <2>1, <2>2, <2>3 DEF BarType
  <2>5. RefetchWaits' BY <1>0, <2>1, <2>2, <2>3 DEF BarInv, RefetchWaits, Getting
  <2>6. CreateAlone' BY <1>1, <1>4, IdleFacts DEF CreateAlone
  <2>7. ListAlone'
    <3> SUFFICES ASSUME overlap' = {} PROVE ListAlone' BY DEF ListAlone
    <3>1. \A h \in Get : ~Getting(h) BY <1>0, <2>1 DEF BarInv, ListAlone
    <3>2. \A h \in Get : Getting(h)' => h = g BY <2>2, <3>1 DEF Getting
    <3> QED BY <1>1, <1>4, <2>2, <2>3, <3>2 DEF ListAlone
  <2>8. BarHolds' BY <2>2 DEF BarHolds, Listing
  <2> QED BY <1>2, <1>3, <2>4, <2>5, <2>6, <2>7, <2>8 DEF SidebarInv, BarInv
<1> QED BY <1>5, <1>6

(* The servers service computes the list.                                  *)
LEMMA ListReadKeeps ==
  ASSUME SidebarInv, NEW g \in Get, ListRead(g)
  PROVE  SidebarInv'
<1>0. PanelInv /\ BarInv /\ PanelType /\ BarType BY DEF SidebarInv, PanelInv, BarInv
<1>1. /\ UNCHANGED <<kind, chans, panelVars, formVars, servers, loading, error, create, join,
                     overlap, doubt>>
      /\ Inside' = Inside /\ get[g].pc = "sent"
      /\ get' = [get EXCEPT ![g] = [pc |-> "read", for |-> get[g].for, snap |-> Inside]]
  BY <1>0 DEF ListRead, channelVars, dbVars, Inside, BarType
<1>2. PanelInv' BY <1>0, <1>1, SameKinds, PanelStutters
<1>3. get[g].for \in {"list", "join"} BY <1>0, GetCallFacts DEF BarType
<1>4. [pc |-> "read", for |-> get[g].for, snap |-> Inside] \in GetCall
  BY <1>3 DEF GetCall, Inside
<1>5. /\ get' \in [Get -> GetCall]
      /\ get'[g].pc = "read" /\ get'[g].for = get[g].for /\ get'[g].snap = Inside
      /\ \A h \in Get : h # g => get'[h] = get[h]
  BY <1>0, <1>1, <1>4 DEF BarType
<1>6. \A h \in Get : /\ Getting(h)' <=> Getting(h)
                     /\ get'[h].for = get[h].for
  BY <1>1, <1>5 DEF Getting
<1>7. Listing' <=> Listing BY <1>6, ListingIs DEF Listing, Getting
<1>8. BarType' BY <1>0, <1>1, <1>5 DEF BarType
<1>9. RefetchWaits' BY <1>0, <1>1, <1>6 DEF BarInv, RefetchWaits
<1>10. CreateAlone' BY <1>0, <1>1, <1>7 DEF BarInv, CreateAlone
<1>11. ListAlone' BY <1>0, <1>1, <1>5, <1>6 DEF BarInv, ListAlone
<1>12. BarHolds' BY <1>5 DEF BarHolds, Listing
<1>13. OneIconPerServer' BY <1>0, <1>1 DEF BarInv, OneIconPerServer
<1> QED BY <1>2, <1>8, <1>9, <1>10, <1>11, <1>12, <1>13 DEF SidebarInv, BarInv

(* The list arrives, or does not.                                          *)
LEMMA ListEndKeeps ==
  ASSUME SidebarInv, NEW g \in Get, ListArrive(g) \/ ListFail(g)
  PROVE  SidebarInv'
<1>0. PanelInv /\ BarInv /\ PanelType /\ BarType BY DEF SidebarInv, PanelInv, BarInv
<1>1. /\ UNCHANGED <<kind, chans, panelVars, formVars, create, overlap, doubt>>
      /\ Inside' = Inside /\ Getting(g)
      /\ get' = [get EXCEPT ![g] = [pc |-> "idle", for |-> "list"]]
      /\ join' = IF get[g].for = "join" THEN [join EXCEPT !.pc = "fetched"] ELSE join
  BY DEF ListArrive, ListFail, Resume, channelVars, dbVars, Inside, Getting
<1>2. PanelInv' BY <1>0, <1>1, SameKinds, PanelStutters
<1>3. [pc |-> "idle", for |-> "list"] \in GetCall BY DEF GetCall
<1>4. /\ get' \in [Get -> GetCall] /\ get'[g].pc = "idle"
      /\ \A h \in Get : h # g => get'[h] = get[h]
  BY <1>0, <1>1, <1>3 DEF BarType
<1>5. \A h \in Get : Getting(h)' => Getting(h) /\ h # g /\ get'[h] = get[h] BY <1>4 DEF Getting
<1>6. ASSUME get[g].for = "join"
      PROVE  join' \in JoinCall /\ join'.pc = "fetched" /\ join'.sid = join.sid /\ join.pc = "refetch"
  <2>1. join.pc = "refetch" BY <1>0, <1>1, <1>6 DEF BarInv, RefetchWaits
  <2> QED BY <1>0, <1>1, <1>6, <2>1, JoinCallFacts DEF BarType
<1>7. /\ join' \in JoinCall /\ join'.sid = join.sid
      /\ join'.pc # "idle" => kind[join'.sid] # "absent"
      /\ join'.pc \in {"joined", "refetch", "fetched"} => join'.sid \in Inside
      /\ join'.pc = join.pc \/ (join.pc = "refetch" /\ join'.pc = "fetched")
  <2>1. CASE get[g].for = "join" BY <1>0, <1>6, <2>1 DEF BarType
  <2>2. CASE get[g].for # "join" BY <1>0, <1>1, <2>2 DEF BarType
  <2> QED BY <2>1, <2>2
<1>8. /\ BagToSet(servers') \subseteq Inside
      /\ \A s \in BagToSet(servers') : servers'[s] = 1 \/ "create" \in overlap
  <2>1. CASE ListArrive(g)
    <3>1. servers' = SetToBag(get[g].snap) /\ get[g].pc = "read" BY <2>1 DEF ListArrive
    <3>2. get[g].snap \subseteq Inside BY <1>0, <3>1 DEF BarType
    <3> QED BY <3>1, <3>2, SetBag
  <2>2. CASE ListFail(g)
    <3>1. servers' = servers BY <2>2 DEF ListFail
    <3> QED BY <1>0, <3>1 DEF BarInv, BarType, OneIconPerServer
  <2> QED BY <2>1, <2>2
<1>9. BarType' BY <1>0, <1>1, <1>4, <1>5, <1>7, <1>8 DEF BarType, Getting
<1>10. RefetchWaits'
  <2>1. CASE get[g].for = "join" BY <1>0, <1>1, <1>5, <2>1 DEF BarInv, RefetchWaits
  <2>2. CASE get[g].for # "join" BY <1>0, <1>1, <1>5, <2>2 DEF BarInv, RefetchWaits
  <2> QED BY <2>1, <2>2
<1>11. CreateAlone' BY <1>0, <1>1 DEF BarInv, CreateAlone, Listing, Getting
<1>12. overlap = {} => \A h \in Get : ~Getting(h)' BY <1>0, <1>1, <1>5 DEF BarInv, ListAlone
<1>13. ListAlone' BY <1>1, <1>12 DEF ListAlone
<1>14. BarHolds'
  <2>1. CASE ListArrive(g)
    <3> SUFFICES ASSUME overlap = {} PROVE Inside = BagToSet(servers') BY <1>1 DEF BarHolds
    <3>1. servers' = SetToBag(get[g].snap) /\ get[g].pc = "read" BY <2>1 DEF ListArrive
    <3>2. get[g].snap = Inside BY <1>0, <1>1, <3>1 DEF BarInv, ListAlone
    <3> QED BY <3>1, <3>2, SetBag
  <2>2. CASE ListFail(g) BY <2>2 DEF ListFail, BarHolds
  <2> QED BY <2>1, <2>2
<1>15. OneIconPerServer' BY <1>1, <1>8 DEF OneIconPerServer
<1> QED BY <1>2, <1>9, <1>10, <1>11, <1>13, <1>14, <1>15 DEF SidebarInv, BarInv

-----------------------------------------------------------------------------
(* Create: the POST goes out, the server is stored, ...                    *)
LEMMA CreateKeeps ==
  ASSUME SidebarInv, CreateSubmit \/ (\E s \in Server : Created(s)) \/ CreateFail
  PROVE  SidebarInv'
<1>0. PanelInv /\ BarInv /\ PanelType /\ BarType BY DEF SidebarInv, PanelInv, BarInv
<1>1. UNCHANGED <<chans, panelVars, formVars, servers, loading, error, get, join>>
      /\ (Listing' <=> Listing) /\ \A g \in Get : Getting(g)' <=> Getting(g)
  BY DEF CreateSubmit, Created, CreateFail, channelVars, dbVars, Listing, Getting
<1>2. CASE CreateSubmit
  <2>1. /\ create.pc = "idle" /\ create' = [pc |-> "sent", sid |-> None]
        /\ overlap' = IF Listing THEN overlap \cup {"create"} ELSE overlap
        /\ UNCHANGED <<kind, doubt>> /\ Inside' = Inside
    BY <1>2 DEF CreateSubmit, channelVars, dbVars, Inside
  <2>2. create' \in CreateCall /\ create'.pc = "sent" BY <2>1 DEF CreateCall
  <2>3. overlap \subseteq overlap' /\ (Listing => "create" \in overlap') BY <2>1
  <2>4. PanelInv' BY <1>0, <1>1, <2>1, SameKinds, PanelStutters
  <2>5. BarType' BY <1>0, <1>1, <2>1, <2>2 DEF BarType
  <2>6. RefetchWaits' BY <1>0, <1>1 DEF BarInv, RefetchWaits
  <2>7. CreateAlone' BY <1>1, <2>2, <2>3 DEF CreateAlone
  <2>8. ListAlone' BY <1>1, <2>3, ListingIs DEF ListAlone
  <2>9. BarHolds'
    <3>1. Coming' = Coming BY <1>1, <2>1, <2>2 DEF Coming
    <3> QED BY <1>0, <1>1, <2>1, <2>3, <3>1 DEF BarInv, BarHolds
  <2>10. OneIconPerServer' BY <1>0, <1>1, <2>3 DEF BarInv, OneIconPerServer
  <2> QED BY <2>4, <2>5, <2>6, <2>7, <2>8, <2>9, <2>10 DEF SidebarInv, BarInv
<1>3. ASSUME NEW s \in Server, Created(s) PROVE SidebarInv'
  <2>1. /\ create.pc = "sent" /\ kind[s] = "absent" /\ kind' = [kind EXCEPT ![s] = "owner"]
        /\ create' = [pc |-> "done", sid |-> s] /\ UNCHANGED <<overlap, doubt>>
    BY <1>3 DEF Created
  <2>2. create' \in CreateCall /\ create'.pc = "done" /\ create'.sid = s BY <2>1 DEF CreateCall
  <2>3. Grows /\ Inside' = Inside \cup {s} /\ s \notin Inside
    BY <1>0, <2>1 DEF PanelType, Grows, Inside
  <2>4. PanelInv' BY <1>0, <1>1, <2>3, PanelStutters
  <2>5. join.sid # s
    <3>1. CASE join.pc = "idle"
      <4>1. join = Idle BY <1>0, <3>1 DEF BarType, JoinCall
      <4> QED BY <4>1, IdleFacts, SidebarAssumption
    <3>2. CASE join.pc # "idle" BY <1>0, <2>1, <3>2 DEF BarType
    <3> QED BY <3>1, <3>2
  <2>6. BarType'
    <3>1. join.pc # "idle" => kind'[join.sid] # "absent"
      <4>1. join.pc # "idle" => join.sid \in Server BY <1>0, JoinCallFacts DEF BarType
      <4> QED BY <1>0, <2>1, <2>5, <4>1 DEF BarType, PanelType
    <3> QED BY <1>0, <1>1, <2>2, <2>3, <3>1 DEF BarType
  <2>7. RefetchWaits' BY <1>0, <1>1 DEF BarInv, RefetchWaits
  <2>8. CreateAlone'
    <3>1. s \notin BagToSet(servers) BY <1>0, <2>3 DEF BarType
    <3> QED BY <1>0, <1>1, <2>1, <2>2, <2>5, <3>1 DEF BarInv, CreateAlone
  <2>9. ListAlone' BY <1>0, <1>1, <2>1, IdleFacts DEF BarInv, ListAlone
  <2>10. BarHolds'
    <3>1. Coming' = Coming \cup {s} BY <1>1, <2>1, <2>2 DEF Coming
    <3> QED BY <1>0, <1>1, <2>1, <2>3, <3>1 DEF BarInv, BarHolds
  <2>11. OneIconPerServer' BY <1>0, <1>1, <2>1 DEF BarInv, OneIconPerServer
  <2> QED BY <2>4, <2>6, <2>7, <2>8, <2>9, <2>10, <2>11 DEF SidebarInv, BarInv
<1>4. CASE CreateFail
  <2>1. /\ create.pc # "idle" /\ create' = Idle /\ UNCHANGED <<kind, overlap>> /\ Inside' = Inside
        /\ doubt' = doubt \cup (IF create.pc = "done" THEN {create.sid} ELSE {})
    BY <1>4 DEF CreateFail, channelVars, dbVars, Inside
  <2>2. PanelInv' BY <1>0, <1>1, <2>1, SameKinds, PanelStutters
  <2>3. BarType' BY <1>0, <1>1, <2>1, IdleFacts DEF BarType
  <2>4. RefetchWaits' BY <1>0, <1>1 DEF BarInv, RefetchWaits
  <2>5. CreateAlone' BY <2>1, IdleFacts DEF CreateAlone
  <2>6. ListAlone' BY <1>0, <1>1, <2>1, IdleFacts DEF BarInv, ListAlone
  <2>7. BarHolds'
    <3>1. doubt \cup Coming \subseteq doubt' \cup Coming' BY <1>1, <2>1, IdleFacts DEF Coming
    <3> QED BY <1>0, <1>1, <2>1, <3>1 DEF BarInv, BarHolds
  <2>8. OneIconPerServer' BY <1>0, <1>1, <2>1 DEF BarInv, OneIconPerServer
  <2> QED BY <2>2, <2>3, <2>4, <2>5, <2>6, <2>7, <2>8 DEF SidebarInv, BarInv
<1> QED BY <1>2, <1>3, <1>4

(* ... and the answer puts it on the bar and opens it.                     *)
LEMMA CreateAnswerKeeps ==
  ASSUME SidebarInv, CreateAnswer
  PROVE  SidebarInv'
<1>0. PanelInv /\ BarInv /\ PanelType /\ BarType BY DEF SidebarInv, PanelInv, BarInv
<1>1. PICK c : c = create.sid OBVIOUS
<1>2. /\ create.pc = "done" /\ servers' = servers (+) SetToBag({c}) /\ create' = Idle
      /\ Open(c) /\ UNCHANGED <<dbVars, formVars>>
      /\ UNCHANGED <<kind, loading, error, get, join, overlap, doubt>>
  BY <1>1 DEF CreateAnswer, dbVars
<1>3. c \in Inside /\ Inside' = Inside BY <1>0, <1>1, <1>2 DEF BarType, Inside
<1>4. PanelInv' BY <1>0, <1>2, <1>3, OpenKeeps
<1>5. /\ BagToSet(servers') = BagToSet(servers) \cup {c}
      /\ \A x \in BagToSet(servers) : x # c /\ servers[x] = 1 => servers'[x] = 1
      /\ c \notin BagToSet(servers) => servers'[c] = 1
  <2>1. servers' = With(servers, c) BY <1>2 DEF With
  <2> QED BY <2>1, AddToBag
<1>6. (Listing' <=> Listing) /\ \A g \in Get : Getting(g)' <=> Getting(g)
  BY <1>2 DEF Listing, Getting
<1>7. BarType' BY <1>0, <1>2, <1>3, <1>5, IdleFacts DEF BarType
<1>8. RefetchWaits' BY <1>0, <1>2, <1>6 DEF BarInv, RefetchWaits
<1>9. CreateAlone' BY <1>2, IdleFacts DEF CreateAlone
<1>10. ListAlone' BY <1>0, <1>2, <1>6, IdleFacts DEF BarInv, ListAlone
<1>11. BarHolds'
  <2>1. Coming \subseteq Coming' \cup {c} BY <1>1, <1>2 DEF Coming
  <2> QED BY <1>0, <1>2, <1>3, <1>5, <1>6, <2>1 DEF BarInv, BarHolds
<1>12. OneIconPerServer'
  <2>1. c \notin BagToSet(servers) \/ "create" \in overlap
    BY <1>0, <1>1, <1>2 DEF BarInv, CreateAlone
  <2> QED BY <1>0, <1>2, <1>5, <2>1 DEF BarInv, OneIconPerServer
<1> QED BY <1>4, <1>7, <1>8, <1>9, <1>10, <1>11, <1>12 DEF SidebarInv, BarInv

-----------------------------------------------------------------------------
(* Join: an id is pasted, ...                                              *)
LEMMA JoinSubmitKeeps ==
  ASSUME SidebarInv, NEW s \in Server, JoinSubmit(s)
  PROVE  SidebarInv'
<1>0. PanelInv /\ BarInv /\ PanelType /\ BarType BY DEF SidebarInv, PanelInv, BarInv
<1>1. /\ join.pc = "idle" /\ s # create.sid /\ kind[s] # "absent"
      /\ join' = [pc |-> "sent", sid |-> s]
      /\ overlap' = IF Listing THEN overlap \cup {"join"} ELSE overlap
      /\ UNCHANGED <<kind, chans, panelVars, formVars, servers, loading, error, get, create, doubt>>
  BY DEF JoinSubmit, channelVars, dbVars
<1>2. /\ Inside' = Inside /\ (Listing' <=> Listing) /\ \A g \in Get : Getting(g)' <=> Getting(g)
      /\ overlap \subseteq overlap' /\ (overlap' = {} => ~Listing)
      /\ ("create" \in overlap' => "create" \in overlap)
  BY <1>1 DEF Inside, Listing, Getting
<1>3. join' \in JoinCall /\ join'.pc = "sent" /\ join'.sid = s BY <1>1 DEF JoinCall
<1>4. PanelInv' BY <1>0, <1>1, SameKinds, PanelStutters
<1>5. BarType' BY <1>0, <1>1, <1>2, <1>3 DEF BarType
<1>6. RefetchWaits' BY <1>0, <1>1, <1>2 DEF BarInv, RefetchWaits
<1>7. CreateAlone' BY <1>0, <1>1, <1>2, <1>3 DEF BarInv, CreateAlone
<1>8. ListAlone' BY <1>2, ListingIs DEF ListAlone
<1>9. BarHolds'
  <2>1. Coming' = Coming BY <1>1, <1>3 DEF Coming
  <2> QED BY <1>0, <1>1, <1>2, <2>1 DEF BarInv, BarHolds
<1>10. OneIconPerServer' BY <1>0, <1>1, <1>2 DEF BarInv, OneIconPerServer
<1> QED BY <1>4, <1>5, <1>6, <1>7, <1>8, <1>9, <1>10 DEF SidebarInv, BarInv

(* ... the servers service makes the user a member, ...                    *)
LEMMA JoinedKeeps ==
  ASSUME SidebarInv, Joined
  PROVE  SidebarInv'
<1>0. PanelInv /\ BarInv /\ PanelType /\ BarType BY DEF SidebarInv, PanelInv, BarInv
<1>1. PICK s : s = join.sid OBVIOUS
<1>2. /\ join.pc = "sent" /\ kind' = [kind EXCEPT ![s] = IF @ = "other" THEN "plain" ELSE @]
      /\ join' = [join EXCEPT !.pc = "joined"]
      /\ UNCHANGED <<chans, panelVars, formVars, servers, loading, error, get, create, overlap, doubt>>
      /\ (Listing' <=> Listing) /\ \A g \in Get : Getting(g)' <=> Getting(g)
  BY <1>1 DEF Joined, Listing, Getting
<1>3. s \in Server /\ kind[s] # "absent" BY <1>0, <1>1, <1>2, JoinCallFacts DEF BarType
<1>4. join' \in JoinCall /\ join'.pc = "joined" /\ join'.sid = s
  BY <1>0, <1>1, <1>2, JoinCallFacts DEF BarType
<1>5. Grows /\ Inside' = Inside \cup {s} /\ kind'[s] # "absent"
  BY <1>0, <1>2, <1>3 DEF PanelType, Grows, Inside
<1>6. PanelInv' BY <1>0, <1>2, <1>5, PanelStutters
<1>7. BarType' BY <1>0, <1>2, <1>4, <1>5 DEF BarType
<1>8. RefetchWaits' BY <1>0, <1>2 DEF BarInv, RefetchWaits
<1>9. CreateAlone' BY <1>0, <1>1, <1>2, <1>4 DEF BarInv, CreateAlone
<1>10. ListAlone' BY <1>0, <1>2 DEF BarInv, ListAlone
<1>11. BarHolds'
  <2>1. Coming' = Coming \cup {s} BY <1>2, <1>4 DEF Coming
  <2> QED BY <1>0, <1>2, <1>5, <2>1 DEF BarInv, BarHolds
<1>12. OneIconPerServer' BY <1>0, <1>2 DEF BarInv, OneIconPerServer
<1> QED BY <1>6, <1>7, <1>8, <1>9, <1>10, <1>11, <1>12 DEF SidebarInv, BarInv

(* ... and handleJoin ends: with the detail, with the list fetched again,  *)
(* or with an error.                                                       *)
LEMMA JoinEndKeeps ==
  ASSUME SidebarInv, JoinDetail \/ JoinFetched \/ JoinFail
  PROVE  SidebarInv'
<1>0. PanelInv /\ BarInv /\ PanelType /\ BarType BY DEF SidebarInv, PanelInv, BarInv
<1>1. PICK s : s = join.sid OBVIOUS
<1>2. /\ join.pc \in {"sent", "joined", "fetched"} /\ join' = Idle
      /\ UNCHANGED <<kind, loading, error, get, create, overlap>> /\ Inside' = Inside
      /\ (Listing' <=> Listing) /\ \A g \in Get : Getting(g)' <=> Getting(g)
  BY DEF JoinDetail, JoinFetched, JoinFail, channelVars, dbVars, Inside, Listing, Getting
<1>3. PanelInv'
  <2>1. CASE JoinFail
    <3>1. UNCHANGED <<chans, panelVars, formVars>> BY <2>1 DEF JoinFail, channelVars, dbVars
    <3> QED BY <1>0, <1>2, <3>1, SameKinds, PanelStutters
  <2>2. CASE JoinDetail \/ JoinFetched
    <3>1. Open(s) /\ UNCHANGED <<dbVars, formVars>> /\ join.pc \in {"joined", "fetched"}
      BY <1>1, <2>2 DEF JoinDetail, JoinFetched
    <3>2. s \in Inside BY <1>0, <1>1, <3>1 DEF BarType
    <3> QED BY <1>0, <3>1, <3>2, OpenKeeps
  <2> QED BY <2>1, <2>2
<1>4. /\ BagToSet(servers') \subseteq BagToSet(servers) \cup {s}
      /\ BagToSet(servers) \subseteq BagToSet(servers')
      /\ BagToSet(servers') \subseteq Inside
      /\ \A t \in BagToSet(servers') : servers'[t] = 1 \/ "create" \in overlap
      /\ doubt \cup Coming \subseteq doubt' \cup Coming' \cup BagToSet(servers')
  <2>1. CASE JoinDetail /\ s \notin BagToSet(servers)
    <3>1. servers' = servers (+) SetToBag({s}) /\ doubt' = doubt /\ join.pc = "joined"
      BY <1>1, <2>1 DEF JoinDetail, BagIn, BagToSet
    <3>2. /\ BagToSet(servers') = BagToSet(servers) \cup {s}
          /\ \A t \in BagToSet(servers) : t # s /\ servers[t] = 1 => servers'[t] = 1
          /\ s \notin BagToSet(servers) => servers'[s] = 1
      <4>1. servers' = With(servers, s) BY <3>1 DEF With
      <4> QED BY <4>1, AddToBag
    <3>3. s \in Inside BY <1>0, <1>1, <3>1 DEF BarType
    <3>4. Coming \subseteq Coming' \cup {s} BY <1>1, <1>2, IdleFacts DEF Coming
    <3> QED BY <1>0, <2>1, <3>1, <3>2, <3>3, <3>4 DEF BarInv, BarType, OneIconPerServer
  <2>2. CASE JoinDetail /\ s \in BagToSet(servers)
    <3>1. servers' = servers /\ doubt' = doubt
      BY <1>1, <2>2 DEF JoinDetail, BagIn, BagToSet
    <3>2. Coming \subseteq Coming' \cup {s} BY <1>1, <1>2, IdleFacts DEF Coming
    <3> QED BY <1>0, <2>2, <3>1, <3>2 DEF BarInv, BarType, OneIconPerServer
  <2>3. CASE JoinFetched
    <3>1. servers' = servers /\ doubt' = doubt /\ join.pc = "fetched" BY <2>3 DEF JoinFetched
    <3>2. Coming' = Coming BY <1>2, <3>1, IdleFacts DEF Coming
    <3> QED BY <1>0, <3>1, <3>2 DEF BarInv, BarType, OneIconPerServer
  <2>4. CASE JoinFail
    <3>1. servers' = servers /\ doubt' = doubt \cup {s} BY <1>1, <2>4 DEF JoinFail
    <3>2. Coming \subseteq Coming' \cup {s} BY <1>1, <1>2, IdleFacts DEF Coming
    <3> QED BY <1>0, <3>1, <3>2 DEF BarInv, BarType, OneIconPerServer
  <2> QED BY <2>1, <2>2, <2>3, <2>4
<1>5. BarType' BY <1>0, <1>2, <1>4, IdleFacts DEF BarType
<1>6. RefetchWaits' BY <1>0, <1>2 DEF BarInv, RefetchWaits
<1>7. CreateAlone'
  <2> SUFFICES ASSUME create.pc # "idle", "create" \notin overlap PROVE CreateAlone'
    BY <1>2 DEF CreateAlone
  <2>1. ~Listing /\ (create.pc = "done" => create.sid \notin BagToSet(servers) /\ s # create.sid)
    BY <1>0, <1>1 DEF BarInv, CreateAlone
  <2>2. create.pc = "done" => create.sid # None
    BY <1>0, CreateCallFacts, SidebarAssumption DEF BarType
  <2> QED BY <1>2, <1>4, <2>1, <2>2, IdleFacts DEF CreateAlone
<1>8. ListAlone' BY <1>0, <1>2 DEF BarInv, ListAlone
<1>9. BarHolds' BY <1>0, <1>2, <1>4 DEF BarInv, BarHolds
<1>10. OneIconPerServer' BY <1>2, <1>4 DEF OneIconPerServer
<1> QED BY <1>3, <1>5, <1>6, <1>7, <1>8, <1>9, <1>10 DEF SidebarInv, BarInv

-----------------------------------------------------------------------------
LEMMA SidebarInitial == Init => SidebarInv
BY PanelInitial, BarInitial DEF Init, SidebarInv

LEMMA SidebarStep == SidebarInv /\ [Next]_vars => SidebarInv'
<1> SUFFICES ASSUME SidebarInv, [Next]_vars PROVE SidebarInv' OBVIOUS
<1>0. PanelInv /\ BarInv /\ PanelType BY DEF SidebarInv, PanelInv
<1>1. CASE ServerClicks
  BY <1>1, OpeningKeeps, ListStartKeeps, CreateKeeps, JoinSubmitKeeps DEF ServerClicks
<1>2. CASE ServerAnswers
  BY <1>2, CreateAnswerKeeps, CreateKeeps, JoinedKeeps, JoinEndKeeps, ListStartKeeps,
     ListReadKeeps, ListEndKeeps
     DEF ServerAnswers
<1>3. CASE (ChannelClicks \/ ChannelAnswers) /\ UNCHANGED barVars
  <2>1. PanelInv' BY <1>0, <1>3, ChannelClicksKeep, ChannelAnswersKeep
  <2>2. UNCHANGED <<kind, servers, loading, error, get, create, join, overlap, doubt>>
    BY <1>3, PanelKeepsKinds DEF barVars
  <2> QED BY <1>0, <2>1, <2>2, BarStutters DEF SidebarInv
<1>4. CASE UNCHANGED vars
  <2>1. UNCHANGED <<kind, chans, panelVars, formVars>>
        /\ UNCHANGED <<servers, loading, error, get, create, join, overlap, doubt>>
    BY <1>4 DEF vars, channelVars, dbVars, barVars
  <2> QED BY <1>0, <2>1, SameKinds, PanelStutters, BarStutters DEF SidebarInv
<1> QED BY <1>1, <1>2, <1>3, <1>4 DEF Next

LEMMA SidebarInvariant == Spec => []SidebarInv
BY SidebarInitial, SidebarStep, PTL DEF Spec

-----------------------------------------------------------------------------
(* ChannelSidebar.tsx: however fetchData, the POST of a channel and the    *)
(* clicks interleave, a settled panel lists the channels of the server of  *)
(* the URL, each once, unless one request began while another was under    *)
(* way.                                                                    *)
THEOREM PanelShowsItsServer == Spec => []PanelOfThisServer
<1>1. SidebarInv => PanelOfThisServer
  <2> SUFFICES ASSUME SidebarInv, Settled PROVE PanelOfThisServer BY DEF PanelOfThisServer
  <2>1. /\ ~crossed /\ path # None /\ ~chError /\ chPost.pc = "idle"
        /\ \A f \in Fetch : ~Busy(f)
    BY DEF Settled, ChShown, UnderWay, Busy
  <2>2. Unlisted = {} BY <2>1 DEF Unlisted
  <2> QED BY <2>1, <2>2 DEF SidebarInv, PanelInv, PanelHolds, PanelOfThisServer
<1> QED BY <1>1, SidebarInvariant, PTL

(* ServerSidebar.tsx: however handleCreate, handleJoin and fetchServers    *)
(* interleave, no server gets a second icon unless the list was being      *)
(* fetched while a create was under way.                                   *)
THEOREM NoSecondIcon == Spec => []OneIconPerServer
<1>1. SidebarInv => OneIconPerServer BY DEF SidebarInv, BarInv
<1> QED BY <1>1, SidebarInvariant, PTL

(* ServerSidebar.tsx: at rest the icons are the servers the user is in,    *)
(* but for one whose create or join was reported as failed, unless a       *)
(* create or join overlapped a GET of the list.                            *)
THEOREM IconsMatchMembership == Spec => []IconsAreMemberships
<1>1. SidebarInv => IconsAreMemberships
  <2> SUFFICES ASSUME SidebarInv, ~loading, ~error, create = Idle, join = Idle, ~Listing,
                      overlap = {}
               PROVE  /\ BagToSet(servers) \subseteq Inside
                      /\ Inside \ BagToSet(servers) \subseteq doubt
    BY DEF IconsAreMemberships
  <2>1. Coming = {} BY IdleFacts DEF Coming
  <2> QED BY <2>1 DEF SidebarInv, BarInv, BarType, BarHolds
<1> QED BY <1>1, SidebarInvariant, PTL
=============================================================================

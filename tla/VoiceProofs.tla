---------------------------- MODULE VoiceProofs ----------------------------
(* Proofs about VoiceChannel.                                              *)
EXTENDS VoiceChannel, TLAPS

(* The parts of the type invariant the proof needs.                        *)
PageType ==
  /\ DOMAIN page = User /\ DOMAIN join = User /\ members \subseteq User
  /\ \A u \in User : page[u] \in [stage: {"out", "joining", "mic", "listing", "opening", "in"},
                                  visit: Visit \cup {None},
                                  listed: SUBSET User, due: SUBSET User]

(* A POST /join is only in progress while its page waits for it.           *)
JoinAwaited == \A u \in User : join[u] # "none" => Stage(u) = "joining"

(* Being sound includes being in the sorted set.                           *)
SoundIsMember == sound \subseteq members

(* The inductive invariant.                                                *)
VoiceInv == PageType /\ JoinAwaited /\ SoundIsMember /\ OneOffers

(* A page that goes nowhere but out, and a set that only shrinks, keep it. *)
LEMMA ShrinkKeeps ==
  ASSUME VoiceInv, PageType', JoinAwaited', sound' \subseteq sound, SoundIsMember',
         \A u \in User : Present(u)' => Present(u) /\ page'[u].listed = page[u].listed
  PROVE  VoiceInv'
  BY DEF VoiceInv, OneOffers

LEMMA VoiceInit == Init => VoiceInv
  BY DEF Init, Outside, VoiceInv, PageType, JoinAwaited, SoundIsMember, OneOffers, Present, Stage

(* POST /join keeps it: it adds a user only while the user's page waits.   *)
LEMMA JoinKeeps ==
  ASSUME VoiceInv, NEW u \in User, JoinStep(u)
  PROVE  VoiceInv'
<1>1. /\ page' = page /\ PageType' /\ JoinAwaited' /\ SoundIsMember'
      /\ sound' \subseteq sound \cup {u} /\ Stage(u) = "joining"
  BY DEF VoiceInv, PageType, JoinAwaited, SoundIsMember, Stage, JoinStep, JoinPerm, JoinAdd,
         JoinExpire, JoinCast
<1>2. OneOffers'
  BY <1>1 DEF VoiceInv, OneOffers, Present, Stage
<1> QED BY <1>1, <1>2 DEF VoiceInv

(* The list of the page that is read here holds everyone who is sound.     *)
LEMMA ListKeeps ==
  ASSUME VoiceInv, NEW u \in User, ListAnswer(u)
  PROVE  VoiceInv'
<1>1. PageType' /\ JoinAwaited' /\ SoundIsMember' /\ sound' = sound
  <2>1. /\ DOMAIN page' = User /\ DOMAIN join' = User /\ members' \subseteq User
        /\ \A w \in User : w # u => page'[w] = page[w]
    BY DEF VoiceInv, PageType, ListAnswer, OpenSocket
  <2>2. page'[u] = [stage |-> "opening", visit |-> page[u].visit, listed |-> members \ {u},
                       due |-> {}]
    BY DEF VoiceInv, PageType, ListAnswer, OpenSocket
  <2>3. PageType'
    BY <2>1, <2>2 DEF VoiceInv, PageType
  <2>4. JoinAwaited' /\ SoundIsMember' /\ sound' = sound
    BY <2>1, <2>2 DEF VoiceInv, PageType, JoinAwaited, SoundIsMember, Stage, ListAnswer, OpenSocket
  <2> QED BY <2>3, <2>4
<1>2. \A w \in User : w # u => page'[w] = page[w]
  BY DEF VoiceInv, PageType, ListAnswer, OpenSocket
<1>3. page'[u].listed = members \ {u}
  BY DEF VoiceInv, PageType, ListAnswer, OpenSocket
<1>4. \A w \in User : w # u /\ w \in sound => w \in page'[u].listed
  BY <1>3 DEF VoiceInv, SoundIsMember
<1>5. OneOffers'
  BY <1>1, <1>2, <1>4 DEF VoiceInv, OneOffers, Present, Stage
<1> QED BY <1>1, <1>5 DEF VoiceInv

(* The other steps of a page.                                              *)
LEMMA PageKeeps ==
  ASSUME VoiceInv, NEW u \in User, PageStep(u)
  PROVE  VoiceInv'
<1>1. CASE ListAnswer(u) BY <1>1, ListKeeps
<1>2. CASE ListFails(u)
  <2>1. PageType' /\ JoinAwaited' /\ SoundIsMember' /\ sound' = sound \ {u}
    <3>1. /\ DOMAIN page' = User /\ DOMAIN join' = User /\ members' \subseteq User
          /\ \A w \in User : w # u => page'[w] = page[w]
      BY <1>2 DEF VoiceInv, PageType, ListFails, OpenSocket
    <3>2. page'[u] = [stage |-> "opening", visit |-> page[u].visit, listed |-> {},
                         due |-> {}]
      BY <1>2 DEF VoiceInv, PageType, ListFails, OpenSocket
    <3>3. PageType'
      BY <3>1, <3>2 DEF VoiceInv, PageType
    <3>4. JoinAwaited' /\ SoundIsMember' /\ sound' = sound \ {u}
      BY <1>2, <3>1, <3>2 DEF VoiceInv, PageType, JoinAwaited, SoundIsMember, Stage, ListFails, OpenSocket
    <3> QED BY <3>3, <3>4
  <2>2. \A w \in User : w # u => page'[w] = page[w]
    BY <1>2 DEF VoiceInv, PageType, ListFails, OpenSocket
  <2>3. OneOffers'
    BY <2>1, <2>2 DEF VoiceInv, OneOffers, Present, Stage
  <2> QED BY <2>1, <2>3 DEF VoiceInv
<1>3. CASE OnOpen(u)
  <2>1. PageType' /\ JoinAwaited' /\ SoundIsMember' /\ sound' = sound
    <3>1. /\ DOMAIN page' = User /\ DOMAIN join' = User /\ members' \subseteq User
          /\ \A w \in User : w # u => page'[w] = page[w]
      BY <1>3 DEF VoiceInv, PageType, OnOpen
    <3>2. page'[u] = [stage |-> "in", visit |-> page[u].visit, listed |-> page[u].listed,
                         due |-> page[u].listed]
      BY <1>3 DEF VoiceInv, PageType, OnOpen
    <3>3. PageType'
      BY <3>1, <3>2 DEF VoiceInv, PageType
    <3>4. JoinAwaited' /\ SoundIsMember' /\ sound' = sound
      BY <1>3, <3>1, <3>2 DEF VoiceInv, PageType, JoinAwaited, SoundIsMember, Stage, OnOpen
    <3> QED BY <3>3, <3>4
  <2>2. \A w \in User : Present(w)' => Present(w) /\ page'[w].listed = page[w].listed
    BY <1>3 DEF VoiceInv, PageType, OnOpen, Present, Stage
  <2> QED BY <2>1, <2>2, ShrinkKeeps
<1>4. ASSUME NEW v \in Visit, HandleJoin(u, v) PROVE VoiceInv'
  <2>1. PageType' /\ JoinAwaited' /\ SoundIsMember' /\ sound' = sound
    <3>1. /\ DOMAIN page' = User /\ DOMAIN join' = User /\ members' \subseteq User
          /\ \A w \in User : w # u => page'[w] = page[w]
      BY <1>4 DEF VoiceInv, PageType, HandleJoin
    <3>2. page'[u] = [stage |-> "joining", visit |-> v, listed |-> {},
                         due |-> {}]
      BY <1>4 DEF VoiceInv, PageType, HandleJoin
    <3>3. PageType'
      BY <3>1, <3>2 DEF VoiceInv, PageType
    <3>4. JoinAwaited' /\ SoundIsMember' /\ sound' = sound
      BY <1>4, <3>1, <3>2 DEF VoiceInv, PageType, JoinAwaited, SoundIsMember, Stage, HandleJoin
    <3> QED BY <3>3, <3>4
  <2>2. \A w \in User : Present(w)' => Present(w) /\ page'[w].listed = page[w].listed
    BY <1>4 DEF VoiceInv, PageType, HandleJoin, Present, Stage
  <2> QED BY <2>1, <2>2, ShrinkKeeps
<1>5. CASE JoinAnswer(u)
  <2>1. PageType' /\ JoinAwaited' /\ SoundIsMember' /\ sound' = sound
    BY <1>5, SMTT(30) DEF VoiceInv, PageType, JoinAwaited, SoundIsMember, Stage, JoinAnswer, Enter
  <2>2. \A w \in User : Present(w)' => Present(w) /\ page'[w].listed = page[w].listed
    BY <1>5 DEF VoiceInv, PageType, JoinAnswer, Enter, Present, Stage
  <2> QED BY <2>1, <2>2, ShrinkKeeps
<1>6. CASE MicGranted(u)
  <2>1. PageType' /\ JoinAwaited' /\ SoundIsMember' /\ sound' = sound
    BY <1>6, SMTT(30) DEF VoiceInv, PageType, JoinAwaited, SoundIsMember, Stage, MicGranted, Enter
  <2>2. \A w \in User : Present(w)' => Present(w) /\ page'[w].listed = page[w].listed
    BY <1>6 DEF VoiceInv, PageType, MicGranted, Enter, Present, Stage
  <2> QED BY <2>1, <2>2, ShrinkKeeps
<1>7. CASE Leave(u) /\ (JoinFails(u) \/ GiveUp(u) \/ HandleLeave(u) \/ OnClose(u))
  <2>1. JoinAwaited'
    BY <1>7 DEF VoiceInv, PageType, JoinAwaited, Present, Stage, Leave, Outside, JoinFails, GiveUp,
                HandleLeave, OnClose
  <2>2. members' = members /\ DOMAIN join' = User
    BY <1>7 DEF VoiceInv, PageType, JoinFails, GiveUp, HandleLeave, OnClose
  <2>3. PageType' /\ SoundIsMember' /\ sound' \subseteq sound
    BY <1>7, <2>2, SMTT(30) DEF VoiceInv, PageType, SoundIsMember, Leave, Outside
  <2>4. \A w \in User : Present(w)' => Present(w) /\ page'[w].listed = page[w].listed
    BY <1>7 DEF VoiceInv, PageType, Leave, Outside, Present, Stage
  <2> QED BY <2>1, <2>3, <2>4, ShrinkKeeps
<1> QED
  BY <1>1, <1>2, <1>3, <1>4, <1>5, <1>6, <1>7
  DEF PageStep, JoinFails, GiveUp, HandleLeave, OnClose

(* The sockets and POST /leave only ever take users out of the set.        *)
LEMMA VisitKeeps ==
  ASSUME VoiceInv, NEW v \in Visit, VisitStep(v)
  PROVE  VoiceInv'
<1>1. page' = page /\ SoundIsMember' /\ sound' \subseteq sound /\ members' \subseteq members
  BY DEF VoiceInv, SoundIsMember, VisitStep, LeaveServe, LeaveLost, Accept, Connect, Disconnect,
         DisconnectRemove, DisconnectFails, Stray, NeverOpened, Remove, Pop
<1>2. join' = join \/ join' = Torn
  BY DEF VisitStep, LeaveServe, LeaveLost, Accept, Connect, Disconnect, DisconnectRemove, DisconnectFails, Stray,
         NeverOpened, Remove, Pop
<1>3. PageType' /\ JoinAwaited'
  BY <1>1, <1>2 DEF VoiceInv, PageType, JoinAwaited, Stage, Torn
<1>4. \A w \in User : Present(w)' => Present(w) /\ page'[w].listed = page[w].listed
  BY <1>1 DEF Present, Stage
<1> QED BY <1>1, <1>3, <1>4, ShrinkKeeps

(* Offers change what is due, or take the sender out.                      *)
LEMMA OfferKeeps ==
  ASSUME VoiceInv, NEW u \in User, NEW w \in User, Offer(u, w) \/ SignalRaises(u, w)
  PROVE  VoiceInv'
<1>1. CASE Offer(u, w)
  <2>1. PageType' /\ JoinAwaited' /\ SoundIsMember' /\ sound' = sound
    BY <1>1, SMTT(30) DEF VoiceInv, PageType, JoinAwaited, SoundIsMember, Stage, Offer
  <2>2. \A x \in User : Present(x)' => Present(x) /\ page'[x].listed = page[x].listed
    BY <1>1 DEF VoiceInv, PageType, Offer, Present, Stage
  <2> QED BY <2>1, <2>2, ShrinkKeeps
<1>2. CASE SignalRaises(u, w)
  <2>1. Leave(u) /\ Stage(u) = "in" /\ members' = members /\ (join' = join \/ join' = Torn)
    BY <1>2 DEF SignalRaises, Pop
  <2>2. DOMAIN join' = User /\ \A x \in User : join'[x] # "none" => join[x] # "none"
    BY <2>1 DEF VoiceInv, PageType, Torn
  <2>3. PageType' /\ SoundIsMember' /\ sound' \subseteq sound
    BY <2>1, <2>2, SMTT(30) DEF VoiceInv, PageType, SoundIsMember, Leave, Outside
  <2>4. JoinAwaited'
    BY <2>1, <2>2 DEF VoiceInv, PageType, JoinAwaited, Stage, Leave, Outside
  <2>5. \A x \in User : Present(x)' => Present(x) /\ page'[x].listed = page[x].listed
    BY <2>1 DEF VoiceInv, PageType, Leave, Outside, Present, Stage
  <2> QED BY <2>3, <2>4, <2>5, ShrinkKeeps
<1> QED BY <1>1, <1>2

LEMMA ElapseKeeps ==
  ASSUME VoiceInv, Elapse
  PROVE  VoiceInv'
<1>1. page' = page /\ join' = join /\ sound' = {} /\ members' = {}
  BY DEF Elapse
<1>2. PageType' /\ JoinAwaited' /\ SoundIsMember'
  BY <1>1 DEF VoiceInv, PageType, JoinAwaited, SoundIsMember, Stage
<1> QED BY <1>1, <1>2, ShrinkKeeps DEF Present, Stage

(* A crash takes everyone with a socket out.                               *)
LEMMA DeathKeeps ==
  ASSUME VoiceInv, ServiceDies
  PROVE  VoiceInv'
<1>1. /\ members' = members /\ sound' \subseteq sound
      /\ page' = [u \in User |-> IF Present(u) THEN Outside ELSE page[u]]
      /\ join' = [u \in User |-> IF join[u] \in {"none", "ok", "denied"} THEN join[u] ELSE "failed"]
  BY DEF ServiceDies
<1>2. \A u \in User : page'[u] = Outside \/ (page'[u] = page[u] /\ ~Present(u))
  BY <1>1
<1>3. PageType'
  BY <1>1, <1>2 DEF VoiceInv, PageType, Outside
<1>4. JoinAwaited'
  BY <1>1 DEF VoiceInv, JoinAwaited, Present, Stage
<1>5. SoundIsMember' BY <1>1 DEF VoiceInv, SoundIsMember
<1>6. \A u \in User : ~Present(u)'
  BY <1>2 DEF Present, Stage, Outside
<1> QED BY <1>1, <1>3, <1>4, <1>5, <1>6, ShrinkKeeps

(* For any number of users and of overlapping visits, of two users in the  *)
(* channel at least one lists, and so offers to, the other: both add       *)
(* themselves to the sorted set before they read it.                       *)
THEOREM NewcomerOffers == Spec => []OneOffers
<1>1. ASSUME VoiceInv, [Next]_vars PROVE VoiceInv'
  <2>1. CASE \E u \in User : PageStep(u) \/ JoinStep(u)
    BY <1>1, <2>1, PageKeeps, JoinKeeps
  <2>2. CASE \E v \in Visit : VisitStep(v)
    BY <1>1, <2>2, VisitKeeps
  <2>3. CASE \E u, w \in User : Offer(u, w) \/ SignalRaises(u, w)
    BY <1>1, <2>3, OfferKeeps
  <2>4. CASE Elapse
    BY <1>1, <2>4, ElapseKeeps
  <2>5. CASE ServiceDies
    BY <1>1, <2>5, DeathKeeps
  <2>6. CASE UNCHANGED vars
    BY <1>1, <2>6 DEF vars, VoiceInv, PageType, JoinAwaited, SoundIsMember, OneOffers, Present, Stage
  <2> QED BY <1>1, <2>1, <2>2, <2>3, <2>4, <2>5, <2>6 DEF Next
<1>2. VoiceInv => OneOffers
  BY DEF VoiceInv
<1> QED BY VoiceInit, <1>1, <1>2, PTL DEF Spec

---------------------------------------------------------------------------
(* What the end of a visit leaves behind.                                  *)

(* The sockets, the routes and the leaves are of visits.                   *)
SockType ==
  /\ sock \in [Visit -> {"gone", "opening", "accepted", "open", "popped"}]
  /\ conns \in [User -> Visit \cup {None}] /\ leaving \subseteq Visit

(* A page that is not out has a visit of its own user.                     *)
VisitOfUser ==
  \A u \in User :
    \/ Stage(u) = "out" /\ page[u].visit = None
    \/ Stage(u) # "out" /\ page[u].visit \in Visit /\ Of(page[u].visit) = u

(* The socket of the current visit is not there before the page opens it,  *)
(* and does not end while the page holds it.                               *)
SockFollowsStage ==
  \A u \in User :
    /\ Stage(u) \in {"joining", "mic", "listing"} => sock[page[u].visit] = "gone"
    /\ Stage(u) = "opening" => sock[page[u].visit] \in {"opening", "accepted", "open"}
    /\ Stage(u) = "in" => sock[page[u].visit] \in {"accepted", "open"}

(* Something of u is in progress that ends with u taken out of the set, or *)
(* with the page giving up.                                                *)
Accounted(u) ==
  \/ join[u] \in {"expire", "cast", "torn", "ok", "failed"}
  \/ Stage(u) \in {"mic", "listing", "opening", "in"}
  \/ \E v \in Visit : Of(v) = u /\ (v \in leaving \/ sock[v] # "gone")

MembersAccounted == \A u \in members : u \in strayed \/ Accounted(u)

(* The inductive invariant of the sockets.                                 *)
SocketInv == SockType /\ VisitOfUser /\ SockFollowsStage /\ MembersAccounted

LEMMA SocketInit == Init => SocketInv
  BY VoiceAssumption
  DEF Init, Outside, SocketInv, SockType, VisitOfUser, SockFollowsStage, MembersAccounted,
      Stage

(* POST /join touches neither sockets nor pages, and whom it adds it has   *)
(* in hand until it is answered.                                           *)
LEMMA JoinKeepsSockets ==
  ASSUME VoiceInv, SocketInv, NEW u \in User, JoinStep(u)
  PROVE  SocketInv'
<1>1. /\ page' = page /\ sock' = sock /\ conns' = conns /\ leaving' = leaving
      /\ strayed' = strayed /\ members' \subseteq members \cup {u}
  BY DEF JoinStep, JoinPerm, JoinAdd, JoinExpire, JoinCast
<1>2. SockType' /\ VisitOfUser' /\ SockFollowsStage'
  BY <1>1 DEF SocketInv, SockType, VisitOfUser, SockFollowsStage, Stage
<1>3. /\ \A w \in User : w # u => join'[w] = join[w]
      /\ JoinAdd(u) => join'[u] = "expire"
      /\ ~JoinAdd(u) => members' = members
      /\ join[u] \in {"expire", "cast", "torn", "ok", "failed"} =>
           join'[u] \in {"expire", "cast", "torn", "ok", "failed"}
  BY DEF VoiceInv, PageType, JoinStep, JoinPerm, JoinAdd, JoinExpire, JoinCast
<1>4. MembersAccounted'
  BY <1>1, <1>3 DEF VoiceInv, PageType, SocketInv, MembersAccounted, Accounted, Stage
<1> QED BY <1>2, <1>4 DEF SocketInv

(* The steps of a visit's socket and of its POST /leave.                   *)
LEMMA VisitKeepsSockets ==
  ASSUME VoiceInv, SocketInv, NEW v \in Visit, VisitStep(v)
  PROVE  SocketInv'
<1> DEFINE u == Of(v)
<1>1. u \in User
  BY VoiceAssumption DEF Of
<1>2. /\ page' = page
      /\ \A w \in User : join'[w] = join[w] \/ (join[w] = "cast" /\ join'[w] = "torn")
  BY DEF VoiceInv, PageType, VisitStep, LeaveServe, LeaveLost, Accept, Connect, Disconnect,
         DisconnectRemove, DisconnectFails, Stray, NeverOpened, Remove, Pop, Torn
<1>3. SockType'
  BY <1>1 DEF SocketInv, SockType, VisitStep, LeaveServe, LeaveLost, Accept, Connect, Disconnect,
         DisconnectRemove, DisconnectFails, Stray, NeverOpened, Remove, Pop, Of
<1>4. /\ \A x \in Visit : x # v => sock'[x] = sock[x]
      /\ \A x \in User : x # u => conns'[x] = conns[x]
  BY <1>1 DEF SocketInv, SockType, VisitStep, LeaveServe, LeaveLost, Accept, Connect, Disconnect,
         DisconnectRemove, DisconnectFails, Stray, NeverOpened, Remove, Pop, Of
<1>5. VisitOfUser'
  BY <1>2 DEF SocketInv, VisitOfUser, Stage
<1>6. SockFollowsStage'
  <2>1. page[u].visit = v => sock[v] \in {"opening", "accepted", "open", "gone"}
    <3>1. Stage(u) \in {"out", "joining", "mic", "listing", "opening", "in"}
      BY <1>1 DEF VoiceInv, PageType, Stage
    <3> QED BY <1>1, <3>1, VoiceAssumption DEF SocketInv, VisitOfUser, SockFollowsStage
  <2>2. page[u].visit = v =>
          sock'[v] = sock[v] \/ (sock[v] = "opening" /\ sock'[v] = "accepted")
                             \/ (sock[v] = "accepted" /\ sock'[v] = "open")
    BY <2>1 DEF SocketInv, SockType, VisitStep, LeaveServe, LeaveLost, Accept, Connect, Disconnect,
         DisconnectRemove, DisconnectFails, Stray, NeverOpened, Closed
  <2>3. \A w \in User : page[w].visit = v => w = u
    BY VoiceAssumption DEF SocketInv, VisitOfUser
  <2> QED
    BY <1>1, <1>2, <1>4, <2>2, <2>3
    DEF SocketInv, SockFollowsStage, VisitOfUser, VoiceInv, PageType, Stage
<1>7. MembersAccounted'
  <2>1. SUFFICES ASSUME NEW w \in members', w \notin strayed' PROVE Accounted(w)'
    BY DEF MembersAccounted
  <2>2. w \in User /\ w \in members
    BY <2>1 DEF VoiceInv, PageType, VisitStep, LeaveServe, LeaveLost, Accept, Connect, Disconnect,
       DisconnectRemove, DisconnectFails, Stray, NeverOpened, Remove
  <2>3. CASE w # u
    <3>1. strayed' \cup {u} = strayed \cup {u} /\ leaving' \cup {v} = leaving \cup {v}
      BY DEF VisitStep, LeaveServe, LeaveLost, Accept, Connect, Disconnect, DisconnectRemove, DisconnectFails, Stray,
             NeverOpened, Remove
    <3>2. Accounted(w)
      BY <2>1, <2>2, <2>3, <3>1 DEF SocketInv, MembersAccounted
    <3> QED BY <1>2, <1>4, <2>2, <2>3, <3>1, <3>2 DEF Accounted, Stage
  <2>4. CASE w = u
    <3>1. CASE LeaveServe(v) \/ DisconnectRemove(v)
      BY <2>1, <2>4, <3>1 DEF LeaveServe, DisconnectRemove, Remove
    <3>2. CASE LeaveLost(v)
      <4>1. sock[v] # "gone" /\ sock' = sock
        BY <2>1, <2>2, <2>4, <3>2 DEF LeaveLost, Stray
      <4> QED BY <2>4, <4>1 DEF Accounted
    <3>3. CASE DisconnectFails(v) \/ NeverOpened(v)
      <4>1. v \in leaving /\ leaving' = leaving
        BY <2>1, <2>2, <2>4, <3>3 DEF DisconnectFails, NeverOpened, Stray
      <4> QED BY <2>4, <4>1 DEF Accounted
    <3>4. CASE Accept(v) \/ Connect(v) \/ Disconnect(v)
      <4>1. sock'[v] # "gone"
        BY <3>4 DEF Accept, Connect, Disconnect, SocketInv, SockType
      <4> QED BY <2>4, <4>1 DEF Accounted
    <3> QED BY <3>1, <3>2, <3>3, <3>4 DEF VisitStep
  <2> QED BY <2>3, <2>4
<1> QED BY <1>3, <1>5, <1>6, <1>7 DEF SocketInv

(* What a page that leaves, and with it the user, changes for the others.  *)
LEMMA LeaveFacts ==
  ASSUME VoiceInv, NEW u \in User, Leave(u)
  PROVE  /\ Stage(u)' = "out" /\ page'[u].visit = None
         /\ \A w \in User \ {u} : page'[w] = page[w]
  BY DEF VoiceInv, PageType, Leave, Outside, Stage

(* A page that leaves keeps the invariant, if its user is accounted for.   *)
LEMMA LeaveKeepsSockets ==
  ASSUME VoiceInv, SocketInv, NEW u \in User, Leave(u), SockType', members' = members,
         strayed \subseteq strayed', leaving \subseteq leaving',
         \A x \in Visit : Of(x) # u => sock'[x] = sock[x],
         \A w \in User \ {u} : conns'[w] = conns[w],
         \A w \in User \ {u} : join'[w] = join[w] \/ (join[w] = "cast" /\ join'[w] = "torn"),
         u \in members => u \in strayed' \/ Accounted(u)'
  PROVE  SocketInv'
<1>1. /\ Stage(u)' = "out" /\ page'[u].visit = None
      /\ \A w \in User \ {u} : page'[w] = page[w]
  BY LeaveFacts
<1>2. VisitOfUser'
  BY <1>1 DEF SocketInv, VisitOfUser, Stage
<1>3. SockFollowsStage'
  BY <1>1 DEF SocketInv, VisitOfUser, SockFollowsStage, Stage
<1>4. MembersAccounted'
  <2>1. SUFFICES ASSUME NEW w \in members, w # u, w \notin strayed' PROVE Accounted(w)'
    BY DEF MembersAccounted
  <2>2. w \in User /\ Accounted(w)
    BY <2>1 DEF VoiceInv, PageType, SocketInv, MembersAccounted
  <2> QED BY <1>1, <2>1, <2>2 DEF Accounted, Stage
<1> QED BY <1>2, <1>3, <1>4 DEF SocketInv

(* A page that goes from one stage to the next, its socket unchanged.      *)
LEMMA StageKeepsSockets ==
  ASSUME VoiceInv, SocketInv, NEW u \in User,
         UNCHANGED <<leaving, sock, conns, members, strayed>>,
         \A w \in User \ {u} : page'[w] = page[w] /\ join'[w] = join[w],
         VisitOfUser', Present(u)' => Present(u) /\ page'[u].visit = page[u].visit,
         Stage(u)' \in {"joining", "mic", "listing"} => sock[page'[u].visit] = "gone",
         Stage(u)' = "in" => sock[page'[u].visit] \in {"accepted", "open"},
         Accounted(u) => Accounted(u)'
  PROVE  SocketInv'
<1>1. SockType'
  BY DEF SocketInv, SockType
<1>2. SockFollowsStage'
  BY DEF SocketInv, SockFollowsStage, Present, Stage
<1>3. MembersAccounted'
  BY DEF VoiceInv, PageType, SocketInv, MembersAccounted, Accounted, Stage
<1> QED BY <1>1, <1>2, <1>3 DEF SocketInv

(* new WebSocket: the socket of the visit was not there before.            *)
LEMMA OpenKeepsSockets ==
  ASSUME VoiceInv, SocketInv, NEW u \in User, NEW list, Stage(u) = "listing", OpenSocket(u, list)
  PROVE  SocketInv'
<1> DEFINE v == page[u].visit
<1>1. v \in Visit /\ Of(v) = u /\ sock[v] = "gone"
  BY DEF SocketInv, VisitOfUser, SockFollowsStage
<1>2. /\ \A w \in User \ {u} : page'[w] = page[w]
      /\ page'[u].visit = v /\ Stage(u)' = "opening"
  BY DEF VoiceInv, PageType, OpenSocket, Stage
<1>3. /\ UNCHANGED <<join, leaving, conns, members, strayed>>
      /\ sock' = [sock EXCEPT ![v] = "opening"]
  BY DEF OpenSocket
<1>4. SockType' /\ sock'[v] = "opening" /\ \A x \in Visit : x # v => sock'[x] = sock[x]
  BY <1>1, <1>3 DEF SocketInv, SockType
<1>5. VisitOfUser'
  BY <1>1, <1>2 DEF SocketInv, VisitOfUser, Stage
<1>6. \A w \in User \ {u} : page[w].visit # v
  BY <1>1, VoiceAssumption DEF SocketInv, VisitOfUser
<1>7. SockFollowsStage'
  BY <1>2, <1>4, <1>6 DEF SocketInv, VisitOfUser, SockFollowsStage, Stage
<1>8. MembersAccounted'
  <2>1. SUFFICES ASSUME NEW w \in members, w \notin strayed PROVE Accounted(w)'
    BY <1>3 DEF MembersAccounted
  <2>2. w \in User /\ Accounted(w)
    BY <2>1 DEF VoiceInv, PageType, SocketInv, MembersAccounted
  <2>3. CASE w = u BY <1>2, <2>3 DEF Accounted
  <2>4. CASE w # u BY <1>1, <1>2, <1>3, <1>4, <2>2, <2>4 DEF Accounted, Stage
  <2> QED BY <2>3, <2>4
<1> QED BY <1>4, <1>5, <1>7, <1>8 DEF SocketInv

(* The steps of a page.                                                    *)
LEMMA PageKeepsSockets ==
  ASSUME VoiceInv, SocketInv, NEW u \in User, PageStep(u)
  PROVE  SocketInv'
<1> DEFINE c == page[u].visit
<1>1. ASSUME NEW v \in Visit, HandleJoin(u, v) PROVE SocketInv'
  <2>1. /\ \A w \in User \ {u} : page'[w] = page[w] /\ join'[w] = join[w]
        /\ page'[u].visit = v /\ Stage(u)' = "joining"
    BY <1>1 DEF VoiceInv, PageType, HandleJoin, Stage
  <2>2. VisitOfUser'
    BY <1>1, <2>1 DEF SocketInv, VisitOfUser, HandleJoin, Stage
  <2>3. UNCHANGED <<leaving, sock, conns, members, strayed>> /\ sock[v] = "gone"
    BY <1>1 DEF HandleJoin
  <2>4. Accounted(u) => Accounted(u)'
    BY <1>1, <2>3 DEF HandleJoin, Accounted, VoiceInv, JoinAwaited
  <2> QED BY <2>1, <2>2, <2>3, <2>4, StageKeepsSockets DEF Present
<1>2. CASE JoinAnswer(u)
  <2>1. /\ \A w \in User \ {u} : page'[w] = page[w] /\ join'[w] = join[w]
        /\ page'[u].visit = c /\ Stage(u)' = "mic" /\ Stage(u) = "joining"
    BY <1>2 DEF VoiceInv, PageType, JoinAwaited, JoinAnswer, Enter, Stage
  <2>2. VisitOfUser' /\ sock[c] = "gone"
    BY <2>1 DEF SocketInv, VisitOfUser, SockFollowsStage, Stage
  <2>3. UNCHANGED <<leaving, sock, conns, members, strayed>>
    BY <1>2 DEF JoinAnswer
  <2>4. Accounted(u)'
    BY <2>1 DEF Accounted
  <2> QED BY <2>1, <2>2, <2>3, <2>4, StageKeepsSockets DEF Present
<1>3. CASE MicGranted(u)
  <2>1. /\ \A w \in User \ {u} : page'[w] = page[w] /\ join'[w] = join[w]
        /\ page'[u].visit = c /\ Stage(u)' = "listing" /\ Stage(u) = "mic"
    BY <1>3 DEF VoiceInv, PageType, MicGranted, Enter, Stage
  <2>2. VisitOfUser' /\ sock[c] = "gone"
    BY <2>1 DEF SocketInv, VisitOfUser, SockFollowsStage, Stage
  <2>3. UNCHANGED <<leaving, sock, conns, members, strayed>>
    BY <1>3 DEF MicGranted
  <2>4. Accounted(u)'
    BY <2>1 DEF Accounted
  <2> QED BY <2>1, <2>2, <2>3, <2>4, StageKeepsSockets DEF Present
<1>4. CASE OnOpen(u)
  <2>1. /\ \A w \in User \ {u} : page'[w] = page[w] /\ join'[w] = join[w]
        /\ page'[u].visit = c /\ Stage(u)' = "in" /\ Stage(u) = "opening"
    BY <1>4 DEF VoiceInv, PageType, OnOpen, Stage
  <2>2. VisitOfUser'
    BY <2>1 DEF SocketInv, VisitOfUser, Stage
  <2>3. /\ UNCHANGED <<leaving, sock, conns, members, strayed>>
        /\ sock[c] \in {"accepted", "open"}
    BY <1>4 DEF OnOpen
  <2>4. Accounted(u)'
    BY <2>1 DEF Accounted
  <2> QED BY <2>1, <2>2, <2>3, <2>4, StageKeepsSockets DEF Present
<1>5. CASE ListAnswer(u) \/ ListFails(u)
  BY <1>5, OpenKeepsSockets DEF ListAnswer, ListFails
<1>6. CASE JoinFails(u)
  <2>1. /\ Leave(u) /\ UNCHANGED <<sock, conns, members, leaving>> /\ Stage(u) = "joining"
        /\ strayed \subseteq strayed' /\ \A w \in User \ {u} : join'[w] = join[w]
        /\ join[u] = "denied" \/ u \notin members \/ u \in strayed'
    BY <1>6 DEF VoiceInv, PageType, JoinAwaited, JoinFails, Stray
  <2>2. SockType'
    BY <2>1 DEF SocketInv, SockType
  <2>3. u \in members => u \in strayed' \/ Accounted(u)'
    BY <2>1 DEF SocketInv, MembersAccounted, Accounted
  <2> QED BY <2>1, <2>2, <2>3, LeaveKeepsSockets
<1>7. CASE GiveUp(u)
  <2>1. /\ Leave(u) /\ UNCHANGED <<sock, conns, members, leaving, join>>
        /\ u \in members => u \in strayed'
        /\ strayed \subseteq strayed'
    BY <1>7 DEF GiveUp, Stray
  <2>2. SockType'
    BY <2>1 DEF SocketInv, SockType
  <2> QED BY <2>1, <2>2, LeaveKeepsSockets
<1>8. CASE HandleLeave(u)
  <2>1. /\ Leave(u) /\ UNCHANGED <<sock, conns, members, strayed, join>>
        /\ leaving' = leaving \cup {c} /\ c \in Visit /\ Of(c) = u
    BY <1>8 DEF HandleLeave, Present, SocketInv, VisitOfUser
  <2>2. SockType'
    BY <2>1 DEF SocketInv, SockType
  <2>3. Accounted(u)'
    BY <2>1 DEF Accounted
  <2> QED BY <2>1, <2>2, <2>3, LeaveKeepsSockets
<1>9. CASE OnClose(u)
  <2>1. /\ Leave(u) /\ UNCHANGED <<sock, conns, members, leaving, join>>
        /\ strayed \subseteq strayed' /\ c \in Visit /\ Of(c) = u /\ sock[c] # "gone"
    BY <1>9 DEF OnClose, Present, SocketInv, VisitOfUser, SockFollowsStage
  <2>2. SockType'
    BY <2>1 DEF SocketInv, SockType
  <2>3. Accounted(u)'
    BY <2>1 DEF Accounted
  <2> QED BY <2>1, <2>2, <2>3, LeaveKeepsSockets
<1> QED BY <1>1, <1>2, <1>3, <1>4, <1>5, <1>6, <1>7, <1>8, <1>9 DEF PageStep

(* Offers, and the errors in the sender's task that end its socket.        *)
LEMMA OfferKeepsSockets ==
  ASSUME VoiceInv, SocketInv, NEW u \in User, NEW w \in User, Offer(u, w) \/ SignalRaises(u, w)
  PROVE  SocketInv'
<1> DEFINE c == page[u].visit
<1>1. CASE Offer(u, w)
  <2>1. /\ \A x \in User \ {u} : page'[x] = page[x] /\ join'[x] = join[x]
        /\ page'[u].visit = c /\ Stage(u)' = "in" /\ Stage(u) = "in"
    BY <1>1 DEF VoiceInv, PageType, Offer, Stage
  <2>2. VisitOfUser' /\ sock[c] \in {"accepted", "open"}
    BY <2>1 DEF SocketInv, VisitOfUser, SockFollowsStage, Stage
  <2>3. UNCHANGED <<leaving, sock, conns, members, strayed>>
    BY <1>1 DEF Offer
  <2>4. Accounted(u)'
    BY <2>1 DEF Accounted
  <2> QED BY <2>1, <2>2, <2>3, <2>4, StageKeepsSockets DEF Present
<1>2. CASE SignalRaises(u, w)
  <2>1. c \in Visit /\ Of(c) = u /\ sock[c] = "open"
    BY <1>2 DEF SignalRaises, SocketInv, VisitOfUser
  <2>2. Leave(u) /\ UNCHANGED <<leaving, members>> /\ strayed \subseteq strayed'
    BY <1>2 DEF SignalRaises, Stray
  <2>3. /\ \A x \in User : join'[x] = join[x] \/ (join[x] = "cast" /\ join'[x] = "torn")
        /\ \A x \in User \ {u} : conns'[x] = conns[x]
        /\ \A x \in Visit : Of(x) # u => sock'[x] = sock[x]
        /\ SockType' /\ (u \notin members \/ u \in strayed' \/ sock'[c] = "popped")
    BY <1>2, <2>1, <2>2 DEF SignalRaises, Stray, Pop, Torn, SocketInv, SockType, VoiceInv, PageType
  <2>4. u \in members => u \in strayed' \/ Accounted(u)'
    BY <2>1, <2>3 DEF Accounted
  <2> QED BY <2>2, <2>3, <2>4, LeaveKeepsSockets
<1> QED BY <1>1, <1>2

(* A crash leaves no socket, and everyone listed astray.                   *)
LEMMA DeathKeepsSockets ==
  ASSUME VoiceInv, SocketInv, ServiceDies
  PROVE  SocketInv'
<1>1. /\ sock' = [v \in Visit |-> "gone"] /\ conns' = [u \in User |-> None] /\ leaving' = {}
      /\ members' = members /\ strayed' = members
      /\ page' = [u \in User |-> IF Present(u) THEN Outside ELSE page[u]]
  BY DEF ServiceDies
<1>2. SockType' /\ MembersAccounted'
  BY <1>1 DEF SockType, MembersAccounted
<1>3. \A u \in User : page'[u] = Outside \/ (page'[u] = page[u] /\ ~Present(u))
  BY <1>1
<1>4. VisitOfUser'
  BY <1>3 DEF SocketInv, VisitOfUser, Stage, Outside
<1>5. SockFollowsStage'
  BY <1>1, <1>3, <1>4 DEF SockFollowsStage, VisitOfUser, Present, Stage, Outside
<1> QED BY <1>2, <1>4, <1>5 DEF SocketInv

(* Both invariants hold always.                                            *)
LEMMA VoiceAlways == Spec => [](VoiceInv /\ SocketInv)
<1> DEFINE Inv == VoiceInv /\ SocketInv
<1>1. Init => Inv
  BY VoiceInit, SocketInit
<1>2. ASSUME Inv, [Next]_vars PROVE Inv'
  <2>1. CASE \E u \in User : PageStep(u) \/ JoinStep(u)
    BY <1>2, <2>1, PageKeeps, JoinKeeps, PageKeepsSockets, JoinKeepsSockets
  <2>2. CASE \E v \in Visit : VisitStep(v)
    BY <1>2, <2>2, VisitKeeps, VisitKeepsSockets
  <2>3. CASE \E u, w \in User : Offer(u, w) \/ SignalRaises(u, w)
    BY <1>2, <2>3, OfferKeeps, OfferKeepsSockets
  <2>4. CASE Elapse
    <3>1. SocketInv'
      BY <1>2, <2>4 DEF Elapse, SocketInv, SockType, VisitOfUser, SockFollowsStage, MembersAccounted,
         Stage
    <3> QED BY <1>2, <2>4, <3>1, ElapseKeeps
  <2>5. CASE ServiceDies
    BY <1>2, <2>5, DeathKeeps, DeathKeepsSockets
  <2>6. CASE UNCHANGED vars
    BY <1>2, <2>6 DEF vars, VoiceInv, PageType, JoinAwaited, SoundIsMember, OneOffers, Present, Stage,
       SocketInv, SockType, VisitOfUser, SockFollowsStage, MembersAccounted, Accounted
  <2> QED BY <1>2, <2>1, <2>2, <2>3, <2>4, <2>5, <2>6 DEF Next
<1> QED BY <1>1, <1>2, PTL DEF Spec

(* For any number of users and of overlapping visits: once all of a user's *)
(* visits are over the user is no participant, whichever of /leave and the *)
(* end of the socket came first, also when one of them was lost or failed, *)
(* unless both were, the page gave up without a socket, or the service     *)
(* died.                                                                   *)
THEOREM VisitsEndClean == Spec => []LeftMeansGone
<1>1. VoiceInv /\ SocketInv => LeftMeansGone
  BY DEF VoiceInv, PageType, SocketInv, MembersAccounted, LeftMeansGone, Quiet, Accounted
<1> QED BY VoiceAlways, <1>1, PTL
=============================================================================

----------------------------- MODULE ChannelView -----------------------------
(***************************************************************************)
(* The chat view of the web app for one open channel (ChannelView.tsx and  *)
(* MessageList.tsx) with what feeds it: the history it fetches, the        *)
(* answers to its own POSTs, and the new_message events that the chat      *)
(* service fans out through presence, the gateway and the WebSocket.       *)
(*                                                                         *)
(* fetched is MessageList's messages, extras ChannelView's extraMessages;  *)
(* the user sees allMessages.  The fan-out of each message is a task of    *)
(* its own: it asks presence who is subscribed and then pushes.            *)
(***************************************************************************)
EXTENDS MessagePage, OrderedLists

CONSTANTS
  MaxMsg,   \* bound: messages ever stored
  Limit,    \* the page size
  Faults,   \* may answers, pushes and the socket be lost?
  Temp,     \* the opt-... id of the placeholder of a message being sent
  None

ASSUME ViewAssumption ==
  MaxMsg \in Nat /\ Limit \in Nat \ {0} /\ Faults \in BOOLEAN /\ Temp \notin 1..MaxMsg

VARIABLES
  stored, deleted,  \* the channel in Cassandra
  own,      \* messages this user sent
  fan,      \* message -> where its fan-out task is
  conn,     \* the page's WebSocket
  fetched,  \* messages (oldest first)
  hasMore,
  load,     \* the GET of history in progress
  extras,   \* extraMessages
  post,     \* the POST in progress (MessageInput allows one at a time)
  del,      \* message -> where its DELETE is
  heard,    \* history: messages the view was told of by a 201 or an event
  erased    \* history: messages whose DELETE was answered with 204

serverVars == <<stored, deleted, own>>
listVars == <<fetched, hasMore, load>>
vars == <<serverVars, fan, conn, listVars, extras, post, del, heard, erased>>

Message == 1..MaxMsg
Top == MaxMsg + 1

Idle == [pc |-> "idle", before |-> Top, page |-> None]

Init ==
  /\ stored = {} /\ deleted = {} /\ own = {}
  /\ fan = [m \in Message |-> "none"]
  /\ conn = "down"
  /\ fetched = <<>> /\ hasMore = FALSE
  /\ load = [Idle EXCEPT !.pc = "first"]
  /\ extras = <<>>
  /\ post = [pc |-> "idle", id |-> None]
  /\ del = [m \in Message |-> "none"]
  /\ heard = {} /\ erased = {}

-----------------------------------------------------------------------------
allMessages == fetched \o Without(extras, Range(fetched))
Shown == Range(allMessages)

(* create_message stores the next message and spawns its fan-out.          *)
Create(m) ==
  /\ m = Cardinality(stored) + 1 /\ m \in Message
  /\ stored' = stored \cup {m}
  /\ fan' = [fan EXCEPT ![m] = "pending"]
  /\ UNCHANGED deleted

(* Someone else sends a message.                                           *)
OtherSends(m) ==
  /\ Create(m)
  /\ UNCHANGED <<own, conn, listVars, extras, post, del, heard, erased>>

(* handleSend: the placeholder is shown and the POST sent.                 *)
Send ==
  /\ post.pc = "idle"
  /\ extras' = Append(extras, Temp)
  /\ post' = [pc |-> "sent", id |-> None]
  /\ UNCHANGED <<serverVars, fan, conn, listVars, del, heard, erased>>

PostCreate(m) ==
  /\ post.pc = "sent"
  /\ Create(m)
  /\ own' = own \cup {m}
  /\ post' = [pc |-> "created", id |-> m]
  /\ UNCHANGED <<conn, listVars, extras, del, heard, erased>>

(* The POST is refused, or its answer is lost after the message is stored. *)
PostFails ==
  /\ Faults
  /\ post.pc \in {"sent", "created"}
  /\ post' = [post EXCEPT !.pc = "failed"]
  /\ UNCHANGED <<serverVars, fan, conn, listVars, extras, del, heard, erased>>

(* Mutant: the placeholder is swapped even if the event came first.        *)
PostAnswerSwaps ==
  /\ post.pc = "created"
  /\ extras' = [i \in DOMAIN extras |-> IF extras[i] = Temp THEN post.id ELSE extras[i]]
  /\ post' = [pc |-> "idle", id |-> None]
  /\ heard' = heard \cup {post.id}
  /\ UNCHANGED <<serverVars, fan, conn, listVars, del, erased>>

(* Mutant: the placeholder is dropped; the event is relied upon.           *)
PostAnswerDrops ==
  /\ post.pc = "created"
  /\ extras' = Without(extras, {Temp})
  /\ post' = [pc |-> "idle", id |-> None]
  /\ heard' = heard \cup {post.id}
  /\ UNCHANGED <<serverVars, fan, conn, listVars, del, erased>>

(* 201: the placeholder is dropped if the event came first, else swapped.  *)
PostAnswer ==
  /\ post.pc = "created"
  /\ extras' = IF post.id \in Range(extras)
                 THEN Without(extras, {Temp})
                 ELSE [i \in DOMAIN extras |-> IF extras[i] = Temp THEN post.id ELSE extras[i]]
  /\ post' = [pc |-> "idle", id |-> None]
  /\ heard' = heard \cup {post.id}
  /\ UNCHANGED <<serverVars, fan, conn, listVars, del, erased>>

PostError ==
  /\ post.pc = "failed"
  /\ extras' = Without(extras, {Temp})
  /\ post' = [pc |-> "idle", id |-> None]
  /\ UNCHANGED <<serverVars, fan, conn, listVars, del, heard, erased>>

-----------------------------------------------------------------------------
(* fanout_new_message: the sessions of the channel are looked up; with an  *)
(* error, or without this page among them, the page hears nothing.         *)
FanoutQuery(m) ==
  /\ fan[m] = "pending"
  /\ \/ fan' = [fan EXCEPT ![m] = IF conn = "subscribed" THEN "pushed" ELSE "missed"]
     \/ Faults /\ fan' = [fan EXCEPT ![m] = "missed"]
  /\ UNCHANGED <<serverVars, conn, listVars, extras, post, del, heard, erased>>

(* Mutant: the event is taken for one of another channel.                  *)
FanoutDeliverIgnored(m) ==
  /\ fan[m] = "pushed"
  /\ fan' = [fan EXCEPT ![m] = "over"]
  /\ UNCHANGED <<serverVars, conn, listVars, extras, post, del, heard, erased>>

(* The push reaches the socket (deliverLocal) and its onmessage handler.   *)
FanoutDeliver(m) ==
  /\ fan[m] = "pushed"
  /\ fan' = [fan EXCEPT ![m] = "over"]
  /\ extras' = IF m \in Range(extras) THEN extras ELSE Append(extras, m)
  /\ heard' = heard \cup {m}
  /\ UNCHANGED <<serverVars, conn, listVars, post, del, erased>>

(* The push, or its copy for this gateway replica, is lost.                *)
FanoutLost(m) ==
  /\ Faults
  /\ fan[m] = "pushed"
  /\ fan' = [fan EXCEPT ![m] = "missed"]
  /\ UNCHANGED <<serverVars, conn, listVars, extras, post, del, heard, erased>>

(* connectWs, now or after the backoff; onopen sends channel.subscribe.    *)
WsOpen ==
  /\ conn = "down"
  /\ conn' = "open"
  /\ UNCHANGED <<serverVars, fan, listVars, extras, post, del, heard, erased>>

(* The gateway has registered the subscription.                            *)
WsSubscribed ==
  /\ conn = "open"
  /\ conn' = "subscribed"
  /\ UNCHANGED <<serverVars, fan, listVars, extras, post, del, heard, erased>>

(* The socket closes; what was pushed to it is lost.                       *)
WsClose ==
  /\ Faults
  /\ conn # "down"
  /\ conn' = "down"
  /\ fan' = [m \in Message |-> IF fan[m] = "pushed" THEN "missed" ELSE fan[m]]
  /\ UNCHANGED <<serverVars, listVars, extras, post, del, heard, erased>>

-----------------------------------------------------------------------------
(* fetchMessages: the chat service reads the page.                         *)
FetchRead ==
  /\ load.pc # "idle" /\ load.page = None
  /\ load' = [load EXCEPT !.page = ListPage(stored, deleted, load.before, Limit)]
  /\ UNCHANGED <<serverVars, fan, conn, fetched, hasMore, extras, post, del, heard, erased>>

(* The page arrives: newest first, so it is reversed; the first replaces   *)
(* the list, later ones go in front of it.                                 *)
FetchArrive ==
  /\ load.pc # "idle" /\ load.page # None
  /\ LET older == Ascending(load.page.msgs)
     IN fetched' = IF load.pc = "first" THEN older ELSE older \o fetched
  /\ hasMore' = load.page.more
  /\ load' = Idle
  /\ UNCHANGED <<serverVars, fan, conn, extras, post, del, heard, erased>>

FetchFail ==
  /\ Faults
  /\ load.pc # "idle"
  /\ load' = Idle
  /\ UNCHANGED <<serverVars, fan, conn, fetched, hasMore, extras, post, del, heard, erased>>

(* The top of the list is scrolled into view.                              *)
LoadMore ==
  /\ hasMore /\ load.pc = "idle" /\ fetched # <<>>
  /\ load' = [pc |-> "more", before |-> fetched[1], page |-> None]
  /\ UNCHANGED <<serverVars, fan, conn, fetched, hasMore, extras, post, del, heard, erased>>

-----------------------------------------------------------------------------
(* handleDelete, for an own message on the screen.                         *)
Delete(m) ==
  /\ m \in own \cap Shown /\ del[m] = "none"
  /\ del' = [del EXCEPT ![m] = "sent"]
  /\ UNCHANGED <<serverVars, fan, conn, listVars, extras, post, heard, erased>>

(* delete_message marks the row; a row already deleted is a 404, which     *)
(* changes nothing on the screen.                                          *)
DeleteServe(m) ==
  /\ del[m] = "sent"
  /\ deleted' = deleted \cup {m}
  /\ del' = [del EXCEPT ![m] = IF m \in deleted THEN "none" ELSE "done"]
  /\ UNCHANGED <<stored, own, fan, conn, listVars, extras, post, heard, erased>>

(* The request or its answer is lost.                                      *)
DeleteFail(m) ==
  /\ Faults
  /\ del[m] # "none"
  /\ del' = [del EXCEPT ![m] = "none"]
  /\ UNCHANGED <<serverVars, fan, conn, listVars, extras, post, heard, erased>>

(* 204: the message is taken out of messages.                              *)
DeleteAnswer(m) ==
  /\ del[m] = "done"
  /\ del' = [del EXCEPT ![m] = "none"]
  /\ fetched' = Without(fetched, {m})
  /\ erased' = erased \cup {m}
  /\ UNCHANGED <<serverVars, fan, conn, hasMore, load, extras, post, heard>>

-----------------------------------------------------------------------------
Next ==
  \/ Send \/ PostFails \/ PostAnswer \/ PostError
  \/ WsOpen \/ WsSubscribed \/ WsClose
  \/ FetchRead \/ FetchArrive \/ FetchFail \/ LoadMore
  \/ \E m \in Message :
       \/ OtherSends(m) \/ PostCreate(m)
       \/ FanoutQuery(m) \/ FanoutDeliver(m) \/ FanoutLost(m)
       \/ Delete(m) \/ DeleteServe(m) \/ DeleteFail(m) \/ DeleteAnswer(m)

Spec == Init /\ [][Next]_vars

(* Fan-out tasks run and pushes arrive; nobody has to send or scroll.      *)
FairSpec ==
  Spec /\ \A m \in Message : WF_vars(FanoutQuery(m)) /\ WF_vars(FanoutDeliver(m))

-----------------------------------------------------------------------------
(* No message is listed twice, in whatever order the history, the answer   *)
(* to the POST and the event of the same message arrive.  (The comments in *)
(* handleSend and the merge in MessageList are about this.)                *)
NoDuplicates ==
  \A i, j \in DOMAIN allMessages : allMessages[i] = allMessages[j] => i = j

(* A message the view was told of, by an event or a 201, stays on the      *)
(* screen until its deletion is confirmed: no answer that arrives late, a  *)
(* history page read before the message existed included, removes it.      *)
HeardStaysVisible == heard \ erased \subseteq Shown

(* A message stored while the page is subscribed appears on the screen,    *)
(* unless it is deleted or its push is lost on the way (a failed call, a   *)
(* gateway that is gone, a socket that closed).                            *)
LiveMessageShown ==
  \A m \in Message :
    (fan[m] = "pending" /\ conn = "subscribed")
      ~> (m \in Shown \/ m \in deleted \/ fan[m] = "missed")
=============================================================================

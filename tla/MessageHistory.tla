--------------------------- MODULE MessageHistory ---------------------------
(***************************************************************************)
(* The message history of one channel (chat service, handlers/messages.rs):*)
(* create_message, delete_message and list_messages with its cache-aside   *)
(* Redis cache, and a client that walks the history page by page.          *)
(*                                                                         *)
(* Replicas handle requests concurrently; a message gets its id before its *)
(* row is inserted.  The permission checks only end requests early, so the *)
(* requests modelled are the ones that were allowed.                       *)
(***************************************************************************)
EXTENDS MessagePage

CONSTANTS
  MaxMsg,   \* bound: messages ever created
  Limit,    \* the page size every reader asks for
  Req,      \* slots for concurrent GET requests
  CacheOn,  \* CHAT_CACHE_ENABLED
  None

ASSUME HistoryAssumption ==
  MaxMsg \in Nat \ {0} /\ Limit \in Nat \ {0} /\ CacheOn \in BOOLEAN

VARIABLES
  ids,      \* message ids handed out so far
  stored,   \* messages whose row is in Cassandra
  deleted,  \* messages whose row has deleted_at
  cache,    \* cursor -> the cached answer, or None
  req,      \* slot -> the GET in progress
  walk      \* a client's walk: the pages it has put together

vars == <<ids, stored, deleted, cache, req, walk>>

Message == 1..MaxMsg
Top == MaxMsg + 1          \* no "before" parameter
Cursor == 2..Top           \* nothing comes before message 1

(* An answer of list_messages; asof is history: what was stored when it    *)
(* was read.                                                               *)
Page == [msgs: SUBSET Message, more: BOOLEAN, asof: SUBSET Message]

(* A GET in progress.                                                      *)
Request == [pc: {"cache", "read", "fill", "answer"}, before: Cursor, page: Page \cup {None}]

ASSUME NoneAssumption == None \notin Req \cup Page \cup Request

NewWalk == [next |-> Top, waits |-> None, seen |-> {}, known |-> Message, over |-> FALSE]

Init ==
  /\ ids = 0 /\ stored = {} /\ deleted = {}
  /\ cache = [k \in Cursor |-> None]
  /\ req = [r \in Req |-> None]
  /\ walk = NewWalk

-----------------------------------------------------------------------------
At(r, pc) == req[r] # None /\ req[r].pc = pc

(* create_message: Uuid::now_v7 ...                                        *)
CreateId ==
  /\ ids < MaxMsg
  /\ ids' = ids + 1
  /\ UNCHANGED <<stored, deleted, cache, req, walk>>

(* ... and the INSERT.  (If it fails the id is never seen.)                *)
CreateInsert(m) ==
  /\ m \in 1..ids \ stored
  /\ stored' = stored \cup {m}
  /\ UNCHANGED <<ids, deleted, cache, req, walk>>

(* delete_message: a stored row gets deleted_at (looking it up first only  *)
(* decides between 404 and 204).  The cache is left alone.                 *)
Delete(m) ==
  /\ m \in stored \ deleted
  /\ deleted' = deleted \cup {m}
  /\ UNCHANGED <<ids, stored, cache, req, walk>>

-----------------------------------------------------------------------------
NewRequest(k) ==
  [pc |-> IF CacheOn THEN "cache" ELSE "read", before |-> k, page |-> None]

(* list_messages is called, for the newest messages or those before one.   *)
ListCall(r, k) ==
  /\ req[r] = None
  /\ k \in (stored \cup {Top}) \cap Cursor
  /\ req' = [req EXCEPT ![r] = NewRequest(k)]
  /\ UNCHANGED <<ids, stored, deleted, cache, walk>>

(* GET of the cache: a hit is the answer; a miss, or an error of Redis,    *)
(* goes on to Cassandra.                                                   *)
CacheGet(r) ==
  /\ At(r, "cache")
  /\ \/ /\ cache[req[r].before] # None
        /\ req' = [req EXCEPT ![r].pc = "answer", ![r].page = cache[req[r].before]]
     \/ req' = [req EXCEPT ![r].pc = "read"]
  /\ UNCHANGED <<ids, stored, deleted, cache, walk>>

DbPage(k) ==
  LET p == ListPage(stored, deleted, k, Limit)
  IN [msgs |-> p.msgs, more |-> p.more, asof |-> stored]

DbRead(r) ==
  /\ At(r, "read")
  /\ req' = [req EXCEPT ![r].pc = IF CacheOn THEN "fill" ELSE "answer",
                        ![r].page = DbPage(req[r].before)]
  /\ UNCHANGED <<ids, stored, deleted, cache, walk>>

(* SETEX; an error of Redis is ignored.                                    *)
CacheFill(r) ==
  /\ At(r, "fill")
  /\ cache' \in {cache, [cache EXCEPT ![req[r].before] = req[r].page]}
  /\ req' = [req EXCEPT ![r].pc = "answer"]
  /\ UNCHANGED <<ids, stored, deleted, walk>>

(* The answer leaves for a reader that is not the walk.                    *)
Respond(r) ==
  /\ At(r, "answer") /\ walk.waits # r
  /\ req' = [req EXCEPT ![r] = None]
  /\ UNCHANGED <<ids, stored, deleted, cache, walk>>

(* The TTL of a cached answer (5 s) runs out.                              *)
CacheExpire(k) ==
  /\ cache[k] # None
  /\ cache' = [cache EXCEPT ![k] = None]
  /\ UNCHANGED <<ids, stored, deleted, req, walk>>

-----------------------------------------------------------------------------
(* MessageList.tsx: the first page, then, while has_more, the page before  *)
(* the oldest message it has.                                              *)
WalkCall(r) ==
  /\ walk.waits = None /\ ~walk.over
  /\ req[r] = None
  /\ req' = [req EXCEPT ![r] = NewRequest(walk.next)]
  /\ walk' = [walk EXCEPT !.waits = r]
  /\ UNCHANGED <<ids, stored, deleted, cache>>

WalkPage(r) ==
  /\ walk.waits = r /\ At(r, "answer")
  /\ LET p == req[r].page
     IN walk' = [next |-> IF p.msgs = {} THEN walk.next ELSE Oldest(p.msgs),
                 waits |-> None,
                 seen |-> walk.seen \cup p.msgs,
                 known |-> walk.known \cap p.asof,
                 over |-> ~p.more]
  /\ req' = [req EXCEPT ![r] = None]
  /\ UNCHANGED <<ids, stored, deleted, cache>>

ListStep(r) == CacheGet(r) \/ DbRead(r) \/ CacheFill(r)

Next ==
  \/ CreateId
  \/ \E m \in Message : CreateInsert(m) \/ Delete(m)
  \/ \E r \in Req :
       \/ ListStep(r) \/ Respond(r) \/ WalkCall(r) \/ WalkPage(r)
       \/ \E k \in Cursor : ListCall(r, k)
  \/ \E k \in Cursor : CacheExpire(k)

Spec == Init /\ [][Next]_vars

-----------------------------------------------------------------------------
(* Whatever mixture of cached and fresh pages a walk is given, and         *)
(* whatever is created and deleted meanwhile, it leaves no hole behind it: *)
(* of the messages that were stored when its pages were read, those newer  *)
(* than its cursor have been seen or deleted.                              *)
WalkHasNoHoles ==
  \A m \in walk.known \ deleted : m >= walk.next /\ walk.next # Top => m \in walk.seen

(* tasks.md T-28 and MessageList.tsx: a walk that was told there is no     *)
(* more has seen every message that was stored when its pages were read    *)
(* and is not deleted.                                                     *)
WalkIsComplete ==
  walk.over => walk.known \ deleted \subseteq walk.seen

(* So it is as long as no message of the channel has been deleted, for any *)
(* interleaving with messages being created and cached pages.              *)
WalkIsCompleteIfNoneDeleted == deleted = {} => WalkIsComplete

(* A cached answer, or one on its way, that holds m.                       *)
Served(m) ==
  \/ \E k \in Cursor : cache[k] # None /\ m \in cache[k].msgs
  \/ \E r \in Req : req[r] # None /\ req[r].page # None /\ m \in req[r].page.msgs

(* Nothing invalidates the cache when a message is deleted, and a reader   *)
(* may put a page read before the deletion into it afterwards; but once    *)
(* no cached answer and no answer on its way holds a deleted message, no   *)
(* later fill brings it back: it outlives its deletion by the requests     *)
(* then running and the TTL of what they cached, no longer.                *)
GoneStaysGone ==
  [][\A m \in deleted : ~Served(m) => ~Served(m)']_vars
=============================================================================

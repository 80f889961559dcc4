---------------------------- MODULE HistoryProofs ----------------------------
(***************************************************************************)
(* For any number of messages, readers and any page size: a client that    *)
(* walks the history of a channel leaves no hole behind it, has everything *)
(* when it is told there is no more (unless messages were deleted), and a  *)
(* deleted message that nobody serves any more does not come back.         *)
(*                                                                         *)
(* The argument is about one page: newer messages come first, so whatever  *)
(* lies above the oldest message of a page is in the page.  That holds of  *)
(* a page for as long as it lives, since messages are only added to what   *)
(* it was read from and deletions are never undone.                        *)
(***************************************************************************)
EXTENDS MessageHistory, FiniteSetTheorems, TLAPS

(* A set of message ids is finite, and so is every part of it.             *)
LEMMA FiniteMessages ==
  ASSUME NEW S \in SUBSET Message
  PROVE  IsFiniteSet(S) /\ Cardinality(S) \in Nat
<1>1. IsFiniteSet(Message) BY HistoryAssumption, FS_Interval DEF Message
<1> QED BY <1>1, FS_Subset, FS_CardinalityType

(* Smaller parts have fewer elements.                                      *)
LEMMA FewerMessages ==
  ASSUME NEW S \in SUBSET Message, NEW T \in SUBSET S
  PROVE  Cardinality(T) <= Cardinality(S)
BY FiniteMessages, FS_Subset

(* The messages of a page that is cut off reach up to the newest.          *)
LEMMA NewestIsUpward ==
  ASSUME NEW S \in SUBSET Message, NEW n \in Nat,
         NEW x \in Newest(S, n), NEW m \in S, x <= m
  PROVE  m \in Newest(S, n)
<1> DEFINE Above(k) == {j \in S : j > k}
<1>0. x \in S /\ \A j \in S : j \in Int BY HistoryAssumption DEF Newest, Message
<1>1. Above(m) \subseteq Above(x) BY <1>0
<1>2. Above(m) \in SUBSET Message /\ Above(x) \in SUBSET Message OBVIOUS
<1>3. Cardinality(Above(m)) <= Cardinality(Above(x)) BY <1>1, <1>2, FewerMessages
<1>4. Cardinality(Above(x)) < n BY DEF Newest
<1>5. Cardinality(Above(m)) \in Nat /\ Cardinality(Above(x)) \in Nat BY <1>2, FiniteMessages
<1>6. Cardinality(Above(m)) < n BY <1>3, <1>4, <1>5
<1> QED BY <1>6 DEF Newest

(* A set of natural numbers has a smallest element.                        *)
LEMMA SmallestExists ==
  ASSUME NEW S \in SUBSET Nat, S # {}
  PROVE  \E x \in S : \A y \in S : x <= y
<1> DEFINE R == OpToRel(<, Nat)
<1>1. \A y, x \in Nat : y < x => <<y, x>> \in R BY DEF OpToRel
<1>2. IsWellFoundedOn(R, Nat) BY NatLessThanWellFounded
<1> HIDE DEF R
<1>3. PICK x \in S : \A y \in S : <<y, x>> \notin R BY <1>2, WFMin
<1>4. ASSUME NEW y \in S PROVE x <= y
  <2>1. x \in Nat /\ y \in Nat /\ ~(y < x) BY <1>1, <1>3
  <2> QED BY <2>1
<1> QED BY <1>4

(* So a set of messages has an oldest one ...                              *)
LEMMA OldestExists ==
  ASSUME NEW S \in SUBSET Message, S # {}
  PROVE  Oldest(S) \in S /\ \A k \in S : Oldest(S) <= k
<1>1. S \subseteq Nat BY HistoryAssumption DEF Message
<1> QED BY <1>1, SmallestExists DEF Oldest

(* ... and a newest.                                                       *)
LEMMA NewestExists ==
  ASSUME NEW S \in SUBSET Message, S # {}
  PROVE  \E m \in S : \A k \in S : k <= m
<1> DEFINE D == {MaxMsg - m : m \in S}
<1>1. \A m \in S : m \in Int /\ MaxMsg - m \in Nat BY HistoryAssumption DEF Message
<1>2. PICK x \in D : \A y \in D : x <= y
  <2>1. D \in SUBSET Nat /\ D # {} BY <1>1
  <2> HIDE DEF D
  <2> QED BY <2>1, SmallestExists
<1>3. PICK m \in S : x = MaxMsg - m BY <1>2
<1>4. ASSUME NEW k \in S PROVE k <= m
  <2>1. MaxMsg - m <= MaxMsg - k BY <1>2, <1>3
  <2> QED BY <1>1, <2>1, HistoryAssumption
<1> QED BY <1>4

(* Fewer messages than LIMIT asks for are all of them.                     *)
LEMMA FewAreAll ==
  ASSUME NEW S \in SUBSET Message, NEW n \in Nat, Cardinality(Newest(S, n + 1)) <= n
  PROVE  Newest(S, n + 1) = S
<1> DEFINE Out == S \ Newest(S, n + 1)
<1> SUFFICES ASSUME Out # {} PROVE FALSE BY DEF Newest
<1>1. PICK m \in Out : \A k \in Out : k <= m BY NewestExists
<1> DEFINE Above == {j \in S : j > m}
<1>2. Above \subseteq Newest(S, n + 1)
  <2>1. ASSUME NEW j \in Above, j \notin Newest(S, n + 1) PROVE FALSE
    <3>1. j \in Out /\ j \in Int /\ m \in Int /\ j > m BY <2>1, HistoryAssumption DEF Message
    <3> QED BY <1>1, <3>1
  <2> QED BY <2>1
<1>3. Newest(S, n + 1) \in SUBSET Message BY DEF Newest
<1>4. Cardinality(Above) <= Cardinality(Newest(S, n + 1)) BY <1>2, <1>3, FewerMessages
<1>5. Cardinality(Above) \in Nat /\ Cardinality(Newest(S, n + 1)) \in Nat
  BY <1>3, FiniteMessages
<1>6. Cardinality(Above) < n + 1 BY <1>4, <1>5
<1> QED BY <1>6 DEF Newest

(* Without one of its messages a set has one less.                         *)
LEMMA OneLess ==
  ASSUME NEW S \in SUBSET Message, NEW m \in S
  PROVE  Cardinality(S \ {m}) = Cardinality(S) - 1
BY FiniteMessages, FS_RemoveElement

(* What fits in a page is in the page.                                     *)
LEMMA FittingAreAll ==
  ASSUME NEW S \in SUBSET Message, NEW n \in Nat, Cardinality(S) <= n
  PROVE  Newest(S, n) = S
<1> SUFFICES ASSUME NEW m \in S PROVE Cardinality({j \in S : j > m}) < n BY DEF Newest
<1> DEFINE Above == {j \in S : j > m}
<1>1. Above \subseteq S \ {m} BY HistoryAssumption DEF Message
<1>2. Cardinality(Above) <= Cardinality(S \ {m}) BY <1>1, FewerMessages
<1>3. /\ Cardinality(S \ {m}) = Cardinality(S) - 1
      /\ Cardinality(S) \in Nat /\ Cardinality(Above) \in Nat
  BY OneLess, FiniteMessages
<1> QED BY <1>2, <1>3

(* What does not fit leaves out the first message ever.                    *)
LEMMA CutLeavesFirst ==
  ASSUME NEW S \in SUBSET Message, NEW n \in Nat, Cardinality(S) > n
  PROVE  1 \notin Newest(S, n)
<1> SUFFICES ASSUME 1 \in Newest(S, n) PROVE FALSE OBVIOUS
<1> DEFINE Above == {j \in S : j > 1}
<1>1. 1 \in S /\ Cardinality(Above) < n BY DEF Newest
<1>2. Above = S \ {1}
  <2>1. \A j \in S : j \in Int /\ j >= 1 BY HistoryAssumption DEF Message
  <2>2. \A j \in S : j > 1 <=> j # 1 BY <2>1
  <2> QED BY <2>2
<1>3. Cardinality(Above) = Cardinality(S) - 1 /\ Cardinality(S) \in Nat
  BY <1>1, <1>2, OneLess, FiniteMessages
<1> QED BY <1>1, <1>3

-----------------------------------------------------------------------------
(* What a page, read from the rows p.asof for the cursor k, shows.         *)
PageShows(p, k) ==
  /\ p \in Page
  /\ \A m \in p.msgs : m < k
  /\ \A m \in p.asof \ deleted, x \in p.msgs : m < k /\ x <= m => m \in p.msgs
  /\ deleted = {} /\ ~p.more => \A m \in p.asof : m < k => m \in p.msgs
  /\ p.more => 1 \notin p.msgs

(* list_messages reads such a page from Cassandra, without a message that  *)
(* has been deleted.                                                       *)
LEMMA ReadPage ==
  ASSUME stored \in SUBSET Message, NEW k \in Cursor
  PROVE  PageShows(DbPage(k), k) /\ DbPage(k).msgs \cap deleted = {}
<1> DEFINE S == {m \in stored : m < k}
           rows == Newest(S, Limit + 1)
           live == rows \ deleted
           p == DbPage(k)
<1>1. p = [msgs |-> Newest(live, Limit), more |-> Cardinality(live) > Limit, asof |-> stored]
  BY DEF DbPage, ListPage
<1>2. p.msgs = Newest(live, Limit) /\ p.more = (Cardinality(live) > Limit) /\ p.asof = stored
  BY <1>1
<1> HIDE DEF p
<1>3. S \in SUBSET Message /\ rows \in SUBSET S /\ live \in SUBSET Message /\ Newest(live, Limit) \subseteq live
  BY DEF Newest
<1>4. Limit \in Nat /\ Limit + 1 \in Nat BY HistoryAssumption
<1>5. p \in Page
  <2>1. (Cardinality(live) > Limit) \in BOOLEAN OBVIOUS
  <2> HIDE DEF live
  <2> QED BY <1>1, <1>3, <2>1 DEF Page
<1>6. ASSUME NEW m \in stored \ deleted, NEW x \in p.msgs, m < k, x <= m
      PROVE  m \in p.msgs
  <2>1. m \in S /\ x \in live /\ x \in rows BY <1>2, <1>3, <1>6
  <2>2. m \in rows BY <1>3, <1>4, <1>6, <2>1, NewestIsUpward
  <2>3. m \in live BY <1>6, <2>2
  <2> QED BY <1>2, <1>3, <1>4, <1>6, <2>3, NewestIsUpward
<1>7. ASSUME deleted = {}, ~p.more PROVE p.msgs = S
  <2>1. live = rows BY <1>7
  <2>2. Cardinality(rows) <= Limit
    <3>1. ~(Cardinality(live) > Limit) BY <1>2, <1>7
    <3>2. Cardinality(live) \in Nat BY <1>3, FiniteMessages
    <3> QED BY <1>4, <2>1, <3>1, <3>2
  <2>3. rows = S BY <1>3, <1>4, <2>2, FewAreAll
  <2>4. Newest(S, Limit) = S BY <1>3, <1>4, <2>2, <2>3, FittingAreAll
  <2> QED BY <1>2, <2>1, <2>3, <2>4
<1>8. ASSUME p.more PROVE 1 \notin p.msgs
  BY <1>2, <1>3, <1>4, <1>8, CutLeavesFirst
<1>9. (\A m \in p.msgs : m < k) /\ p.msgs \cap deleted = {} BY <1>2, <1>3
<1>10. PageShows(p, k)
  <2>1. deleted = {} /\ ~p.more => \A m \in p.asof : m < k => m \in p.msgs BY <1>2, <1>7
  <2>2. \A m \in p.asof \ deleted, x \in p.msgs : m < k /\ x <= m => m \in p.msgs BY <1>2, <1>6
  <2> HIDE DEF S, rows, live
  <2> QED BY <1>5, <1>8, <1>9, <2>1, <2>2 DEF PageShows
<1> QED BY <1>9, <1>10 DEF p

-----------------------------------------------------------------------------
(* The types of what is stored, cached and under way.                      *)
TypeOK ==
  /\ ids \in 0..MaxMsg /\ stored \in SUBSET Message /\ deleted \in SUBSET Message
  /\ cache \in [Cursor -> Page \cup {None}]
  /\ req \in [Req -> Request \cup {None}]
  /\ walk \in [next: 1..Top, waits: Req \cup {None}, seen: SUBSET Message,
               known: SUBSET Message, over: BOOLEAN]

(* Every cached answer, and every answer on its way, shows its page.       *)
CachedShow == \A k \in Cursor, p \in Page : cache[k] = p => PageShows(p, k)

AnswersShow ==
  \A r \in Req, k \in Cursor, p \in Page :
    req[r] # None /\ req[r].before = k /\ req[r].page = p => PageShows(p, k)

Answered == \A r \in Req : At(r, "fill") \/ At(r, "answer") => req[r].page # None

(* A walk that is not over asks for the page before its cursor.            *)
WalkAsks ==
  /\ ~walk.over => walk.next \in Cursor
  /\ walk.waits # None =>
       ~walk.over /\ req[walk.waits] # None /\ req[walk.waits].before = walk.next

HistoryInv ==
  /\ TypeOK /\ CachedShow /\ AnswersShow /\ Answered /\ WalkAsks
  /\ WalkHasNoHoles /\ WalkIsCompleteIfNoneDeleted

(* The bounds are numbers, and there is a cursor above every message.      *)
LEMMA CursorFacts ==
  /\ Top \in Nat /\ Top \in Cursor /\ Top \in 1..Top
  /\ \A k \in Cursor : k \in 1..Top /\ k \in Nat
  /\ \A m \in Message : m \in Nat /\ m \in 1..Top /\ m < Top /\ (m # 1 => m \in Cursor)
BY HistoryAssumption DEF Top, Cursor, Message

(* Nothing is stored, cached or under way at the start.                    *)
LEMMA HistoryInit == Init => HistoryInv
<1> SUFFICES ASSUME Init PROVE HistoryInv OBVIOUS
<1>1. /\ walk = [next |-> Top, waits |-> None, seen |-> {}, known |-> Message, over |-> FALSE]
      /\ ids = 0 /\ stored = {} /\ deleted = {}
      /\ cache = [k \in Cursor |-> None] /\ req = [r \in Req |-> None]
  BY DEF Init, NewWalk
<1>2. TypeOK BY <1>1, CursorFacts, HistoryAssumption DEF TypeOK
<1>3. CachedShow /\ AnswersShow /\ Answered
  BY <1>1, NoneAssumption DEF CachedShow, AnswersShow, Answered, At
<1>4. WalkAsks BY <1>1, CursorFacts DEF WalkAsks
<1>5. WalkHasNoHoles /\ WalkIsCompleteIfNoneDeleted
  BY <1>1 DEF WalkHasNoHoles, WalkIsCompleteIfNoneDeleted, WalkIsComplete
<1> QED BY <1>2, <1>3, <1>4, <1>5 DEF HistoryInv

(* What a page shows it goes on showing: deletions are never undone.       *)
LEMMA PageStays ==
  ASSUME NEW p, NEW k, PageShows(p, k), deleted \subseteq deleted'
  PROVE  PageShows(p, k)'
BY DEF PageShows

(* Messages come and go without the readers.                               *)
LEMMA MessagesStep ==
  ASSUME HistoryInv, UNCHANGED <<cache, req, walk>>, deleted \subseteq deleted',
         ids' \in 0..MaxMsg, stored' \in SUBSET Message, deleted' \in SUBSET Message
  PROVE  HistoryInv'
<1>1. TypeOK' BY DEF HistoryInv, TypeOK
<1>2. CachedShow' BY PageStays DEF HistoryInv, CachedShow
<1>3. AnswersShow' BY PageStays DEF HistoryInv, AnswersShow
<1>4. Answered' /\ WalkAsks' BY DEF HistoryInv, Answered, WalkAsks, At
<1>5. WalkHasNoHoles' BY DEF HistoryInv, WalkHasNoHoles
<1>6. WalkIsCompleteIfNoneDeleted' BY DEF HistoryInv, WalkIsCompleteIfNoneDeleted, WalkIsComplete
<1> QED BY <1>1, <1>2, <1>3, <1>4, <1>5, <1>6 DEF HistoryInv

(* A request moves, or the cache does, while the walk stays.               *)
LEMMA SlotStep ==
  ASSUME HistoryInv, UNCHANGED <<ids, stored, deleted, walk>>,
         cache' \in [Cursor -> Page \cup {None}], CachedShow',
         NEW r \in Req, NEW v \in Request \cup {None}, req' = [req EXCEPT ![r] = v],
         v # None => \A p \in Page : v.page = p => PageShows(p, v.before),
         v # None /\ v.pc \in {"fill", "answer"} => v.page # None,
         walk.waits = r => v # None /\ v.before = req[r].before
  PROVE  HistoryInv'
<1>0. req \in [Req -> Request \cup {None}] /\ walk.waits \in Req \cup {None} BY DEF HistoryInv, TypeOK
<1>1. req'[r] = v /\ \A s \in Req : s # r => req'[s] = req[s] BY <1>0
<1>2. TypeOK' BY DEF HistoryInv, TypeOK
<1>3. AnswersShow'
  <2> SUFFICES ASSUME NEW s \in Req, NEW k \in Cursor, NEW p \in Page,
                      req'[s] # None, req'[s].before = k, req'[s].page = p
               PROVE  PageShows(p, k)'
    BY DEF AnswersShow
  <2>1. PageShows(p, k)
    <3>1. CASE s = r BY <1>1, <3>1
    <3>2. CASE s # r BY <1>1, <3>2 DEF HistoryInv, AnswersShow
    <3> QED BY <3>1, <3>2
  <2> QED BY <2>1, PageStays
<1>4. Answered' BY <1>1 DEF HistoryInv, Answered, At
<1>5. WalkAsks' BY <1>0, <1>1 DEF HistoryInv, WalkAsks
<1>6. WalkHasNoHoles' BY DEF HistoryInv, WalkHasNoHoles
<1>7. WalkIsCompleteIfNoneDeleted' BY DEF HistoryInv, WalkIsCompleteIfNoneDeleted, WalkIsComplete
<1> QED BY <1>2, <1>3, <1>4, <1>5, <1>6, <1>7 DEF HistoryInv

(* A new request for a cursor.                                             *)
LEMMA NewRequestFacts ==
  ASSUME NEW k \in Cursor
  PROVE  /\ NewRequest(k) \in Request
         /\ NewRequest(k).before = k /\ NewRequest(k).page = None
         /\ NewRequest(k).pc \in {"cache", "read"}
BY HistoryAssumption DEF NewRequest, Request

(* A request that moves on to another stage with a page.                   *)
LEMMA RequestFacts ==
  ASSUME TypeOK, NEW r \in Req, req[r] # None
  PROVE  /\ req[r] \in Request
         /\ \A pc \in {"cache", "read", "fill", "answer"}, p \in Page \cup {None} :
              [req[r] EXCEPT !.pc = pc, !.page = p] \in Request
<1>1. req[r] \in Request BY DEF TypeOK
<1> QED BY <1>1, NoneAssumption DEF Request

(* list_messages, from the call to the answer, keeps the invariant.        *)
LEMMA ListKeeps ==
  ASSUME HistoryInv, NEW r \in Req,
         (\E k \in Cursor : ListCall(r, k)) \/ ListStep(r) \/ Respond(r)
  PROVE  HistoryInv'
<1>0. TypeOK /\ CachedShow /\ AnswersShow /\ Answered BY DEF HistoryInv
<1>1. ASSUME NEW k \in Cursor, ListCall(r, k) PROVE HistoryInv'
  <2>1. /\ req[r] = None /\ req' = [req EXCEPT ![r] = NewRequest(k)]
        /\ UNCHANGED <<ids, stored, deleted, cache, walk>>
    BY <1>1 DEF ListCall
  <2>2. walk.waits # r BY <2>1, NoneAssumption DEF HistoryInv, WalkAsks
  <2>3. CachedShow' BY <1>0, <2>1, PageStays DEF CachedShow
  <2>4. cache' \in [Cursor -> Page \cup {None}] BY <1>0, <2>1 DEF TypeOK
  <2>5. PICK v \in Request : v = NewRequest(k) BY NewRequestFacts
  <2>6. v.page = None /\ v.pc \notin {"fill", "answer"} /\ v # None
    BY <2>5, NewRequestFacts, NoneAssumption
  <2>7. \A p \in Page : v.page # p BY <2>6, NoneAssumption
  <2> QED BY <2>1, <2>2, <2>3, <2>4, <2>5, <2>6, <2>7, SlotStep
<1>2. CASE CacheGet(r)
  <2>1. /\ req[r] # None /\ UNCHANGED <<ids, stored, deleted, cache, walk>>
    BY <1>2 DEF CacheGet, At
  <2>2. CachedShow' BY <1>0, <2>1, PageStays DEF CachedShow
  <2>3. cache' \in [Cursor -> Page \cup {None}] BY <1>0, <2>1 DEF TypeOK
  <2>4. req[r] \in Request /\ req[r].before \in Cursor BY <1>0, <2>1, RequestFacts DEF Request
  <2>5. CASE /\ cache[req[r].before] # None
             /\ req' = [req EXCEPT ![r].pc = "answer", ![r].page = cache[req[r].before]]
    <3>1. PICK k \in Cursor, p \in Page : k = req[r].before /\ p = cache[k]
      BY <1>0, <2>4, <2>5 DEF TypeOK
    <3>2. PageShows(p, k) BY <1>0, <3>1 DEF CachedShow
    <3>3. PICK v \in Request : v = [req[r] EXCEPT !.pc = "answer", !.page = p]
      BY <1>0, <2>1, RequestFacts
    <3>4. v.pc = "answer" /\ v.page = p /\ v.before = k BY <2>4, <3>1, <3>3 DEF Request
    <3>5. req' = [req EXCEPT ![r] = v] BY <1>0, <2>5, <3>1, <3>3 DEF TypeOK
    <3> QED BY <2>1, <2>2, <2>3, <3>1, <3>2, <3>4, <3>5, SlotStep, NoneAssumption
  <2>6. CASE req' = [req EXCEPT ![r].pc = "read"]
    <3>1. PICK v \in Request : v = [req[r] EXCEPT !.pc = "read"]
      BY <2>4 DEF Request
    <3>2. v.pc = "read" /\ v.page = req[r].page /\ v.before = req[r].before BY <2>4, <3>1 DEF Request
    <3>3. req' = [req EXCEPT ![r] = v] BY <1>0, <2>6, <3>1 DEF TypeOK
    <3>4. \A p \in Page : v.page = p => PageShows(p, v.before)
      BY <1>0, <2>1, <2>4, <3>2 DEF AnswersShow
    <3> QED BY <2>1, <2>2, <2>3, <3>2, <3>3, <3>4, SlotStep, NoneAssumption
  <2> QED BY <1>2, <2>5, <2>6 DEF CacheGet
<1>3. CASE DbRead(r)
  <2>1. /\ req[r] # None /\ UNCHANGED <<ids, stored, deleted, cache, walk>>
        /\ stored \in SUBSET Message
    BY <1>0, <1>3 DEF DbRead, At, TypeOK
  <2>2. CachedShow' BY <1>0, <2>1, PageStays DEF CachedShow
  <2>3. cache' \in [Cursor -> Page \cup {None}] BY <1>0, <2>1 DEF TypeOK
  <2>4. req[r] \in Request /\ req[r].before \in Cursor BY <1>0, <2>1, RequestFacts DEF Request
  <2>5. PICK pc \in {"fill", "answer"} :
          req' = [req EXCEPT ![r].pc = pc, ![r].page = DbPage(req[r].before)]
    BY <1>3 DEF DbRead
  <2>6. PICK k \in Cursor, p \in Page : k = req[r].before /\ p = DbPage(k) /\ PageShows(p, k)
    BY <2>1, <2>4, ReadPage DEF PageShows
  <2>7. PICK v \in Request : v = [req[r] EXCEPT !.pc = pc, !.page = p]
    BY <1>0, <2>1, RequestFacts
  <2>8. v.pc = pc /\ v.page = p /\ v.before = k BY <2>4, <2>6, <2>7 DEF Request
  <2>9. req' = [req EXCEPT ![r] = v] BY <1>0, <2>5, <2>6, <2>7 DEF TypeOK
  <2> QED BY <2>1, <2>2, <2>3, <2>6, <2>8, <2>9, SlotStep, NoneAssumption
<1>4. CASE CacheFill(r)
  <2>1. /\ req[r] # None /\ UNCHANGED <<ids, stored, deleted, walk>> /\ At(r, "fill")
        /\ cache' \in {cache, [cache EXCEPT ![req[r].before] = req[r].page]}
        /\ req' = [req EXCEPT ![r].pc = "answer"]
    BY <1>4 DEF CacheFill, At
  <2>2. req[r] \in Request /\ req[r].before \in Cursor BY <1>0, <2>1, RequestFacts DEF Request
  <2>3. PICK k \in Cursor, p \in Page : k = req[r].before /\ p = req[r].page
    BY <1>0, <2>1, <2>2 DEF Answered, Request
  <2>4. PageShows(p, k) BY <1>0, <2>1, <2>3 DEF AnswersShow
  <2>5. cache' \in [Cursor -> Page \cup {None}] BY <1>0, <2>1, <2>3 DEF TypeOK
  <2>6. CachedShow'
    <3> SUFFICES ASSUME NEW j \in Cursor, NEW q \in Page, cache'[j] = q PROVE PageShows(q, j)'
      BY DEF CachedShow
    <3>1. cache'[j] = cache[j] \/ (j = k /\ cache'[j] = p) BY <1>0, <2>1, <2>3 DEF TypeOK
    <3>2. PageShows(q, j) BY <1>0, <2>4, <3>1 DEF CachedShow
    <3> QED BY <2>1, <3>2, PageStays
  <2>7. PICK v \in Request : v = [req[r] EXCEPT !.pc = "answer"] BY <2>2 DEF Request
  <2>8. v.pc = "answer" /\ v.page = p /\ v.before = k BY <2>2, <2>3, <2>7 DEF Request
  <2>9. req' = [req EXCEPT ![r] = v] BY <1>0, <2>1, <2>7 DEF TypeOK
  <2>10. v # None /\ v.page # None /\ \A q \in Page : v.page = q => PageShows(q, v.before)
    BY <2>4, <2>8, NoneAssumption
  <2>11. UNCHANGED <<ids, stored, deleted, walk>> /\ v.before = req[r].before BY <2>1, <2>3, <2>8
  <2> QED BY <2>5, <2>6, <2>9, <2>10, <2>11, SlotStep
<1>5. CASE Respond(r)
  <2>1. /\ walk.waits # r /\ req' = [req EXCEPT ![r] = None]
        /\ UNCHANGED <<ids, stored, deleted, cache, walk>>
    BY <1>5 DEF Respond
  <2>2. CachedShow' BY <1>0, <2>1, PageStays DEF CachedShow
  <2>3. cache' \in [Cursor -> Page \cup {None}] BY <1>0, <2>1 DEF TypeOK
  <2> QED BY <2>1, <2>2, <2>3, SlotStep
<1> QED BY <1>1, <1>2, <1>3, <1>4, <1>5 DEF ListStep

(* The TTL of a cached answer runs out.                                    *)
LEMMA ExpireKeeps ==
  ASSUME HistoryInv, NEW k \in Cursor, CacheExpire(k)
  PROVE  HistoryInv'
<1>1. UNCHANGED <<ids, stored, deleted, req, walk>> /\ cache' = [cache EXCEPT ![k] = None]
  BY DEF CacheExpire
<1>2. TypeOK' BY <1>1 DEF HistoryInv, TypeOK
<1>3. CachedShow'
  <2> SUFFICES ASSUME NEW j \in Cursor, NEW q \in Page, cache'[j] = q PROVE PageShows(q, j)'
    BY DEF CachedShow
  <2>1. cache[j] = q BY <1>1, NoneAssumption DEF HistoryInv, TypeOK
  <2> QED BY <1>1, <2>1, PageStays DEF HistoryInv, CachedShow
<1>4. AnswersShow' BY <1>1, PageStays DEF HistoryInv, AnswersShow
<1>5. Answered' /\ WalkAsks' BY <1>1 DEF HistoryInv, Answered, WalkAsks, At
<1>6. WalkHasNoHoles' BY <1>1 DEF HistoryInv, WalkHasNoHoles
<1>7. WalkIsCompleteIfNoneDeleted'
  BY <1>1 DEF HistoryInv, WalkIsCompleteIfNoneDeleted, WalkIsComplete
<1> QED BY <1>2, <1>3, <1>4, <1>5, <1>6, <1>7 DEF HistoryInv

-----------------------------------------------------------------------------
(* The client asks for the page before its cursor.                         *)
LEMMA WalkCallKeeps ==
  ASSUME HistoryInv, NEW r \in Req, WalkCall(r)
  PROVE  HistoryInv'
<1>0. /\ TypeOK /\ ~walk.over /\ walk.waits = None /\ UNCHANGED <<ids, stored, deleted, cache>>
      /\ req' = [req EXCEPT ![r] = NewRequest(walk.next)]
      /\ walk' = [walk EXCEPT !.waits = r]
  BY DEF WalkCall, HistoryInv
<1>1. walk.next \in Cursor BY <1>0 DEF HistoryInv, WalkAsks
<1>2. PICK v \in Request : v = NewRequest(walk.next) BY <1>1, NewRequestFacts
<1>3. v.before = walk.next /\ v.page = None /\ v.pc \in {"cache", "read"} /\ v # None
  BY <1>1, <1>2, NewRequestFacts, NoneAssumption
<1>4. req'[r] = v /\ \A s \in Req : s # r => req'[s] = req[s] BY <1>0, <1>2 DEF TypeOK
<1>5. /\ walk'.waits = r /\ walk'.next = walk.next /\ walk'.over = walk.over
      /\ walk'.seen = walk.seen /\ walk'.known = walk.known
      /\ walk' \in [next: 1..Top, waits: Req \cup {None}, seen: SUBSET Message,
                    known: SUBSET Message, over: BOOLEAN]
  BY <1>0 DEF TypeOK
<1>6. TypeOK' BY <1>0, <1>2, <1>5 DEF TypeOK
<1>7. CachedShow' BY <1>0, PageStays DEF HistoryInv, CachedShow
<1>8. AnswersShow'
  <2> SUFFICES ASSUME NEW s \in Req, NEW k \in Cursor, NEW p \in Page,
                      req'[s] # None, req'[s].before = k, req'[s].page = p
               PROVE  PageShows(p, k)'
    BY DEF AnswersShow
  <2>1. s # r BY <1>3, <1>4, NoneAssumption
  <2>2. PageShows(p, k) BY <1>4, <2>1 DEF HistoryInv, AnswersShow
  <2> QED BY <1>0, <2>2, PageStays
<1>9. Answered' BY <1>3, <1>4 DEF HistoryInv, Answered, At
<1>10. WalkAsks' BY <1>0, <1>1, <1>3, <1>4, <1>5 DEF WalkAsks
<1>11. WalkHasNoHoles' BY <1>0, <1>5 DEF HistoryInv, WalkHasNoHoles
<1>12. WalkIsCompleteIfNoneDeleted' BY <1>0, <1>5 DEF WalkIsCompleteIfNoneDeleted, WalkIsComplete
<1> QED BY <1>6, <1>7, <1>8, <1>9, <1>10, <1>11, <1>12 DEF HistoryInv

(* The client puts a page in front of what it has.                         *)
LEMMA WalkPageKeeps ==
  ASSUME HistoryInv, NEW r \in Req, WalkPage(r)
  PROVE  HistoryInv'
<1>0. /\ TypeOK /\ walk.waits = r /\ At(r, "answer") /\ UNCHANGED <<ids, stored, deleted, cache>>
      /\ req' = [req EXCEPT ![r] = None] /\ req[r] # None
  BY DEF WalkPage, HistoryInv, At
<1>1. ~walk.over /\ req[r].before = walk.next /\ walk.next \in Cursor
  BY <1>0, NoneAssumption DEF HistoryInv, WalkAsks
<1>2. PICK p \in Page, k \in Cursor : p = req[r].page /\ k = walk.next
  <2>1. req[r] \in Request /\ req[r].page # None BY <1>0 DEF TypeOK, HistoryInv, Answered
  <2> QED BY <1>1, <2>1 DEF Request
<1>3. PageShows(p, k) BY <1>0, <1>1, <1>2 DEF HistoryInv, AnswersShow
<1>4. p.msgs \in SUBSET Message /\ p.asof \in SUBSET Message /\ p.more \in BOOLEAN BY <1>2 DEF Page
<1> DEFINE next == IF p.msgs = {} THEN k ELSE Oldest(p.msgs)
<1>5. walk' = [next |-> next, waits |-> None, seen |-> walk.seen \cup p.msgs,
               known |-> walk.known \cap p.asof, over |-> ~p.more]
  BY <1>2 DEF WalkPage
<1>6. next \in 1..Top /\ (p.more => next \in Cursor)
  <2>1. CASE p.msgs = {} BY <2>1, CursorFacts
  <2>2. CASE p.msgs # {}
    <3>1. Oldest(p.msgs) \in p.msgs BY <1>4, <2>2, OldestExists
    <3>2. p.more => Oldest(p.msgs) # 1 BY <1>3, <3>1 DEF PageShows
    <3> QED BY <1>4, <2>2, <3>1, <3>2, CursorFacts
  <2> QED BY <2>1, <2>2
<1>7. /\ walk'.next = next /\ walk'.waits = None /\ walk'.seen = walk.seen \cup p.msgs
      /\ walk'.known = walk.known \cap p.asof /\ walk'.over = ~p.more
  BY <1>5
<1>8. walk.seen \in SUBSET Message /\ walk.known \in SUBSET Message BY <1>0 DEF TypeOK
<1>9. \A s \in Req : req'[s] = IF s = r THEN None ELSE req[s] BY <1>0 DEF TypeOK
<1>10. TypeOK'
  <2>1. walk' \in [next: 1..Top, waits: Req \cup {None}, seen: SUBSET Message,
                   known: SUBSET Message, over: BOOLEAN]
    <3> HIDE DEF next
    <3> QED BY <1>4, <1>5, <1>6, <1>8
  <2>2. req' \in [Req -> Request \cup {None}] BY <1>0 DEF TypeOK
  <2> QED BY <1>0, <2>1, <2>2 DEF TypeOK
<1>11. CachedShow' BY <1>0, PageStays DEF HistoryInv, CachedShow
<1>12. AnswersShow' BY <1>0, <1>9, PageStays DEF HistoryInv, AnswersShow
<1>13. Answered' BY <1>9 DEF HistoryInv, Answered, At
<1>14. WalkAsks'
  <2> HIDE DEF next
  <2> QED BY <1>4, <1>6, <1>7 DEF WalkAsks
<1>15. ASSUME NEW m \in (walk.known \cap p.asof) \ deleted, m >= k PROVE m \in walk.seen
  <2>1. m < Top BY <1>8, CursorFacts
  <2>2. k # Top BY <1>8, <1>15, <2>1, CursorFacts
  <2> QED BY <1>2, <1>15, <2>2 DEF HistoryInv, WalkHasNoHoles
<1>16. WalkHasNoHoles'
  <2> SUFFICES ASSUME NEW m \in (walk.known \cap p.asof) \ deleted, m >= next
               PROVE  m \in walk.seen \cup p.msgs
    BY <1>0, <1>7 DEF WalkHasNoHoles
  <2>1. CASE m >= k BY <1>15, <2>1
  <2>2. CASE ~(m >= k)
    <3>1. m \in Nat /\ k \in Nat BY <1>8, CursorFacts
    <3>2. m < k BY <2>2, <3>1
    <3>3. p.msgs # {} BY <2>2
    <3>4. Oldest(p.msgs) \in p.msgs /\ Oldest(p.msgs) <= m
      BY <1>4, <3>1, <3>3, OldestExists, CursorFacts
    <3> QED BY <1>3, <3>2, <3>4 DEF PageShows
  <2> QED BY <2>1, <2>2
<1>17. WalkIsCompleteIfNoneDeleted'
  <2> SUFFICES ASSUME deleted = {}, ~p.more, NEW m \in walk.known \cap p.asof
               PROVE  m \in walk.seen \cup p.msgs
    BY <1>0, <1>7 DEF WalkIsCompleteIfNoneDeleted, WalkIsComplete
  <2>1. CASE m >= k BY <1>15, <2>1
  <2>2. CASE ~(m >= k)
    <3>1. m < k BY <1>8, <2>2, CursorFacts
    <3> QED BY <1>3, <3>1 DEF PageShows
  <2> QED BY <2>1, <2>2
<1> QED BY <1>10, <1>11, <1>12, <1>13, <1>14, <1>16, <1>17 DEF HistoryInv

(* Every step keeps the invariant.                                         *)
LEMMA HistoryStep == HistoryInv /\ [Next]_vars => HistoryInv'
<1> SUFFICES ASSUME HistoryInv, [Next]_vars PROVE HistoryInv' OBVIOUS
<1>1. CASE CreateId
  BY <1>1, MessagesStep, HistoryAssumption DEF CreateId, HistoryInv, TypeOK
<1>2. ASSUME NEW m \in Message, CreateInsert(m) \/ Delete(m) PROVE HistoryInv'
  BY <1>2, MessagesStep DEF CreateInsert, Delete, HistoryInv, TypeOK
<1>3. ASSUME NEW r \in Req,
             (\E k \in Cursor : ListCall(r, k)) \/ ListStep(r) \/ Respond(r)
      PROVE  HistoryInv'
  BY <1>3, ListKeeps
<1>4. CASE UNCHANGED vars
  BY <1>4, MessagesStep DEF vars, HistoryInv, TypeOK
<1> QED BY <1>1, <1>2, <1>3, <1>4, WalkCallKeeps, WalkPageKeeps, ExpireKeeps DEF Next

-----------------------------------------------------------------------------
(* MessageList puts together the pages of list_messages without a hole,    *)
(* for any mixture of cached and fresh pages and whatever is created and   *)
(* deleted meanwhile.                                                      *)
THEOREM WalksLeaveNoHoles == Spec => []WalkHasNoHoles
<1>1. HistoryInv => WalkHasNoHoles BY DEF HistoryInv
<1> QED BY <1>1, HistoryInit, HistoryStep, PTL DEF Spec

(* As long as nothing was deleted, has_more is false only on the page that *)
(* completes the history.                                                  *)
THEOREM WalksEndComplete == Spec => []WalkIsCompleteIfNoneDeleted
<1>1. HistoryInv => WalkIsCompleteIfNoneDeleted BY DEF HistoryInv
<1> QED BY <1>1, HistoryInit, HistoryStep, PTL DEF Spec

(* delete_message leaves the cache alone, and a reader may still fill it   *)
(* with an older page; but a deleted message that is in no cached answer   *)
(* and in none on its way is never served again.                           *)
THEOREM DeletedStayGone == Spec => GoneStaysGone
<1>1. ASSUME HistoryInv, [Next]_vars
      PROVE  [\A m \in deleted : ~Served(m) => ~Served(m)']_vars
  <2> SUFFICES ASSUME NEW m \in deleted, ~Served(m), Served(m)' PROVE FALSE
    OBVIOUS
  <2>0. TypeOK BY <1>1 DEF HistoryInv
  <2>1. ASSUME NEW k \in Cursor, cache'[k] # None, m \in cache'[k].msgs PROVE FALSE
    <3>1. cache'[k] # cache[k] BY <2>1 DEF Served
    <3>2. PICK r \in Req : CacheFill(r)
      <4>1. ~CacheExpire(k) BY <2>0, <2>1 DEF CacheExpire, TypeOK
      <4>2. \A j \in Cursor : j # k => ~CacheExpire(j) BY <2>0, <3>1 DEF CacheExpire, TypeOK
      <4> QED BY <1>1, <3>1, <4>1, <4>2
             DEF Next, ListStep, CreateId, CreateInsert, Delete, ListCall, CacheGet, DbRead,
                 Respond, WalkCall, WalkPage, vars
    <3>3. cache'[k] = req[r].page /\ req[r] # None
      BY <2>0, <3>1, <3>2 DEF CacheFill, At, TypeOK
    <3> QED BY <2>1, <3>3 DEF Served
  <2>2. ASSUME NEW r \in Req, req'[r] # None, req'[r].page # None, m \in req'[r].page.msgs
        PROVE  FALSE
    <3>1. req'[r] # req[r] BY <2>2 DEF Served
    <3>2. CASE (\E k \in Cursor : ListCall(r, k)) \/ WalkCall(r)
      <4>1. PICK k : req'[r] = NewRequest(k) BY <2>0, <3>2 DEF ListCall, WalkCall, TypeOK
      <4> QED BY <2>2, <4>1 DEF NewRequest
    <3>3. CASE Respond(r) \/ WalkPage(r)
      BY <2>0, <2>2, <3>3 DEF Respond, WalkPage, TypeOK
    <3>4. CASE CacheGet(r) \/ DbRead(r) \/ CacheFill(r)
      <4>1. req[r] # None /\ req[r] \in Request /\ req[r].before \in Cursor
        BY <2>0, <3>4 DEF CacheGet, DbRead, CacheFill, At, TypeOK, Request
      <4>2. CASE req'[r].page = req[r].page BY <2>2, <4>1, <4>2 DEF Served
      <4>3. CASE cache[req[r].before] # None /\ req'[r].page = cache[req[r].before]
        BY <2>2, <4>1, <4>3 DEF Served
      <4>4. CASE req'[r].page = DbPage(req[r].before)
        BY <2>0, <2>2, <4>1, <4>4, ReadPage DEF TypeOK
      <4>5. \/ req'[r].page = req[r].page
            \/ cache[req[r].before] # None /\ req'[r].page = cache[req[r].before]
            \/ req'[r].page = DbPage(req[r].before)
        <5>1. CASE CacheGet(r) BY <2>0, <4>1, <5>1 DEF CacheGet, TypeOK, Request
        <5>2. CASE DbRead(r) BY <2>0, <4>1, <5>2 DEF DbRead, TypeOK, Request
        <5>3. CASE CacheFill(r) BY <2>0, <4>1, <5>3 DEF CacheFill, TypeOK, Request
        <5> QED BY <3>4, <5>1, <5>2, <5>3
      <4> QED BY <4>2, <4>3, <4>4, <4>5
    <3>5. ASSUME NEW s \in Req, s # r,
                 \/ ListStep(s) \/ Respond(s) \/ WalkCall(s) \/ WalkPage(s)
                 \/ \E k \in Cursor : ListCall(s, k)
          PROVE  FALSE
      BY <2>0, <3>1, <3>5
         DEF ListStep, CacheGet, DbRead, CacheFill, Respond, WalkCall, WalkPage, ListCall, TypeOK
    <3>6. req' # req BY <3>1
    <3> QED BY <1>1, <3>2, <3>3, <3>4, <3>5, <3>6
            DEF Next, ListStep, CreateId, CreateInsert, Delete, CacheExpire, vars
  <2> QED BY <2>1, <2>2 DEF Served
<1> QED BY <1>1, HistoryInit, HistoryStep, PTL DEF Spec, GoneStaysGone
=============================================================================

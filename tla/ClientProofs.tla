---------------------------- MODULE ClientProofs ----------------------------
(***************************************************************************)
(* What the clients promise, for any number of messages, page size and     *)
(* length of the IPC queues: the chat view lists no message twice and      *)
(* keeps what it was told of, and the desktop app obeys and shows the      *)
(* notification preference.                                                *)
(***************************************************************************)
EXTENDS ChannelView, Desktop, FiniteSetTheorems, TLAPS

Distinct(s) == \A i, j \in DOMAIN s : s[i] = s[j] => i = j
Rising(s) == \A i, j \in DOMAIN s : i < j => s[i] < s[j]

(* How many of S are below m.                                              *)
Rank(S, m) == Cardinality({k \in S : k < m})

-----------------------------------------------------------------------------
(* Lists.                                                                  *)

(* Of two numbers of a set the larger has more of them below it.           *)
LEMMA RankRises ==
  ASSUME NEW S \in SUBSET Int, IsFiniteSet(S), NEW m \in S, NEW n \in S, m < n
  PROVE  Rank(S, m) \in Nat /\ Rank(S, n) \in Nat /\ Rank(S, m) < Rank(S, n)
<1> DEFINE A == {k \in S : k < m}
           B == {k \in S : k < n}
<1>1. A \subseteq S /\ B \subseteq S /\ A \subseteq B /\ m \in B /\ m \notin A
  <2>1. m \in Int /\ n \in Int /\ \A k \in S : k \in Int OBVIOUS
  <2>2. m \in B /\ m \notin A BY <2>1
  <2>3. A \subseteq B
    <3> SUFFICES ASSUME NEW k \in A PROVE k \in B OBVIOUS
    <3>1. k \in Int /\ k \in S /\ k < m BY <2>1
    <3> QED BY <2>1, <3>1
  <2> QED BY <2>2, <2>3
<1>2. IsFiniteSet(A) /\ IsFiniteSet(B) /\ Cardinality(A) \in Nat /\ Cardinality(B) \in Nat
  BY <1>1, FS_Subset, FS_CardinalityType
<1>3. Cardinality(A) <= Cardinality(B) /\ (Cardinality(A) = Cardinality(B) => A = B)
  BY <1>1, <1>2, FS_Subset
<1> QED BY <1>1, <1>2, <1>3 DEF Rank

(* The ranks of n numbers are 0 to n - 1.                                  *)
LEMMA EveryRankTaken ==
  ASSUME NEW S \in SUBSET Int, IsFiniteSet(S), NEW i \in 1..Cardinality(S)
  PROVE  \E m \in S : Rank(S, m) = i - 1
<1> DEFINE T == 1..Cardinality(S)
           r == [m \in S |-> Rank(S, m) + 1]
<1>1. Cardinality(S) \in Nat BY FS_CardinalityType
<1>2. ASSUME NEW m \in S PROVE Rank(S, m) \in Nat /\ Rank(S, m) + 1 \in T
  <2> DEFINE A == {k \in S : k < m}
  <2>1. A \subseteq S /\ m \notin A OBVIOUS
  <2>2. Cardinality(A) \in Nat /\ Cardinality(A) <= Cardinality(S) /\ Cardinality(A) # Cardinality(S)
    BY <2>1, FS_Subset, FS_CardinalityType
  <2> QED BY <1>1, <2>2 DEF Rank
<1>3. r \in Injection(S, T)
  <2>1. r \in [S -> T] BY <1>2
  <2>2. ASSUME NEW m \in S, NEW n \in S, r[m] = r[n] PROVE m = n
    <3>1. Rank(S, m) = Rank(S, n) BY <1>2, <2>2
    <3>2. m \in Int /\ n \in Int /\ ~(m < n) /\ ~(n < m) BY <3>1, RankRises
    <3> QED BY <3>2
  <2> HIDE DEF r
  <2>3. DOMAIN r = S BY <2>1
  <2> QED BY <2>1, <2>2, <2>3 DEF Injection, IsInjective
<1>4. IsFiniteSet(T) /\ Cardinality(T) = Cardinality(S)
  BY <1>1, FS_Interval
<1> HIDE DEF r, T
<1>5. r \in Surjection(S, T) BY <1>3, <1>4, FS_Injection
<1>6. PICK m \in S : r[m] = i BY <1>5 DEF Surjection, T
<1> QED BY <1>2, <1>6 DEF r

(* Ascending lists the numbers of a set, each once, in rising order.       *)
LEMMA AscendingLists ==
  ASSUME NEW S \in SUBSET Int, IsFiniteSet(S)
  PROVE  /\ Cardinality(S) \in Nat
         /\ Ascending(S) \in [1..Cardinality(S) -> S]
         /\ Rising(Ascending(S))
         /\ \A m \in S : \E i \in 1..Cardinality(S) : Ascending(S)[i] = m
<1> DEFINE n == Cardinality(S)
           a == Ascending(S)
<1>1. n \in Nat BY FS_CardinalityType
<1>2. ASSUME NEW i \in 1..n PROVE a[i] \in S /\ Rank(S, a[i]) = i - 1
  BY EveryRankTaken DEF Ascending, Rank
<1>3. a \in [1..n -> S] BY <1>2 DEF Ascending
<1>4. Rising(a)
  <2> SUFFICES ASSUME NEW i \in 1..n, NEW j \in 1..n, i < j PROVE a[i] < a[j]
    BY <1>3 DEF Rising
  <2>1. Rank(S, a[i]) < Rank(S, a[j]) BY <1>1, <1>2
  <2>2. a[i] # a[j] /\ ~(a[j] < a[i])
    <3>1. \A x, y \in S : x < y => Rank(S, x) < Rank(S, y) BY RankRises
    <3>2. ~(Rank(S, a[j]) < Rank(S, a[i])) BY <1>1, <1>2
    <3> HIDE DEF a
    <3> QED BY <1>2, <2>1, <3>1, <3>2, <1>1
  <2>3. a[i] \in Int /\ a[j] \in Int BY <1>2
  <2> QED BY <2>2, <2>3
<1>5. ASSUME NEW m \in S PROVE \E i \in 1..n : a[i] = m
  <2> DEFINE A == {k \in S : k < m}
  <2>1. A \subseteq S /\ m \notin A OBVIOUS
  <2>2. Rank(S, m) \in Nat /\ Rank(S, m) + 1 \in 1..n
    BY <1>1, <2>1, FS_Subset, FS_CardinalityType DEF Rank
  <2>3. Rank(S, a[Rank(S, m) + 1]) = Rank(S, m) BY <1>2, <2>2
  <2>4. a[Rank(S, m) + 1] \in S BY <1>2, <2>2
  <2>5. a[Rank(S, m) + 1] = m
    <3>1. m \in Int /\ a[Rank(S, m) + 1] \in Int BY <2>4
    <3>2. \A x, y \in S : x < y => Rank(S, x) < Rank(S, y) BY RankRises
    <3>3. ~(Rank(S, m) < Rank(S, a[Rank(S, m) + 1])) /\ ~(Rank(S, a[Rank(S, m) + 1]) < Rank(S, m))
      BY <2>2, <2>3
    <3> HIDE DEF a
    <3>4. ~(m < a[Rank(S, m) + 1]) /\ ~(a[Rank(S, m) + 1] < m) BY <2>4, <3>2, <3>3
    <3> QED BY <3>1, <3>4
  <2> QED BY <2>2, <2>5
<1> QED BY <1>1, <1>3, <1>4, <1>5

(* t is what filtering out S leaves of s: f is where each element was.     *)
Keeps(f, t, s, S) ==
  /\ f \in [DOMAIN t -> DOMAIN s] /\ Rising(f)
  /\ \A i \in DOMAIN t : t[i] = s[f[i]] /\ s[f[i]] \notin S
  /\ \A k \in DOMAIN s : s[k] \notin S => \E i \in DOMAIN t : f[i] = k

(* Without keeps exactly the elements that are not to go, in their order.  *)
LEMMA WithoutKeeps ==
  ASSUME NEW T, NEW s \in Seq(T), NEW S
  PROVE  /\ Without(s, S) \in Seq(T)
         /\ \E f : Keeps(f, Without(s, S), s, S)
<1> DEFINE P == {i \in DOMAIN s : s[i] \notin S}
           f == Ascending(P)
           t == Without(s, S)
<1>1. P \in SUBSET Int /\ P \subseteq DOMAIN s OBVIOUS
<1>2. IsFiniteSet(P)
  <2>1. DOMAIN s = 1..Len(s) /\ Len(s) \in Nat OBVIOUS
  <2>2. IsFiniteSet(1..Len(s)) BY <2>1, FS_Interval
  <2> QED BY <1>1, <2>1, <2>2, FS_Subset
<1>3. /\ Cardinality(P) \in Nat /\ f \in [1..Cardinality(P) -> P] /\ Rising(f)
      /\ \A m \in P : \E i \in 1..Cardinality(P) : f[i] = m
  <2> HIDE DEF P
  <2> QED BY <1>1, <1>2, AscendingLists
<1>4. t = [i \in 1..Cardinality(P) |-> s[f[i]]]
  <2>1. DOMAIN f = 1..Cardinality(P) BY <1>3
  <2> QED BY <2>1 DEF Without
<1> HIDE DEF f, t
<1>5. t \in Seq(T) /\ DOMAIN t = 1..Cardinality(P)
  <2>1. \A i \in 1..Cardinality(P) : s[f[i]] \in T BY <1>1, <1>3
  <2> HIDE DEF P
  <2> QED BY <1>3, <1>4, <2>1
<1>6. f \in [DOMAIN t -> DOMAIN s] BY <1>1, <1>3, <1>5
<1>7. \A i \in DOMAIN t : t[i] = s[f[i]] /\ s[f[i]] \notin S BY <1>3, <1>4
<1>8. \A k \in DOMAIN s : s[k] \notin S => \E i \in DOMAIN t : f[i] = k BY <1>3, <1>5
<1>9. Keeps(f, t, s, S) BY <1>3, <1>6, <1>7, <1>8 DEF Keeps
<1> QED BY <1>5, <1>9 DEF t

(* What is left is what was there and was not to go; ...                   *)
LEMMA WithoutRange ==
  ASSUME NEW T, NEW s \in Seq(T), NEW S
  PROVE  Range(Without(s, S)) = Range(s) \ S
<1> DEFINE t == Without(s, S)
<1>1. PICK f : Keeps(f, t, s, S) BY WithoutKeeps
<1> HIDE DEF t
<1>2. \A i \in DOMAIN t : t[i] \in Range(s) \ S BY <1>1 DEF Range, Keeps
<1>3. \A k \in DOMAIN s : s[k] \notin S => \E i \in DOMAIN t : t[i] = s[k] BY <1>1 DEF Keeps
<1>4. Range(t) \subseteq Range(s) \ S BY <1>2 DEF Range
<1>5. Range(s) \ S \subseteq Range(t) BY <1>3 DEF Range
<1> QED BY <1>4, <1>5 DEF t

(* ... filtering brings no duplicates ...                                  *)
LEMMA WithoutDistinct ==
  ASSUME NEW T, NEW s \in Seq(T), NEW S, Distinct(s)
  PROVE  Distinct(Without(s, S))
<1> DEFINE t == Without(s, S)
<1>1. PICK f : Keeps(f, t, s, S) BY WithoutKeeps
<1>2. DOMAIN t \subseteq Int /\ DOMAIN s \subseteq Int
  <2>1. t \in Seq(T) BY WithoutKeeps
  <2> HIDE DEF t
  <2> QED BY <2>1
<1> HIDE DEF t
<1>3. ASSUME NEW i \in DOMAIN t, NEW j \in DOMAIN t, t[i] = t[j] PROVE i = j
  <2>1. f[i] = f[j] BY <1>1, <1>3 DEF Distinct, Keeps
  <2>2. DOMAIN f = DOMAIN t /\ i \in Int /\ j \in Int /\ f[i] \in Int /\ f[j] \in Int BY <1>1, <1>2 DEF Keeps
  <2>3. ~(i < j) /\ ~(j < i) BY <1>1, <2>1, <2>2 DEF Rising, Keeps
  <2> QED BY <2>2, <2>3
<1> QED BY <1>3 DEF Distinct, t

(* ... and changes no order.                                               *)
LEMMA WithoutRising ==
  ASSUME NEW T, NEW s \in Seq(T), NEW S, Rising(s)
  PROVE  Rising(Without(s, S))
<1> DEFINE t == Without(s, S)
<1>1. PICK f : Keeps(f, t, s, S) BY WithoutKeeps
<1> HIDE DEF t
<1>2. ASSUME NEW i \in DOMAIN t, NEW j \in DOMAIN t, i < j PROVE t[i] < t[j]
  <2>1. f[i] \in DOMAIN s /\ f[j] \in DOMAIN s /\ f[i] < f[j] BY <1>1, <1>2 DEF Rising, Keeps
  <2>2. s[f[i]] < s[f[j]] BY <2>1 DEF Rising
  <2> QED BY <1>1, <2>2 DEF Keeps
<1> QED BY <1>2 DEF Rising, t

(* Where the second of two joined lists is.                                *)
LEMMA ConcatRight ==
  ASSUME NEW T, NEW s \in Seq(T), NEW t \in Seq(T), NEW k \in 1..(Len(s) + Len(t)), Len(s) < k
  PROVE  k - Len(s) \in DOMAIN t /\ (s \o t)[k] = t[k - Len(s)]
OBVIOUS

(* A new element at the end of a list.                                     *)
LEMMA AppendNew ==
  ASSUME NEW T, NEW s \in Seq(T), NEW x \in T, Distinct(s), x \notin Range(s)
  PROVE  /\ Append(s, x) \in Seq(T) /\ Distinct(Append(s, x))
         /\ Range(Append(s, x)) = Range(s) \cup {x}
<1> DEFINE t == Append(s, x)
<1>1. /\ t \in Seq(T) /\ Len(s) \in Nat /\ DOMAIN s = 1..Len(s) /\ DOMAIN t = 1..(Len(s) + 1)
      /\ t[Len(s) + 1] = x /\ \A i \in 1..Len(s) : t[i] = s[i]
  OBVIOUS
<1> HIDE DEF t
<1>2. \A i \in DOMAIN s : s[i] # x BY DEF Range
<1>3. Distinct(t)
  <2> SUFFICES ASSUME NEW i \in DOMAIN t, NEW j \in DOMAIN t, t[i] = t[j] PROVE i = j
    BY DEF Distinct
  <2>1. CASE i \in DOMAIN s /\ j \in DOMAIN s BY <1>1, <2>1 DEF Distinct
  <2>2. CASE i \notin DOMAIN s \/ j \notin DOMAIN s BY <1>1, <1>2, <2>2
  <2> QED BY <2>1, <2>2
<1>4. Range(t) = Range(s) \cup {x}
  <2>1. \A y \in Range(t) : y \in Range(s) \cup {x} BY <1>1 DEF Range
  <2>2. \A y \in Range(s) \cup {x} : y \in Range(t) BY <1>1 DEF Range
  <2> QED BY <2>1, <2>2
<1> QED BY <1>1, <1>3, <1>4 DEF t

(* A new element in the place of another.                                  *)
LEMMA SwapNew ==
  ASSUME NEW T, NEW s \in Seq(T), NEW x \in T, NEW y, Distinct(s), x \notin Range(s),
         NEW t, t = [i \in DOMAIN s |-> IF s[i] = y THEN x ELSE s[i]]
  PROVE  /\ t \in Seq(T) /\ Distinct(t) /\ Range(s) \ {y} \subseteq Range(t)
         /\ Range(t) \subseteq (Range(s) \ {y}) \cup {x}
         /\ y \in Range(s) => x \in Range(t)
<1>1. Len(s) \in Nat /\ DOMAIN s = 1..Len(s) /\ \A i \in DOMAIN s : s[i] \in T OBVIOUS
<1>2. t = [i \in 1..Len(s) |-> IF s[i] = y THEN x ELSE s[i]] BY <1>1
<1>3. \A i \in 1..Len(s) : (IF s[i] = y THEN x ELSE s[i]) \in T BY <1>1
<1>4. t \in Seq(T) BY <1>1, <1>2, <1>3
<1>5. \A i \in DOMAIN s : s[i] # x BY DEF Range
<1>6. DOMAIN t = DOMAIN s /\ \A i \in DOMAIN s : t[i] = IF s[i] = y THEN x ELSE s[i] OBVIOUS
<1>7. Distinct(t) BY <1>5, <1>6 DEF Distinct
<1>8. \A z \in Range(s) \ {y} : z \in Range(t) BY <1>6 DEF Range
<1>9. \A z \in Range(t) : z \in (Range(s) \ {y}) \cup {x} BY <1>6 DEF Range
<1>10. y \in Range(s) => x \in Range(t) BY <1>6 DEF Range
<1> QED BY <1>4, <1>7, <1>8, <1>9, <1>10

(* In a rising list nothing is twice.                                      *)
LEMMA RisingIsDistinct ==
  ASSUME NEW s \in Seq(Int), Rising(s)
  PROVE  Distinct(s)
<1> SUFFICES ASSUME NEW i \in DOMAIN s, NEW j \in DOMAIN s, s[i] = s[j] PROVE i = j
  BY DEF Distinct
<1>1. i \in Int /\ j \in Int /\ s[i] \in Int OBVIOUS
<1>2. ~(i < j) /\ ~(j < i) BY <1>1 DEF Rising
<1> QED BY <1>1, <1>2

-----------------------------------------------------------------------------
(* The chat view.                                                          *)

Pages == [msgs : SUBSET Message, more : BOOLEAN]

(* MessageList's list rises, and a page that is under way is older.        *)
ListInv ==
  /\ stored \in SUBSET Message
  /\ fetched \in Seq(Message) /\ Rising(fetched)
  /\ load \in [pc : {"idle", "first", "more"}, before : 1..Top, page : {None} \cup Pages]
  /\ load.pc = "more" => \A i \in DOMAIN fetched : load.before <= fetched[i]
  /\ load.page # None => load.page \in Pages /\ \A m \in load.page.msgs : m < load.before

(* extraMessages has nothing twice, the placeholder only while a message   *)
(* is being sent, and all that an event or a 201 brought.                  *)
ExtrasInv ==
  /\ extras \in Seq(Message \cup {Temp}) /\ Distinct(extras)
  /\ post \in [pc : {"idle", "sent", "created", "failed"}, id : Message \cup {None}]
  /\ post.pc = "created" => post.id \in Message
  /\ (Temp \in Range(extras)) <=> (post.pc # "idle")
  /\ heard \in SUBSET Message /\ heard \subseteq Range(extras)

ViewInv == ListInv /\ ExtrasInv

(* Ids are numbers, and the opt-... id is none of them.                    *)
LEMMA MessagesFinite == IsFiniteSet(Message) /\ Message \subseteq Int /\ Temp \notin Message
BY ViewAssumption, FS_Interval DEF Message

(* A channel just opened.                                                  *)
LEMMA ViewInitial == Init => ViewInv
<1> SUFFICES ASSUME Init PROVE ViewInv OBVIOUS
<1>1. Top \in 1..Top BY ViewAssumption DEF Top
<1>2. load = [pc |-> "first", before |-> Top, page |-> None] BY DEF Init, Idle
<1>3. ListInv
  <2>1. fetched \in Seq(Message) /\ Rising(fetched) /\ stored \in SUBSET Message BY DEF Init, Rising
  <2>2. /\ load \in [pc : {"idle", "first", "more"}, before : 1..Top, page : {None} \cup Pages]
        /\ load.pc = "first" /\ load.page = None
    BY <1>1, <1>2
  <2> QED BY <2>1, <2>2 DEF ListInv
<1>4. ExtrasInv BY DEF Init, ExtrasInv, Distinct, Range
<1> QED BY <1>3, <1>4 DEF ViewInv

(* A page holds stored messages older than its cursor.                     *)
LEMMA PageIsOlder ==
  ASSUME stored \in SUBSET Message, NEW b \in Int
  PROVE  /\ ListPage(stored, deleted, b, Limit) \in Pages
         /\ \A m \in ListPage(stored, deleted, b, Limit).msgs : m < b
<1> DEFINE rows == Newest({m \in stored : m < b}, Limit + 1)
           live == rows \ deleted
           p == ListPage(stored, deleted, b, Limit)
<1>1. p = [msgs |-> Newest(live, Limit), more |-> Cardinality(live) > Limit] BY DEF ListPage
<1>2. rows \subseteq {m \in stored : m < b} BY DEF Newest
<1> HIDE DEF rows
<1>3. Newest(live, Limit) \subseteq live BY DEF Newest
<1>4. \A m \in Newest(live, Limit) : m \in Message /\ m < b BY <1>2, <1>3
<1> HIDE DEF live, p
<1>5. (Cardinality(live) > Limit) \in BOOLEAN OBVIOUS
<1> QED BY <1>1, <1>4, <1>5 DEF Pages, p

(* What the list and the GET in progress keep.                             *)
LEMMA ListStep ==
  ASSUME ViewInv, [Next]_vars
  PROVE  ListInv'
<1> USE DEF ViewInv
<1>1. ASSUME stored' \in SUBSET Message, UNCHANGED listVars PROVE ListInv'
  BY <1>1 DEF ListInv, listVars
<1>2. ASSUME NEW m \in Message, OtherSends(m) \/ PostCreate(m) PROVE ListInv'
  BY <1>1, <1>2 DEF OtherSends, PostCreate, Create, ListInv
<1>3. ASSUME FetchRead PROVE ListInv'
  <2> DEFINE p == ListPage(stored, deleted, load.before, Limit)
  <2>1. /\ load' = [load EXCEPT !.page = p] /\ UNCHANGED <<stored, fetched>>
    BY <1>3 DEF FetchRead, serverVars
  <2>2. load.before \in 1..Top /\ load.before \in Int BY ViewAssumption DEF ListInv, Top
  <2>3. p \in Pages /\ \A m \in p.msgs : m < load.before BY <2>2, PageIsOlder DEF ListInv
  <2> HIDE DEF p
  <2>4. /\ load' \in [pc : {"idle", "first", "more"}, before : 1..Top, page : {None} \cup Pages]
        /\ load'.pc = load.pc /\ load'.before = load.before /\ load'.page = p
    BY <2>1, <2>3 DEF ListInv
  <2> QED BY <2>1, <2>3, <2>4 DEF ListInv
<1>4. ASSUME load' = Idle, UNCHANGED stored, fetched' \in Seq(Message), Rising(fetched') PROVE ListInv'
  <2>1. Top \in 1..Top BY ViewAssumption DEF Top
  <2>2. /\ load' \in [pc : {"idle", "first", "more"}, before : 1..Top, page : {None} \cup Pages]
        /\ load'.pc = "idle" /\ load'.page = None
    BY <1>4, <2>1 DEF Idle
  <2> QED BY <1>4, <2>2 DEF ListInv
<1>5. ASSUME FetchArrive PROVE ListInv'
  <2> DEFINE S == load.page.msgs
             older == Ascending(S)
  <2>1. /\ load.pc # "idle" /\ load.page # None /\ load' = Idle /\ UNCHANGED stored
        /\ fetched' = IF load.pc = "first" THEN older ELSE older \o fetched
    BY <1>5 DEF FetchArrive, serverVars
  <2>2. S \in SUBSET Message /\ \A m \in S : m < load.before BY <2>1 DEF ListInv, Pages
  <2>3. IsFiniteSet(S) /\ S \in SUBSET Int BY <2>2, MessagesFinite, FS_Subset
  <2> HIDE DEF S
  <2>4. Cardinality(S) \in Nat /\ older \in [1..Cardinality(S) -> S] /\ Rising(older)
    BY <2>3, AscendingLists
  <2> HIDE DEF older
  <2>5. older \in Seq(Message) /\ Len(older) = Cardinality(S) BY <2>2, <2>4
  <2>6. CASE load.pc = "first"
    BY <1>4, <2>1, <2>4, <2>5, <2>6
  <2>7. CASE load.pc # "first"
    <3>1. fetched' = older \o fetched BY <2>1, <2>7
    <3>2. fetched \in Seq(Message) /\ Rising(fetched) /\ \A i \in DOMAIN fetched : load.before <= fetched[i]
      BY <2>1, <2>7 DEF ListInv
    <3>3. Rising(older \o fetched)
      <4> DEFINE n == Len(older)
      <4> SUFFICES ASSUME NEW i \in 1..(n + Len(fetched)), NEW j \in 1..(n + Len(fetched)), i < j
                   PROVE  (older \o fetched)[i] < (older \o fetched)[j]
        BY <2>5, <3>2 DEF Rising
      <4>1. n \in Nat /\ Len(fetched) \in Nat /\ DOMAIN older = 1..n /\ DOMAIN fetched = 1..Len(fetched)
        BY <2>5, <3>2
      <4>2. CASE j <= n
        BY <2>4, <2>5, <3>2, <4>1, <4>2 DEF Rising
      <4>3. CASE i <= n /\ n < j
        <5>1. older[i] \in S BY <2>4, <2>5, <4>3
        <5>2. j - n \in DOMAIN fetched BY <4>1, <4>3
        <5>3. /\ older[i] \in Int /\ fetched[j - n] \in Int /\ load.before \in Int
              /\ older[i] < load.before /\ load.before <= fetched[j - n]
          <6>1. older[i] \in Message /\ older[i] < load.before BY <2>2, <5>1
          <6>2. fetched[j - n] \in Message /\ load.before <= fetched[j - n] BY <3>2, <5>2
          <6>3. load.before \in 1..Top /\ Top \in Int BY ViewAssumption DEF ListInv, Top
          <6> QED BY <6>1, <6>2, <6>3, ViewAssumption DEF Message
        <5>4. (older \o fetched)[i] = older[i] /\ (older \o fetched)[j] = fetched[j - n]
          BY <2>5, <3>2, <4>1, <4>3
        <5> QED BY <5>3, <5>4
      <4>4. CASE n < i
        <5>1. i - n \in DOMAIN fetched /\ j - n \in DOMAIN fetched /\ i - n < j - n BY <4>1, <4>4
        <5>2. n < j /\ n < i BY <4>1, <4>4
        <5>3. (older \o fetched)[i] = fetched[i - n] BY <2>5, <3>2, <5>2, ConcatRight
        <5>4. (older \o fetched)[j] = fetched[j - n] BY <2>5, <3>2, <5>2, ConcatRight
        <5>5. fetched[i - n] < fetched[j - n] BY <3>2, <5>1 DEF Rising
        <5> QED BY <5>3, <5>4, <5>5
      <4> QED BY <4>1, <4>2, <4>3, <4>4
    <3>4. older \o fetched \in Seq(Message) BY <2>5, <3>2
    <3> QED BY <1>4, <2>1, <3>1, <3>3, <3>4
  <2> QED BY <2>6, <2>7
<1>6. ASSUME FetchFail PROVE ListInv'
  BY <1>4, <1>6 DEF FetchFail, ListInv, serverVars
<1>7. ASSUME LoadMore PROVE ListInv'
  <2>1. /\ fetched # <<>> /\ load' = [pc |-> "more", before |-> fetched[1], page |-> None]
        /\ UNCHANGED <<stored, fetched>>
    BY <1>7 DEF LoadMore, serverVars
  <2>2. fetched \in Seq(Message) /\ Rising(fetched) BY DEF ListInv
  <2>3. 1 \in DOMAIN fetched /\ fetched[1] \in Message BY <2>1, <2>2
  <2>4. fetched[1] \in 1..Top BY <2>3, ViewAssumption DEF Message, Top
  <2>5. \A i \in DOMAIN fetched : fetched[1] <= fetched[i]
    <3> TAKE i \in DOMAIN fetched
    <3>1. i \in Int /\ 1 <= i /\ fetched[i] \in Int /\ fetched[1] \in Int
      <4>1. i \in 1..Len(fetched) /\ Len(fetched) \in Nat /\ fetched[i] \in Message BY <2>2
      <4> QED BY <2>3, <4>1, ViewAssumption DEF Message
    <3>2. 1 < i => fetched[1] < fetched[i] BY <2>2, <2>3 DEF Rising
    <3> QED BY <3>1, <3>2
  <2>6. /\ load' \in [pc : {"idle", "first", "more"}, before : 1..Top, page : {None} \cup Pages]
        /\ load'.pc = "more" /\ load'.before = fetched[1] /\ load'.page = None
    BY <2>1, <2>4
  <2> QED BY <2>1, <2>2, <2>5, <2>6 DEF ListInv
<1>8. ASSUME NEW m \in Message, DeleteAnswer(m) PROVE ListInv'
  <2>1. fetched' = Without(fetched, {m}) /\ UNCHANGED <<stored, load>>
    BY <1>8 DEF DeleteAnswer, serverVars
  <2>2. fetched \in Seq(Message) /\ Rising(fetched) BY DEF ListInv
  <2>3. fetched' \in Seq(Message) BY <2>1, <2>2, WithoutKeeps
  <2>4. Rising(fetched') BY <2>1, <2>2, WithoutRising
  <2>5. Range(fetched') = Range(fetched) \ {m} BY <2>1, <2>2, WithoutRange
  <2>6. \A i \in DOMAIN fetched' : \E j \in DOMAIN fetched : fetched'[i] = fetched[j]
    BY <2>5 DEF Range
  <2>7. ASSUME load'.pc = "more", NEW i \in DOMAIN fetched' PROVE load'.before <= fetched'[i]
    BY <2>1, <2>6, <2>7 DEF ListInv
  <2> QED BY <2>1, <2>3, <2>4, <2>7 DEF ListInv
<1>9. ASSUME \/ Send \/ PostFails \/ PostAnswer \/ PostError \/ WsOpen \/ WsSubscribed \/ WsClose
      PROVE  ListInv'
  BY <1>1, <1>9 DEF Send, PostFails, PostAnswer, PostError, WsOpen, WsSubscribed, WsClose, serverVars, ListInv
<1>10. ASSUME NEW m \in Message,
              \/ FanoutQuery(m) \/ FanoutDeliver(m) \/ FanoutLost(m)
              \/ Delete(m) \/ DeleteServe(m) \/ DeleteFail(m)
       PROVE  ListInv'
  BY <1>1, <1>10 DEF FanoutQuery, FanoutDeliver, FanoutLost, Delete, DeleteServe, DeleteFail, serverVars, ListInv
<1>11. ASSUME UNCHANGED vars PROVE ListInv'
  BY <1>1, <1>11 DEF vars, serverVars, ListInv
<1> QED BY <1>2, <1>3, <1>5, <1>6, <1>7, <1>8, <1>9, <1>10, <1>11 DEF Next

(* What extraMessages keeps.                                               *)
LEMMA ExtrasStep ==
  ASSUME ViewInv, [Next]_vars
  PROVE  ExtrasInv'
<1> DEFINE T == Message \cup {Temp}
<1>0. /\ extras \in Seq(T) /\ Distinct(extras) /\ heard \subseteq Range(extras) /\ heard \in SUBSET Message
      /\ Temp \notin Message
      /\ post \in [pc : {"idle", "sent", "created", "failed"}, id : Message \cup {None}]
  BY MessagesFinite DEF ViewInv, ExtrasInv
<1>1. ASSUME UNCHANGED <<extras, post, heard>> PROVE ExtrasInv'
  BY <1>1 DEF ViewInv, ExtrasInv
<1>2. ASSUME Send PROVE ExtrasInv'
  <2>1. /\ post.pc = "idle" /\ extras' = Append(extras, Temp) /\ UNCHANGED heard
        /\ post' = [pc |-> "sent", id |-> None]
    BY <1>2 DEF Send
  <2>2. Temp \notin Range(extras) /\ Temp \in T BY <2>1 DEF ViewInv, ExtrasInv
  <2>3. extras' \in Seq(T) /\ Distinct(extras') /\ Range(extras') = Range(extras) \cup {Temp}
    BY <1>0, <2>1, <2>2, AppendNew
  <2>4. /\ post' \in [pc : {"idle", "sent", "created", "failed"}, id : Message \cup {None}]
        /\ post'.pc = "sent"
    BY <2>1
  <2> QED BY <1>0, <2>1, <2>3, <2>4 DEF ExtrasInv
<1>3. ASSUME NEW m \in Message, PostCreate(m) PROVE ExtrasInv'
  <2>1. post.pc = "sent" /\ post' = [pc |-> "created", id |-> m] /\ UNCHANGED <<extras, heard>>
    BY <1>3 DEF PostCreate
  <2>2. /\ post' \in [pc : {"idle", "sent", "created", "failed"}, id : Message \cup {None}]
        /\ post'.pc = "created" /\ post'.id \in Message
    BY <2>1
  <2> QED BY <1>0, <2>1, <2>2 DEF ViewInv, ExtrasInv
<1>4. ASSUME PostFails PROVE ExtrasInv'
  <2>1. /\ post.pc \in {"sent", "created"} /\ post' = [post EXCEPT !.pc = "failed"]
        /\ UNCHANGED <<extras, heard>>
    BY <1>4 DEF PostFails
  <2>2. /\ post' \in [pc : {"idle", "sent", "created", "failed"}, id : Message \cup {None}]
        /\ post'.pc = "failed"
    BY <1>0, <2>1
  <2> QED BY <1>0, <2>1, <2>2 DEF ViewInv, ExtrasInv
<1>5. ASSUME post' = [pc |-> "idle", id |-> None], extras' \in Seq(T), Distinct(extras'),
             Temp \notin Range(extras'), heard' \in SUBSET Message, heard' \subseteq Range(extras')
      PROVE  ExtrasInv'
  <2>1. /\ post' \in [pc : {"idle", "sent", "created", "failed"}, id : Message \cup {None}]
        /\ post'.pc = "idle"
    BY <1>5
  <2> QED BY <1>5, <2>1 DEF ExtrasInv
<1>6. ASSUME extras' = Without(extras, {Temp}), post' = [pc |-> "idle", id |-> None],
             heard' \in SUBSET Message, heard' \subseteq Range(extras)
      PROVE  ExtrasInv'
  <2>1. extras' \in Seq(T) BY <1>0, <1>6, WithoutKeeps
  <2>2. Distinct(extras') BY <1>0, <1>6, WithoutDistinct
  <2>3. Range(extras') = Range(extras) \ {Temp} BY <1>0, <1>6, WithoutRange
  <2>4. heard' \subseteq Range(extras') /\ Temp \notin Range(extras') BY <1>0, <1>6, <2>3
  <2> QED BY <1>5, <1>6, <2>1, <2>2, <2>4
<1>7. ASSUME PostAnswer PROVE ExtrasInv'
  <2>1. /\ post.pc = "created" /\ post' = [pc |-> "idle", id |-> None]
        /\ heard' = heard \cup {post.id}
        /\ extras' = IF post.id \in Range(extras)
                       THEN Without(extras, {Temp})
                       ELSE [i \in DOMAIN extras |-> IF extras[i] = Temp THEN post.id ELSE extras[i]]
    BY <1>7 DEF PostAnswer
  <2>2. post.id \in Message /\ Temp \in Range(extras) BY <2>1 DEF ViewInv, ExtrasInv
  <2>3. heard' \in SUBSET Message BY <1>0, <2>1, <2>2
  <2>4. CASE post.id \in Range(extras) BY <1>0, <1>6, <2>1, <2>3, <2>4
  <2>5. CASE post.id \notin Range(extras)
    <3>1. /\ extras' \in Seq(T) /\ Distinct(extras')
          /\ Range(extras) \ {Temp} \subseteq Range(extras')
          /\ Range(extras') \subseteq (Range(extras) \ {Temp}) \cup {post.id}
          /\ post.id \in Range(extras')
      <4>1. extras' = [i \in DOMAIN extras |-> IF extras[i] = Temp THEN post.id ELSE extras[i]]
        BY <2>1, <2>5
      <4>2. post.id \in T BY <2>2
      <4> HIDE DEF T
      <4> QED BY <1>0, <2>2, <2>5, <4>1, <4>2, SwapNew
    <3>2. Temp \notin Range(extras') /\ heard' \subseteq Range(extras') BY <1>0, <2>1, <2>2, <3>1
    <3> QED BY <1>5, <2>1, <2>3, <3>1, <3>2
  <2> QED BY <2>4, <2>5
<1>8. ASSUME PostError PROVE ExtrasInv'
  BY <1>0, <1>6, <1>8 DEF PostError
<1>9. ASSUME NEW m \in Message, FanoutDeliver(m) PROVE ExtrasInv'
  <2>1. /\ extras' = IF m \in Range(extras) THEN extras ELSE Append(extras, m)
        /\ heard' = heard \cup {m} /\ UNCHANGED post
    BY <1>9 DEF FanoutDeliver
  <2>2. /\ extras' \in Seq(T) /\ Distinct(extras') /\ Range(extras') = Range(extras) \cup {m}
    <3>1. CASE m \in Range(extras) BY <1>0, <2>1, <3>1
    <3>2. CASE m \notin Range(extras)
      <4>1. extras' = Append(extras, m) /\ m \in T BY <2>1, <3>2
      <4> HIDE DEF T
      <4> QED BY <1>0, <3>2, <4>1, AppendNew
    <3> QED BY <3>1, <3>2
  <2>3. m # Temp BY <1>0
  <2>4. (Temp \in Range(extras')) <=> (Temp \in Range(extras)) BY <2>2, <2>3
  <2>5. heard' \in SUBSET Message /\ heard' \subseteq Range(extras') BY <1>0, <2>1, <2>2
  <2> QED BY <1>0, <2>1, <2>2, <2>4, <2>5 DEF ViewInv, ExtrasInv
<1>10. ASSUME NEW m \in Message,
              \/ OtherSends(m) \/ FanoutQuery(m) \/ FanoutLost(m)
              \/ Delete(m) \/ DeleteServe(m) \/ DeleteFail(m) \/ DeleteAnswer(m)
       PROVE  ExtrasInv'
  BY <1>1, <1>10 DEF OtherSends, FanoutQuery, FanoutLost, Delete, DeleteServe, DeleteFail, DeleteAnswer
<1>11. ASSUME \/ WsOpen \/ WsSubscribed \/ WsClose
              \/ FetchRead \/ FetchArrive \/ FetchFail \/ LoadMore \/ UNCHANGED vars
       PROVE  ExtrasInv'
  BY <1>1, <1>11 DEF WsOpen, WsSubscribed, WsClose, FetchRead, FetchArrive, FetchFail, LoadMore, vars
<1> QED BY <1>2, <1>3, <1>4, <1>7, <1>8, <1>9, <1>10, <1>11 DEF Next

(* Every state of the view.                                                *)
LEMMA ViewInvariant == Spec => []ViewInv
<1>1. ViewInv /\ [Next]_vars => ViewInv' BY ListStep, ExtrasStep DEF ViewInv
<1> QED BY <1>1, ViewInitial, PTL DEF Spec

(* For any number of messages and any page size no message is listed       *)
(* twice, in whatever order the pages of the history, the answer to a POST *)
(* and the event of a message arrive (the merge in MessageList and the     *)
(* swap in handleSend).                                                    *)
THEOREM NothingListedTwice == Spec => []NoDuplicates
<1>1. ViewInv => NoDuplicates
  <2> SUFFICES ASSUME ViewInv PROVE NoDuplicates OBVIOUS
  <2> DEFINE T == Message \cup {Temp}
             more == Without(extras, Range(fetched))
             n == Len(fetched)
  <2>1. fetched \in Seq(T) /\ Distinct(fetched)
    <3>1. fetched \in Seq(Message) /\ Rising(fetched) BY DEF ViewInv, ListInv
    <3>2. fetched \in Seq(Int) /\ fetched \in Seq(T)
      <4>1. DOMAIN fetched = 1..Len(fetched) /\ Len(fetched) \in Nat
            /\ \A i \in 1..Len(fetched) : fetched[i] \in Message /\ fetched[i] \in T /\ fetched[i] \in Int
        BY <3>1, ViewAssumption DEF Message
      <4> HIDE DEF T
      <4> QED BY <3>1, <4>1
    <3> QED BY <3>1, <3>2, RisingIsDistinct
  <2>2. extras \in Seq(T) /\ Distinct(extras) BY DEF ViewInv, ExtrasInv
  <2>3. more \in Seq(T) BY <2>2, WithoutKeeps
  <2>4. Distinct(more) BY <2>2, WithoutDistinct
  <2>5. \A i \in DOMAIN fetched : \A k \in DOMAIN more : fetched[i] # more[k]
    <3>1. Range(more) = Range(extras) \ Range(fetched) BY <2>2, WithoutRange
    <3> HIDE DEF more
    <3> QED BY <3>1 DEF Range
  <2> HIDE DEF more, T
  <2>6. /\ n \in Nat /\ Len(more) \in Nat
        /\ DOMAIN fetched = 1..n /\ DOMAIN more = 1..Len(more)
        /\ DOMAIN (fetched \o more) = 1..(n + Len(more))
    BY <2>1, <2>3
  <2>7. \A i \in 1..n : (fetched \o more)[i] = fetched[i] BY <2>1, <2>3
  <2>8. \A k \in 1..(n + Len(more)) : n < k => k - n \in DOMAIN more /\ (fetched \o more)[k] = more[k - n]
    BY <2>1, <2>3, ConcatRight
  <2>9. ASSUME NEW i \in DOMAIN (fetched \o more), NEW j \in DOMAIN (fetched \o more),
               (fetched \o more)[i] = (fetched \o more)[j]
        PROVE  i = j
    <3>1. i \in Int /\ j \in Int /\ 1 <= i /\ 1 <= j BY <2>6
    <3> HIDE DEF n
    <3>2. CASE i <= n /\ j <= n
      <4>1. i \in 1..n /\ j \in 1..n BY <2>6, <3>1, <3>2
      <4> QED BY <2>1, <2>6, <2>7, <2>9, <4>1 DEF Distinct
    <3>3. CASE n < i /\ n < j
      <4>1. more[i - n] = more[j - n] /\ i - n \in DOMAIN more /\ j - n \in DOMAIN more
        BY <2>6, <2>8, <2>9, <3>3
      <4>2. i - n = j - n BY <2>4, <4>1 DEF Distinct
      <4> QED BY <2>6, <3>1, <4>2
    <3>4. CASE i <= n /\ n < j
      <4>1. i \in DOMAIN fetched /\ i \in 1..n BY <2>6, <3>1, <3>4
      <4> QED BY <2>5, <2>6, <2>7, <2>8, <2>9, <3>4, <4>1
    <3>5. CASE n < i /\ j <= n
      <4>1. j \in DOMAIN fetched /\ j \in 1..n BY <2>6, <3>1, <3>5
      <4> QED BY <2>5, <2>6, <2>7, <2>8, <2>9, <3>5, <4>1
    <3> QED BY <2>6, <3>1, <3>2, <3>3, <3>4, <3>5
  <2> QED BY <2>9 DEF NoDuplicates, allMessages, more
<1> QED BY <1>1, ViewInvariant, PTL

(* What an event or a 201 told the view of stays on the screen until its   *)
(* deletion is confirmed: no late page, answer or merge takes it away.     *)
THEOREM HeardIsKept == Spec => []HeardStaysVisible
<1>1. ViewInv => HeardStaysVisible
  <2> SUFFICES ASSUME ViewInv, NEW m \in heard PROVE m \in Shown
    BY DEF HeardStaysVisible
  <2> DEFINE T == Message \cup {Temp}
             more == Without(extras, Range(fetched))
             n == Len(fetched)
  <2>1. fetched \in Seq(Message) /\ extras \in Seq(T) /\ m \in Range(extras)
    BY DEF ViewInv, ListInv, ExtrasInv
  <2>2. more \in Seq(T) /\ Range(more) = Range(extras) \ Range(fetched)
    BY <2>1, WithoutKeeps, WithoutRange
  <2> HIDE DEF more
  <2>3. CASE m \in Range(fetched)
    <3>1. PICK i \in 1..n : fetched[i] = m BY <2>1, <2>3 DEF Range
    <3>2. i \in DOMAIN (fetched \o more) /\ (fetched \o more)[i] = m BY <2>1, <2>2, <3>1
    <3> QED BY <3>2 DEF Shown, allMessages, Range, more
  <2>4. CASE m \notin Range(fetched)
    <3>1. PICK i \in 1..Len(more) : more[i] = m
      <4>1. m \in Range(more) /\ DOMAIN more = 1..Len(more) BY <2>1, <2>2, <2>4
      <4> QED BY <4>1 DEF Range
    <3>2. n + i \in DOMAIN (fetched \o more) /\ (fetched \o more)[n + i] = m BY <2>1, <2>2, <3>1
    <3> QED BY <3>2 DEF Shown, allMessages, Range, more
  <2> QED BY <2>3, <2>4
<1> QED BY <1>1, ViewInvariant, PTL

-----------------------------------------------------------------------------
(* The desktop app.                                                        *)

MainMsg == [type : {"get"}] \cup [type : {"set"}, enabled : BOOLEAN]
             \cup [type : {"show"}, ch : Channel, wanted : BOOLEAN]
PageMsg == [type : {"pref"}, enabled : BOOLEAN] \cup [type : {"navigate"}, ch : Channel]

(* The positions of the settings queued for main.                          *)
Sets(q) == {k \in DOMAIN q : q[k].type = "set"}

(* A mention is queued behind the setting that held when it arrived: the   *)
(* last one queued before it, or the stored one.  So is what the user      *)
(* wants, behind all of them.                                              *)
Obeys(q, stores, wish) ==
  /\ \A i \in DOMAIN q : \A j \in Sets(q) :
       (q[i].type = "show" /\ j < i /\ \A k \in Sets(q) : ~(j < k /\ k < i)) => q[i].wanted = q[j].enabled
  /\ \A i \in DOMAIN q :
       (q[i].type = "show" /\ \A k \in Sets(q) : ~(k < i)) => q[i].wanted = stores
  /\ \A j \in Sets(q) : (\A k \in Sets(q) : ~(j < k)) => wish = q[j].enabled
  /\ Sets(q) = {} => wish = stores

Carries(q, type) == \E i \in DOMAIN q : q[i].type = type
Asked(q) == Carries(q, "get")
Answered(q) == Carries(q, "pref")

(* No setting is queued behind the question for the preference.            *)
AskedLast(q) == \A i \in DOMAIN q : \A k \in Sets(q) : q[i].type = "get" => ~(i < k)

(* Every answer tells the page b.                                          *)
Tells(q, b) == \A i \in DOMAIN q : q[i].type = "pref" => q[i].enabled = b

(* The question for the preference and its answer are under way only for a *)
(* page that is up.  Unless the bell was used meanwhile, no setting is     *)
(* behind the question, the answer is what the user wants, and so is the   *)
(* bell once the answer has come.                                          *)
BellInv ==
  /\ page # "app" => ~Asked(toMain) /\ ~Answered(toPage)
  /\ ~early =>
       /\ AskedLast(toMain) /\ Tells(toPage, wants)
       /\ (page = "app" /\ ~Asked(toMain) /\ ~Answered(toPage)) => bell = wants

DesktopType ==
  /\ toMain \in Seq(MainMsg) /\ toPage \in Seq(PageMsg)
  /\ store \in BOOLEAN /\ wants \in BOOLEAN /\ bell \in BOOLEAN
  /\ notes \in SUBSET Channel

DesktopInv == DesktopType /\ Obeys(toMain, store, wants) /\ BellInv

(* Without the question, the queue obeys as before.                        *)
LEMMA LoadObeys ==
  ASSUME NEW q \in Seq(MainMsg), NEW b, NEW w, Obeys(q, b, w)
  PROVE  LET t == Without(q, {[type |-> "get"]})
         IN t \in Seq(MainMsg) /\ Obeys(t, b, w) /\ ~Asked(t)
<1> DEFINE S == {[type |-> "get"]}
           t == Without(q, S)
<1> HIDE DEF S
<1>1. t \in Seq(MainMsg) BY WithoutKeeps
<1>2. PICK f : Keeps(f, t, q, S) BY WithoutKeeps
<1> HIDE DEF t
<1>3. DOMAIN t = 1..Len(t) /\ Len(t) \in Nat /\ DOMAIN q = 1..Len(q) /\ Len(q) \in Nat BY <1>1
<1>4. \A i, j \in DOMAIN t : f[i] < f[j] <=> i < j
  <2> TAKE i, j \in DOMAIN t
  <2>1. i \in Int /\ j \in Int /\ f[i] \in Int /\ f[j] \in Int BY <1>2, <1>3 DEF Keeps
  <2>2. /\ i < j => f[i] < f[j]
        /\ j < i => f[j] < f[i]
    BY <1>2 DEF Rising, Keeps
  <2> QED BY <2>1, <2>2
<1>5. \A i \in DOMAIN t : f[i] \in DOMAIN q /\ t[i] = q[f[i]] BY <1>2 DEF Keeps
<1>6. \A i \in Sets(t) : f[i] \in Sets(q) BY <1>5 DEF Sets
<1>7. \A k \in Sets(q) : \E i \in Sets(t) : f[i] = k
  <2> TAKE k \in Sets(q)
  <2>1. k \in DOMAIN q /\ q[k].type = "set" /\ [type |-> "get"].type = "get" BY DEF Sets
  <2>2. PICK i \in DOMAIN t : f[i] = k BY <1>2, <2>1 DEF S, Keeps
  <2> QED BY <1>5, <2>1, <2>2 DEF Sets
<1>8. \A i \in Sets(t) : i \in DOMAIN t BY DEF Sets
<1>9. ~Asked(t)
  <2> SUFFICES ASSUME NEW i \in DOMAIN t, t[i].type = "get" PROVE FALSE BY DEF Asked, Carries
  <2>1. t[i] \in MainMsg BY <1>1
  <2>2. t[i] = [type |-> "get"] BY <2>1 DEF MainMsg
  <2> QED BY <1>2, <2>2 DEF S, Keeps
<1>10. Obeys(t, b, w)
  <2>1. ASSUME NEW i \in DOMAIN t, NEW j \in Sets(t), t[i].type = "show", j < i,
               \A k \in Sets(t) : ~(j < k /\ k < i)
        PROVE  t[i].wanted = t[j].enabled
    <3>1. f[i] \in DOMAIN q /\ f[j] \in Sets(q) /\ q[f[i]].type = "show" /\ f[j] < f[i]
      BY <1>4, <1>5, <1>6, <1>8, <2>1
    <3>2. \A k \in Sets(q) : ~(f[j] < k /\ k < f[i]) BY <1>4, <1>7, <1>8, <2>1
    <3>3. q[f[i]].wanted = q[f[j]].enabled BY <3>1, <3>2 DEF Obeys
    <3> QED BY <1>5, <1>8, <3>3
  <2>2. ASSUME NEW i \in DOMAIN t, t[i].type = "show", \A k \in Sets(t) : ~(k < i)
        PROVE  t[i].wanted = b
    <3>1. f[i] \in DOMAIN q /\ q[f[i]].type = "show" BY <1>5, <2>2
    <3>2. \A k \in Sets(q) : ~(k < f[i]) BY <1>4, <1>7, <1>8, <2>2
    <3>3. q[f[i]].wanted = b BY <3>1, <3>2 DEF Obeys
    <3> QED BY <1>5, <3>3
  <2>3. ASSUME NEW j \in Sets(t), \A k \in Sets(t) : ~(j < k)
        PROVE  w = t[j].enabled
    <3>1. \A k \in Sets(q) : ~(f[j] < k) BY <1>4, <1>7, <1>8, <2>3
    <3>2. w = q[f[j]].enabled BY <1>6, <3>1 DEF Obeys
    <3> QED BY <1>5, <1>8, <3>2
  <2>4. Sets(t) = {} => w = b BY <1>7 DEF Obeys
  <2> QED BY <2>1, <2>2, <2>3, <2>4 DEF Obeys
<1> QED BY <1>1, <1>9, <1>10 DEF t, S

(* Positions of a queue with one more message ...                          *)
LEMMA AppendPlaces ==
  ASSUME NEW T, NEW q \in Seq(T), NEW x \in T, NEW t, t = Append(q, x)
  PROVE  /\ t \in Seq(T) /\ Len(q) \in Nat /\ DOMAIN q = 1..Len(q) /\ DOMAIN t = 1..(Len(q) + 1)
         /\ t[Len(q) + 1] = x /\ \A i \in DOMAIN q : t[i] = q[i]
OBVIOUS

(* ... and with its first message taken.                                   *)
LEMMA TailPlaces ==
  ASSUME NEW T, NEW q \in Seq(T), q # <<>>, NEW t, t = Tail(q)
  PROVE  /\ t \in Seq(T) /\ Len(q) \in Nat /\ DOMAIN q = 1..Len(q) /\ DOMAIN t = 1..(Len(q) - 1)
         /\ 1 \in DOMAIN q /\ Head(q) = q[1] /\ \A i \in DOMAIN t : i + 1 \in DOMAIN q /\ t[i] = q[i + 1]
OBVIOUS

(* A message other than a setting that carries what the user wants.        *)
LEMMA AppendObeys ==
  ASSUME NEW q \in Seq(MainMsg), NEW x \in MainMsg, NEW b, NEW w, Obeys(q, b, w),
         x.type # "set", x.type = "show" => x.wanted = w
  PROVE  Obeys(Append(q, x), b, w) /\ Sets(Append(q, x)) = Sets(q)
<1> DEFINE t == Append(q, x)
           n == Len(q)
<1>1. /\ n \in Nat /\ DOMAIN q = 1..n /\ DOMAIN t = 1..(n + 1)
      /\ t[n + 1] = x /\ \A i \in DOMAIN q : t[i] = q[i]
  BY AppendPlaces
<1> HIDE DEF t, n
<1>2. Sets(t) = Sets(q)
  <2>1. \A i \in DOMAIN t : i \in DOMAIN q \/ i = n + 1 BY <1>1
  <2>2. \A i \in Sets(t) : i \in Sets(q) BY <1>1, <2>1 DEF Sets
  <2>3. \A i \in Sets(q) : i \in Sets(t) BY <1>1 DEF Sets
  <2> QED BY <2>2, <2>3
<1>3. \A k \in Sets(q) : k \in DOMAIN q /\ k \in Int /\ k < n + 1 BY <1>1 DEF Sets
<1>4. ASSUME NEW i \in DOMAIN t, NEW j \in Sets(q), t[i].type = "show", j < i,
             \A k \in Sets(q) : ~(j < k /\ k < i)
      PROVE  t[i].wanted = t[j].enabled
  <2>1. CASE i \in DOMAIN q BY <1>1, <1>3, <1>4, <2>1 DEF Obeys
  <2>2. CASE i = n + 1
    <3>1. \A k \in Sets(q) : ~(j < k) BY <1>3, <1>4, <2>2
    <3>2. w = q[j].enabled BY <3>1 DEF Obeys
    <3> QED BY <1>1, <1>3, <1>4, <2>2, <3>2
  <2> QED BY <1>1, <2>1, <2>2
<1>5. ASSUME NEW i \in DOMAIN t, t[i].type = "show", \A k \in Sets(q) : ~(k < i)
      PROVE  t[i].wanted = b
  <2>1. CASE i \in DOMAIN q BY <1>1, <1>5, <2>1 DEF Obeys
  <2>2. CASE i = n + 1
    <3>1. Sets(q) = {} BY <1>3, <1>5, <2>2
    <3>2. w = b BY <3>1 DEF Obeys
    <3> QED BY <1>1, <1>5, <2>2, <3>2
  <2> QED BY <1>1, <2>1, <2>2
<1>6. \A j \in Sets(q) : t[j].enabled = q[j].enabled BY <1>1, <1>3
<1>7. Obeys(t, b, w)
  <2>1. \A j \in Sets(q) : (\A k \in Sets(q) : ~(j < k)) => w = t[j].enabled BY <1>6 DEF Obeys
  <2>2. Sets(q) = {} => w = b BY DEF Obeys
  <2> QED BY <1>2, <1>4, <1>5, <2>1, <2>2 DEF Obeys
<1> QED BY <1>2, <1>7 DEF t

(* A setting: the user now wants that.                                     *)
LEMMA AppendSetObeys ==
  ASSUME NEW q \in Seq(MainMsg), NEW x \in MainMsg, NEW b, NEW w, Obeys(q, b, w), x.type = "set"
  PROVE  Obeys(Append(q, x), b, x.enabled)
<1> DEFINE t == Append(q, x)
           n == Len(q)
<1>1. /\ n \in Nat /\ DOMAIN q = 1..n /\ DOMAIN t = 1..(n + 1)
      /\ t[n + 1] = x /\ \A i \in DOMAIN q : t[i] = q[i]
  BY AppendPlaces
<1> HIDE DEF t, n
<1>2. Sets(t) = Sets(q) \cup {n + 1}
  <2>1. \A i \in DOMAIN t : i \in DOMAIN q \/ i = n + 1 BY <1>1
  <2>2. \A i \in Sets(t) : i \in Sets(q) \cup {n + 1} BY <1>1, <2>1 DEF Sets
  <2>3. \A i \in Sets(q) \cup {n + 1} : i \in Sets(t) BY <1>1 DEF Sets
  <2> QED BY <2>2, <2>3
<1>3. \A k \in Sets(q) : k \in DOMAIN q /\ k \in Int /\ k < n + 1 BY <1>1 DEF Sets
<1>4. \A i \in DOMAIN t : t[i].type = "show" => i \in DOMAIN q BY <1>1
<1>5. ASSUME NEW i \in DOMAIN q, NEW j \in Sets(t), t[i].type = "show", j < i,
             \A k \in Sets(t) : ~(j < k /\ k < i)
      PROVE  t[i].wanted = t[j].enabled
  <2>1. j \in Sets(q) BY <1>1, <1>2, <1>5
  <2> QED BY <1>1, <1>2, <1>3, <1>5, <2>1 DEF Obeys
<1>6. ASSUME NEW i \in DOMAIN q, t[i].type = "show", \A k \in Sets(t) : ~(k < i)
      PROVE  t[i].wanted = b
  BY <1>1, <1>2, <1>6 DEF Obeys
<1>7. ASSUME NEW j \in Sets(t), \A k \in Sets(t) : ~(j < k) PROVE x.enabled = t[j].enabled
  <2>1. j = n + 1 BY <1>2, <1>3, <1>7
  <2> QED BY <1>1, <2>1
<1>8. Sets(t) # {} BY <1>2
<1> QED BY <1>4, <1>5, <1>6, <1>7, <1>8 DEF Obeys, t

(* Main takes the first message: a setting becomes the stored one.         *)
LEMMA TailObeys ==
  ASSUME NEW q \in Seq(MainMsg), q # <<>>, NEW b, NEW w, Obeys(q, b, w)
  PROVE  /\ Obeys(Tail(q), IF Head(q).type = "set" THEN Head(q).enabled ELSE b, w)
         /\ Head(q).type = "show" => Head(q).wanted = b
<1> DEFINE t == Tail(q)
           n == Len(q)
<1>1. /\ n \in Nat /\ DOMAIN q = 1..n /\ DOMAIN t = 1..(n - 1) /\ 1 \in DOMAIN q /\ Head(q) = q[1]
      /\ \A i \in DOMAIN t : i + 1 \in DOMAIN q /\ t[i] = q[i + 1]
  BY TailPlaces
<1> HIDE DEF t, n
<1>2. \A i \in DOMAIN t : i \in Int /\ 1 <= i BY <1>1
<1>3. \A k \in Sets(q) : k \in Int /\ 1 <= k BY <1>1 DEF Sets
<1>4. \A i \in Sets(t) : i \in DOMAIN t /\ i + 1 \in Sets(q) BY <1>1 DEF Sets
<1>5. \A k \in Sets(q) : k # 1 => k - 1 \in Sets(t)
  <2> SUFFICES ASSUME NEW k \in Sets(q), k # 1 PROVE k - 1 \in Sets(t) OBVIOUS
  <2>1. k \in 1..n /\ q[k].type = "set" BY <1>1 DEF Sets
  <2>2. k - 1 \in DOMAIN t /\ (k - 1) + 1 = k BY <1>1, <2>1
  <2>3. t[k - 1] = q[k] BY <1>1, <2>2
  <2> QED BY <2>1, <2>2, <2>3 DEF Sets
<1>6. ASSUME NEW i \in DOMAIN t, NEW j \in Sets(t), t[i].type = "show", j < i,
             \A k \in Sets(t) : ~(j < k /\ k < i)
      PROVE  t[i].wanted = t[j].enabled
  <2>1. /\ i + 1 \in DOMAIN q /\ j + 1 \in Sets(q) /\ q[i + 1].type = "show" /\ j + 1 < i + 1
        /\ t[i] = q[i + 1] /\ t[j] = q[j + 1]
    BY <1>1, <1>2, <1>4, <1>6
  <2>2. ASSUME NEW k \in Sets(q), j + 1 < k, k < i + 1 PROVE FALSE
    <3>1. i \in Int /\ j \in Int /\ k \in Int /\ 1 <= j BY <1>2, <1>3, <1>4
    <3>2. k # 1 /\ j < k - 1 /\ k - 1 < i BY <2>2, <3>1
    <3> QED BY <1>5, <1>6, <3>2
  <2> QED BY <2>1, <2>2 DEF Obeys
<1>7. ASSUME NEW i \in DOMAIN t, t[i].type = "show", \A k \in Sets(t) : ~(k < i)
      PROVE  t[i].wanted = IF Head(q).type = "set" THEN Head(q).enabled ELSE b
  <2>1. i + 1 \in DOMAIN q /\ t[i] = q[i + 1] /\ i \in Int /\ 1 <= i BY <1>1, <1>2
  <2>2. ASSUME NEW k \in Sets(q), k < i + 1 PROVE k = 1
    <3>1. k # 1 => k - 1 < i BY <1>3, <2>1, <2>2
    <3> QED BY <1>5, <1>7, <3>1
  <2>3. CASE q[1].type = "set"
    <3>1. 1 \in Sets(q) BY <1>1, <2>3 DEF Sets
    <3>2. \A k \in Sets(q) : ~(1 < k /\ k < i + 1) BY <2>2
    <3>3. 1 < i + 1 BY <2>1
    <3>4. q[i + 1].wanted = q[1].enabled BY <1>7, <2>1, <3>1, <3>2, <3>3 DEF Obeys
    <3> QED BY <1>1, <2>1, <2>3, <3>4
  <2>4. CASE q[1].type # "set"
    <3>1. 1 \notin Sets(q) BY <2>4 DEF Sets
    <3>2. \A k \in Sets(q) : ~(k < i + 1) BY <2>2, <3>1
    <3>3. q[i + 1].wanted = b BY <1>7, <2>1, <3>2 DEF Obeys
    <3> QED BY <1>1, <2>1, <2>4, <3>3
  <2> QED BY <2>3, <2>4
<1>8. ASSUME NEW j \in Sets(t), \A k \in Sets(t) : ~(j < k) PROVE w = t[j].enabled
  <2>1. j + 1 \in Sets(q) /\ t[j] = q[j + 1] /\ j \in Int /\ 1 <= j BY <1>1, <1>2, <1>4
  <2>2. ASSUME NEW k \in Sets(q), j + 1 < k PROVE FALSE
    <3>1. k # 1 /\ j < k - 1 BY <1>3, <2>1, <2>2
    <3> QED BY <1>5, <1>8, <3>1
  <2> QED BY <2>1, <2>2 DEF Obeys
<1>9. ASSUME Sets(t) = {} PROVE w = IF Head(q).type = "set" THEN Head(q).enabled ELSE b
  <2>1. \A k \in Sets(q) : k = 1 BY <1>5, <1>9
  <2>2. CASE q[1].type = "set"
    <3>1. 1 \in Sets(q) /\ \A k \in Sets(q) : ~(1 < k) BY <1>1, <2>1, <2>2 DEF Sets
    <3>2. w = q[1].enabled BY <3>1 DEF Obeys
    <3> QED BY <1>1, <2>2, <3>2
  <2>3. CASE q[1].type # "set"
    <3>1. Sets(q) = {} BY <2>1, <2>3 DEF Sets
    <3>2. w = b BY <3>1 DEF Obeys
    <3> QED BY <1>1, <2>3, <3>2
  <2> QED BY <2>2, <2>3
<1>10. Head(q).type = "show" => Head(q).wanted = b
  <2>1. \A k \in Sets(q) : ~(k < 1) BY <1>3
  <2> QED BY <1>1, <2>1 DEF Obeys
<1>11. Obeys(t, IF Head(q).type = "set" THEN Head(q).enabled ELSE b, w)
  BY <1>6, <1>7, <1>8, <1>9 DEF Obeys
<1> QED BY <1>10, <1>11 DEF t

(* What kinds of message a queue carries.                                  *)
LEMMA CarriesAppend ==
  ASSUME NEW T, NEW q \in Seq(T), NEW x \in T, NEW y
  PROVE  Carries(Append(q, x), y) <=> Carries(q, y) \/ x.type = y
<1> DEFINE t == Append(q, x)
           n == Len(q)
<1>1. /\ n \in Nat /\ DOMAIN q = 1..n /\ DOMAIN t = 1..(n + 1)
      /\ t[n + 1] = x /\ \A i \in DOMAIN q : t[i] = q[i]
  BY AppendPlaces
<1> HIDE DEF t, n
<1>2. DOMAIN t = DOMAIN q \cup {n + 1} BY <1>1
<1> QED BY <1>1, <1>2 DEF Carries, t

(* A message is the first of its queue or in the rest.                     *)
LEMMA CarriesTail ==
  ASSUME NEW T, NEW q \in Seq(T), q # <<>>, NEW y
  PROVE  Carries(q, y) <=> Carries(Tail(q), y) \/ Head(q).type = y
<1> DEFINE t == Tail(q)
           n == Len(q)
<1>1. /\ n \in Nat /\ DOMAIN q = 1..n /\ DOMAIN t = 1..(n - 1) /\ 1 \in DOMAIN q /\ Head(q) = q[1]
      /\ \A i \in DOMAIN t : i + 1 \in DOMAIN q /\ t[i] = q[i + 1]
  BY TailPlaces
<1> HIDE DEF t, n
<1>2. ASSUME Carries(q, y) PROVE Carries(t, y) \/ q[1].type = y
  <2>1. PICK i \in 1..n : q[i].type = y BY <1>1, <1>2 DEF Carries
  <2>2. CASE i = 1 BY <2>1, <2>2
  <2>3. CASE i # 1
    <3>1. i - 1 \in DOMAIN t /\ (i - 1) + 1 = i BY <1>1, <2>3
    <3>2. t[i - 1] = q[i] BY <1>1, <3>1
    <3> QED BY <2>1, <3>1, <3>2 DEF Carries
  <2> QED BY <2>2, <2>3
<1>3. ASSUME Carries(t, y) \/ q[1].type = y PROVE Carries(q, y)
  BY <1>1, <1>3 DEF Carries
<1> QED BY <1>1, <1>2, <1>3 DEF t

(* Only a setting can come behind the question.                            *)
LEMMA AskedLastKept ==
  ASSUME NEW q \in Seq(MainMsg)
  PROVE  /\ ~Asked(q) => AskedLast(q)
         /\ AskedLast(q) /\ q # <<>> => AskedLast(Tail(q))
         /\ AskedLast(q) => \A x \in MainMsg : x.type # "set" => AskedLast(Append(q, x))
<1>1. ~Asked(q) => AskedLast(q) BY DEF Asked, Carries, AskedLast
<1>2. ASSUME AskedLast(q), q # <<>> PROVE AskedLast(Tail(q))
  <2> DEFINE t == Tail(q)
             n == Len(q)
  <2>1. /\ n \in Nat /\ DOMAIN t = 1..(n - 1)
        /\ \A i \in DOMAIN t : i + 1 \in DOMAIN q /\ t[i] = q[i + 1]
    BY <1>2, TailPlaces
  <2> HIDE DEF t, n
  <2>2. ASSUME NEW i \in DOMAIN t, NEW k \in Sets(t), t[i].type = "get", i < k PROVE FALSE
    <3>1. k \in DOMAIN t /\ i \in Int /\ k \in Int BY <2>1 DEF Sets
    <3>2. i + 1 \in DOMAIN q /\ k + 1 \in Sets(q) /\ q[i + 1].type = "get" /\ i + 1 < k + 1
      BY <2>1, <2>2, <3>1 DEF Sets
    <3> QED BY <1>2, <3>2 DEF AskedLast
  <2> QED BY <2>2 DEF AskedLast, t
<1>3. ASSUME AskedLast(q), NEW x \in MainMsg, x.type # "set" PROVE AskedLast(Append(q, x))
  <2> DEFINE t == Append(q, x)
             n == Len(q)
  <2>1. /\ n \in Nat /\ DOMAIN q = 1..n /\ DOMAIN t = 1..(n + 1)
        /\ t[n + 1] = x /\ \A i \in DOMAIN q : t[i] = q[i]
    BY AppendPlaces
  <2> HIDE DEF t, n
  <2>2. ASSUME NEW i \in DOMAIN t, NEW k \in Sets(t), t[i].type = "get", i < k PROVE FALSE
    <3>1. k \in DOMAIN q /\ k \in Sets(q) BY <1>3, <2>1 DEF Sets
    <3>2. i \in DOMAIN q BY <2>1, <2>2, <3>1
    <3> QED BY <1>3, <2>1, <2>2, <3>1, <3>2 DEF AskedLast
  <2> QED BY <2>2 DEF AskedLast, t
<1> QED BY <1>1, <1>2, <1>3

(* Answers come and go without changing what they tell.                    *)
LEMMA TellsKept ==
  ASSUME NEW q \in Seq(PageMsg), NEW b
  PROVE  /\ ~Answered(q) => Tells(q, b)
         /\ Tells(q, b) /\ q # <<>> => Tells(Tail(q), b) /\ (Head(q).type = "pref" => Head(q).enabled = b)
         /\ Tells(q, b) => \A x \in PageMsg : (x.type = "pref" => x.enabled = b) => Tells(Append(q, x), b)
<1>1. ~Answered(q) => Tells(q, b) BY DEF Answered, Carries, Tells
<1>2. ASSUME Tells(q, b), q # <<>>
      PROVE  Tells(Tail(q), b) /\ (Head(q).type = "pref" => Head(q).enabled = b)
  <2> DEFINE t == Tail(q)
  <2>1. /\ 1 \in DOMAIN q /\ Head(q) = q[1]
        /\ \A i \in DOMAIN t : i + 1 \in DOMAIN q /\ t[i] = q[i + 1]
    BY <1>2, TailPlaces
  <2> HIDE DEF t
  <2> QED BY <1>2, <2>1 DEF Tells, t
<1>3. ASSUME Tells(q, b), NEW x \in PageMsg, x.type = "pref" => x.enabled = b PROVE Tells(Append(q, x), b)
  <2> DEFINE t == Append(q, x)
             n == Len(q)
  <2>1. /\ n \in Nat /\ DOMAIN q = 1..n /\ DOMAIN t = 1..(n + 1)
        /\ t[n + 1] = x /\ \A i \in DOMAIN q : t[i] = q[i]
    BY AppendPlaces
  <2> HIDE DEF t, n
  <2>2. \A i \in DOMAIN t : i \in DOMAIN q \/ i = n + 1 BY <2>1
  <2> QED BY <1>3, <2>1, <2>2 DEF Tells, t
<1> QED BY <1>1, <1>2, <1>3

(* Before the first launch.                                                *)
LEMMA DesktopInitial == DesktopInit => DesktopInv
<1> SUFFICES ASSUME DesktopInit PROVE DesktopInv OBVIOUS
<1>1. toMain = <<>> /\ toPage = <<>> /\ wants = store /\ page = "none" BY DEF DesktopInit
<1>2. DOMAIN toMain = {} /\ DOMAIN toPage = {} BY <1>1
<1>3. DesktopType BY <1>1 DEF DesktopInit, DesktopType
<1>4. Obeys(toMain, store, wants) BY <1>1, <1>2 DEF Obeys, Sets
<1>5. BellInv BY <1>1, <1>2 DEF BellInv, Asked, Answered, Carries, AskedLast, Tells
<1> QED BY <1>3, <1>4, <1>5 DEF DesktopInv

(* The page is loaded anew.                                                *)
LEMMA LoadKeeps ==
  ASSUME DesktopInv, Load, UNCHANGED <<store, wants, bell, early, notes>>
  PROVE  DesktopInv'
<1>1. page' = "loading" /\ toPage' = <<>> /\ toMain' = Without(toMain, {[type |-> "get"]}) BY DEF Load
<1>2. toMain \in Seq(MainMsg) /\ Obeys(toMain, store, wants) BY DEF DesktopInv, DesktopType
<1>3. toMain' \in Seq(MainMsg) /\ Obeys(toMain', store, wants) /\ ~Asked(toMain')
  BY <1>1, <1>2, LoadObeys
<1>4. toPage' \in Seq(PageMsg) /\ DOMAIN toPage' = {} BY <1>1
<1>5. ~Answered(toPage') BY <1>4 DEF Answered, Carries
<1>6. DesktopType' BY <1>3, <1>4 DEF DesktopInv, DesktopType
<1>7. AskedLast(toMain') BY <1>3, AskedLastKept
<1>8. Tells(toPage', wants') BY <1>4 DEF Tells
<1>9. BellInv' BY <1>1, <1>3, <1>5, <1>7, <1>8 DEF BellInv
<1>10. Obeys(toMain', store', wants') BY <1>3
<1> QED BY <1>6, <1>9, <1>10 DEF DesktopInv

(* Each step of main and page keeps the invariant.                         *)
LEMMA DesktopStep ==
  ASSUME DesktopInv, [DesktopNext]_desktopVars
  PROVE  DesktopInv'
<1>0. /\ toMain \in Seq(MainMsg) /\ toPage \in Seq(PageMsg)
      /\ store \in BOOLEAN /\ wants \in BOOLEAN /\ bell \in BOOLEAN /\ notes \in SUBSET Channel
      /\ Obeys(toMain, store, wants) /\ BellInv
  BY DEF DesktopInv, DesktopType
<1>1. ASSUME UNCHANGED <<toMain, toPage, store, wants, bell, page, early>>, notes' \in SUBSET Channel
      PROVE  DesktopInv'
  BY <1>1 DEF DesktopInv, DesktopType, BellInv
<1>2. ASSUME \/ Launch \/ SecondInstance \/ createTray \/ ShowWindow \/ TrayClick \/ Quit
             \/ SocketClosed \/ connectWs \/ \E w \in {"away", "focused"} : WindowTo(w)
      PROVE  DesktopInv'
  BY <1>0, <1>1, <1>2 DEF Launch, SecondInstance, createTray, ShowWindow, TrayClick, Quit,
     SocketClosed, connectWs, WindowTo, mainVars, pageVars
<1>3. ASSUME Ready \/ SignInOut \/ Reload PROVE DesktopInv'
  <2>1. Load BY <1>3 DEF Ready, SignInOut, Reload
  <2>2. UNCHANGED <<store, wants, bell, early, notes>>
    BY <1>3 DEF Ready, SignInOut, Reload, mainVars
  <2> QED BY <2>1, <2>2, LoadKeeps
<1>4. ASSUME Close PROVE DesktopInv'
  <2>1. UNCHANGED <<store, bell, early>> BY <1>4 DEF Close
  <2>2. CASE isQuitting
    <3>1. toMain' = <<>> /\ toPage' = <<>> /\ page' = "none" /\ wants' = store /\ notes' = {}
      BY <1>4, <2>2 DEF Close
    <3>2. DOMAIN toMain' = {} /\ DOMAIN toPage' = {} BY <3>1
    <3>3. DesktopType' BY <1>0, <2>1, <3>1 DEF DesktopType
    <3>4. Obeys(toMain', store', wants') BY <2>1, <3>1, <3>2 DEF Obeys, Sets
    <3>5. BellInv' BY <3>1, <3>2 DEF BellInv, Asked, Answered, Carries, AskedLast, Tells
    <3> QED BY <3>3, <3>4, <3>5 DEF DesktopInv
  <2>3. CASE ~isQuitting
    BY <1>0, <1>1, <1>4, <2>1, <2>3 DEF Close
  <2> QED BY <2>2, <2>3
<1>5. ASSUME PageLoaded PROVE DesktopInv'
  <2> DEFINE x == [type |-> "get"]
  <2>1. /\ page = "loading" /\ page' = IF token THEN "app" ELSE "signedout"
        /\ toMain' = IF token THEN Append(toMain, x) ELSE toMain
        /\ bell' = TRUE /\ early' = FALSE /\ UNCHANGED <<store, notes, toPage, wants>>
    BY <1>5 DEF PageLoaded, mainVars
  <2>2. ~Asked(toMain) /\ ~Answered(toPage) BY <1>0, <2>1 DEF BellInv
  <2>3. x \in MainMsg /\ x.type = "get" BY DEF MainMsg
  <2>4. AskedLast(toMain) /\ Tells(toPage, wants) BY <1>0, <2>2, AskedLastKept, TellsKept
  <2>5. CASE token
    <3>1. toMain' = Append(toMain, x) /\ page' = "app" BY <2>1, <2>5
    <3> HIDE DEF x
    <3>2. toMain' \in Seq(MainMsg) /\ Obeys(toMain', store, wants)
      BY <1>0, <2>3, <3>1, AppendObeys
    <3>3. Asked(toMain') BY <1>0, <2>3, <3>1, CarriesAppend DEF Asked
    <3>4. AskedLast(toMain') BY <1>0, <2>3, <2>4, <3>1, AskedLastKept
    <3>5. BellInv' BY <2>1, <2>4, <3>1, <3>3, <3>4 DEF BellInv
    <3>6. DesktopType' BY <1>0, <2>1, <3>2 DEF DesktopType
    <3> QED BY <2>1, <3>2, <3>5, <3>6 DEF DesktopInv
  <2>6. CASE ~token
    <3>1. toMain' = toMain /\ page' = "signedout" BY <2>1, <2>6
    <3>2. BellInv' BY <2>1, <2>2, <2>4, <3>1 DEF BellInv
    <3>3. DesktopType' BY <1>0, <2>1, <3>1 DEF DesktopType
    <3> QED BY <1>0, <2>1, <3>1, <3>2, <3>3 DEF DesktopInv
  <2> QED BY <2>5, <2>6
<1>6. ASSUME NEW c \in Channel, Mention(c) PROVE DesktopInv'
  <2> DEFINE x == [type |-> "show", ch |-> c, wanted |-> wants]
  <2>1. toMain' = Append(toMain, x) /\ UNCHANGED <<store, notes, toPage, wants, bell, page, early>>
    BY <1>6 DEF Mention, mainVars, pageVars
  <2>2. x \in MainMsg /\ x.type = "show" /\ x.wanted = wants BY <1>0 DEF MainMsg
  <2> HIDE DEF x
  <2>3. toMain' \in Seq(MainMsg) /\ Obeys(toMain', store, wants) BY <1>0, <2>1, <2>2, AppendObeys
  <2>4. Asked(toMain') <=> Asked(toMain) BY <1>0, <2>1, <2>2, CarriesAppend DEF Asked
  <2>5. AskedLast(toMain) => AskedLast(toMain') BY <1>0, <2>1, <2>2, AskedLastKept
  <2>6. BellInv' BY <1>0, <2>1, <2>4, <2>5 DEF BellInv
  <2>7. DesktopType' BY <1>0, <2>1, <2>3 DEF DesktopType
  <2> QED BY <2>1, <2>3, <2>6, <2>7 DEF DesktopInv
<1>7. ASSUME toggleNotifications PROVE DesktopInv'
  <2> DEFINE x == [type |-> "set", enabled |-> ~bell]
  <2>1. /\ page = "app" /\ toMain' = Append(toMain, x) /\ bell' = ~bell /\ wants' = ~bell
        /\ early' = (early \/ Asked(toMain) \/ Answered(toPage))
        /\ UNCHANGED <<store, notes, toPage, page>>
    BY <1>7 DEF toggleNotifications, mainVars, Asked, Answered, Carries
  <2>2. x \in MainMsg /\ x.type = "set" /\ x.enabled = ~bell BY <1>0 DEF MainMsg
  <2> HIDE DEF x
  <2>3. toMain' \in Seq(MainMsg) BY <1>0, <2>1, <2>2
  <2>4. Obeys(toMain', store, wants') BY <1>0, <2>1, <2>2, AppendSetObeys
  <2>5. Asked(toMain') <=> Asked(toMain) BY <1>0, <2>1, <2>2, CarriesAppend DEF Asked
  <2>6. ASSUME ~early' PROVE AskedLast(toMain') /\ Tells(toPage', wants')
    <3>1. ~Asked(toMain') /\ ~Answered(toPage) BY <2>1, <2>5, <2>6
    <3> QED BY <1>0, <2>1, <2>3, <3>1, AskedLastKept, TellsKept
  <2>7. BellInv' BY <2>1, <2>6 DEF BellInv
  <2>8. wants' \in BOOLEAN /\ bell' \in BOOLEAN BY <2>1
  <2>9. DesktopType' BY <1>0, <2>1, <2>3, <2>8 DEF DesktopType
  <2> QED BY <2>1, <2>4, <2>7, <2>9 DEF DesktopInv
<1>8. ASSUME PageHears PROVE DesktopInv'
  <2>1. page = "app" /\ toPage # <<>> /\ UNCHANGED <<store, notes, wants>> BY <1>8 DEF PageHears, mainVars
  <2>2. CASE /\ Head(toPage).type = "pref" /\ bell' = Head(toPage).enabled /\ toPage' = Tail(toPage)
             /\ UNCHANGED <<toMain, page, token, sock, early>>
    <3>1. toPage' \in Seq(PageMsg) BY <1>0, <2>1, <2>2
    <3>2. bell' \in BOOLEAN
      <4>1. Head(toPage) \in PageMsg BY <1>0, <2>1
      <4> QED BY <2>2, <4>1 DEF PageMsg
    <3>3. Answered(toPage) BY <1>0, <2>1, <2>2, CarriesTail DEF Answered
    <3>4. ASSUME ~early
          PROVE  AskedLast(toMain') /\ Tells(toPage', wants') /\ bell' = wants'
      <4>1. AskedLast(toMain) /\ Tells(toPage, wants) BY <1>0, <3>4 DEF BellInv
      <4>2. Tells(Tail(toPage), wants) /\ Head(toPage).enabled = wants
        BY <1>0, <2>1, <2>2, <4>1, TellsKept
      <4> QED BY <2>1, <2>2, <4>1, <4>2
    <3>5. BellInv' BY <2>1, <2>2, <3>4 DEF BellInv
    <3>6. DesktopType' BY <1>0, <2>1, <2>2, <3>1, <3>2 DEF DesktopType
    <3> QED BY <1>0, <2>1, <2>2, <3>5, <3>6 DEF DesktopInv
  <2>3. CASE Load /\ UNCHANGED <<token, bell, early>>
    BY <2>1, <2>3, LoadKeeps
  <2> QED BY <1>8, <2>2, <2>3 DEF PageHears
<1>9. ASSUME GetPreference PROVE DesktopInv'
  <2> DEFINE x == [type |-> "pref", enabled |-> store]
  <2>1. /\ toMain # <<>> /\ Head(toMain).type = "get" /\ toMain' = Tail(toMain)
        /\ toPage' = IF page = "app" THEN Append(toPage, x) ELSE toPage
        /\ UNCHANGED <<store, notes, wants, bell, page, early>>
    BY <1>9 DEF GetPreference, mainVars, pageVars
  <2>2. Asked(toMain) BY <1>0, <2>1, CarriesTail DEF Asked
  <2>3. page = "app" /\ toPage' = Append(toPage, x) BY <1>0, <2>1, <2>2 DEF BellInv
  <2>4. x \in PageMsg /\ x.type = "pref" /\ x.enabled = store BY <1>0 DEF PageMsg
  <2> HIDE DEF x
  <2>5. toMain' \in Seq(MainMsg) /\ toPage' \in Seq(PageMsg) BY <1>0, <2>1, <2>3, <2>4
  <2>6. Obeys(toMain', store, wants) BY <1>0, <2>1, TailObeys
  <2>7. Answered(toPage') BY <1>0, <2>3, <2>4, CarriesAppend DEF Answered
  <2>8. ASSUME ~early PROVE AskedLast(toMain') /\ Tells(toPage', wants')
    <3>1. AskedLast(toMain) /\ Tells(toPage, wants) BY <1>0, <2>8 DEF BellInv
    <3>2. Sets(toMain) = {}
      <4> SUFFICES ASSUME NEW k \in Sets(toMain) PROVE FALSE OBVIOUS
      <4>1. 1 \in DOMAIN toMain /\ toMain[1].type = "get" BY <1>0, <2>1, TailPlaces
      <4>2. k \in 1..Len(toMain) /\ Len(toMain) \in Nat /\ toMain[k].type = "set" BY <1>0 DEF Sets
      <4>3. 1 < k BY <4>1, <4>2
      <4> QED BY <3>1, <4>1, <4>3 DEF AskedLast
    <3>3. wants = store BY <1>0, <3>2 DEF Obeys
    <3>4. Tells(toPage', wants) BY <1>0, <2>3, <2>4, <3>1, <3>3, TellsKept
    <3>5. AskedLast(toMain') BY <1>0, <2>1, <3>1, AskedLastKept
    <3> QED BY <2>1, <3>4, <3>5
  <2>9. BellInv' BY <2>1, <2>3, <2>7, <2>8 DEF BellInv
  <2>10. DesktopType' BY <1>0, <2>1, <2>5 DEF DesktopType
  <2> QED BY <2>1, <2>6, <2>9, <2>10 DEF DesktopInv
<1>10. ASSUME toMain # <<>>, Head(toMain).type \in {"set", "show"}, toMain' = Tail(toMain),
              store' = IF Head(toMain).type = "set" THEN Head(toMain).enabled ELSE store,
              notes' \in SUBSET Channel, UNCHANGED <<toPage, wants, bell, page, early>>
       PROVE  DesktopInv'
  <2>1. toMain' \in Seq(MainMsg) BY <1>0, <1>10
  <2>2. store' \in BOOLEAN
    <3>1. Head(toMain) \in MainMsg BY <1>0, <1>10
    <3>2. Head(toMain).type = "set" => Head(toMain).enabled \in BOOLEAN BY <3>1 DEF MainMsg
    <3> QED BY <1>0, <1>10, <3>2
  <2>3. Obeys(toMain', store', wants') BY <1>0, <1>10, TailObeys
  <2>4. Asked(toMain') <=> Asked(toMain) BY <1>0, <1>10, CarriesTail DEF Asked
  <2>5. AskedLast(toMain) => AskedLast(toMain') BY <1>0, <1>10, AskedLastKept
  <2>6. BellInv' BY <1>0, <1>10, <2>4, <2>5 DEF BellInv
  <2>7. DesktopType' BY <1>0, <1>10, <2>1, <2>2 DEF DesktopType
  <2> QED BY <2>3, <2>6, <2>7 DEF DesktopInv
<1>11. ASSUME SetPreference PROVE DesktopInv'
  BY <1>0, <1>10, <1>11 DEF SetPreference, pageVars
<1>12. ASSUME ShowNotification PROVE DesktopInv'
  <2>1. /\ toMain # <<>> /\ Head(toMain).type = "show" /\ toMain' = Tail(toMain)
        /\ UNCHANGED <<store, toPage, wants, bell, page, early>>
        /\ notes' = IF store /\ mainWindow # "focused" THEN notes \cup {Head(toMain).ch} ELSE notes
    BY <1>12 DEF ShowNotification, mainVars, pageVars
  <2>2. Head(toMain) \in MainMsg BY <1>0, <2>1
  <2>3. Head(toMain).ch \in Channel BY <2>1, <2>2 DEF MainMsg
  <2>4. notes' \in SUBSET Channel BY <1>0, <2>1, <2>3
  <2> QED BY <1>10, <2>1, <2>4
<1>13. ASSUME NEW c \in Channel, ClickNote(c) PROVE DesktopInv'
  <2> DEFINE x == [type |-> "navigate", ch |-> c]
  <2>1. /\ toPage' = IF page = "app" THEN Append(toPage, x) ELSE toPage
        /\ notes' = notes \ {c} /\ UNCHANGED <<toMain, store, wants, bell, page, early>>
    BY <1>13 DEF ClickNote, mainVars, pageVars
  <2>2. x \in PageMsg /\ x.type = "navigate" BY DEF PageMsg
  <2> HIDE DEF x
  <2>3. CASE page = "app"
    <3>1. toPage' = Append(toPage, x) BY <2>1, <2>3
    <3>2. toPage' \in Seq(PageMsg) BY <1>0, <2>2, <3>1
    <3>3. Answered(toPage') <=> Answered(toPage) BY <1>0, <2>2, <3>1, CarriesAppend DEF Answered
    <3>4. Tells(toPage, wants) => Tells(toPage', wants) BY <1>0, <2>2, <3>1, TellsKept
    <3>5. BellInv' BY <1>0, <2>1, <3>3, <3>4 DEF BellInv
    <3>6. DesktopType' BY <1>0, <2>1, <3>2 DEF DesktopType
    <3> QED BY <1>0, <2>1, <3>5, <3>6 DEF DesktopInv
  <2>4. CASE page # "app" BY <1>0, <1>1, <2>1, <2>4
  <2> QED BY <2>3, <2>4
<1>14. ASSUME UNCHANGED desktopVars PROVE DesktopInv'
  BY <1>0, <1>1, <1>14 DEF desktopVars, mainVars, pageVars
<1> QED BY <1>2, <1>3, <1>4, <1>5, <1>6, <1>7, <1>8, <1>9, <1>11, <1>12, <1>13, <1>14 DEF DesktopNext

(* Every state of the desktop app.                                         *)
LEMMA DesktopInvariant == DesktopSpec => []DesktopInv
BY DesktopInitial, DesktopStep, PTL DEF DesktopSpec

(* For queues of any length, through reloads, sign-outs and restarts: once *)
(* nothing is queued the bell shows what main will do, unless it was used  *)
(* before the stored value had arrived (get-notification-preference).      *)
THEOREM BellIsRight == DesktopSpec => []BellTellsTheTruth
<1>1. DesktopInv => BellTellsTheTruth
  <2> SUFFICES ASSUME DesktopInv, page = "app", toMain = <<>>, toPage = <<>>, ~early
               PROVE  bell = store
    BY DEF BellTellsTheTruth
  <2>1. DOMAIN toMain = {} /\ DOMAIN toPage = {} OBVIOUS
  <2>2. ~Asked(toMain) /\ ~Answered(toPage) /\ Sets(toMain) = {}
    BY <2>1 DEF Asked, Answered, Carries, Sets
  <2>3. bell = wants BY <2>2 DEF DesktopInv, BellInv
  <2>4. wants = store BY <2>2 DEF DesktopInv, Obeys
  <2> QED BY <2>3, <2>4
<1> QED BY <1>1, DesktopInvariant, PTL

(* For queues of any length main shows no mention that arrived after the   *)
(* user switched notifications off: a mention never overtakes the setting  *)
(* (show-notification, set-notification-preference).                       *)
THEOREM MutedIsObeyed == DesktopSpec => MutedStaysMuted
<1>1. DesktopInv /\ [DesktopNext]_desktopVars => [\A c \in notes' \ notes : Head(toMain).wanted]_desktopVars
  <2> SUFFICES ASSUME DesktopInv, [DesktopNext]_desktopVars, NEW c \in notes' \ notes
               PROVE  Head(toMain).wanted
    OBVIOUS
  <2>1. CASE ShowNotification
    <3>1. toMain # <<>> /\ Head(toMain).type = "show" /\ store
      BY <2>1 DEF ShowNotification
    <3>2. Head(toMain).wanted = store BY <3>1, TailObeys DEF DesktopInv, DesktopType
    <3> QED BY <3>1, <3>2
  <2>2. CASE UNCHANGED notes BY <2>2
  <2>3. CASE Close BY <2>3 DEF Close
  <2>4. CASE \E d \in Channel : ClickNote(d) BY <2>4 DEF ClickNote
  <2>5. ASSUME \/ Launch \/ SecondInstance \/ Ready \/ createTray \/ ShowWindow \/ TrayClick \/ Quit
               \/ \E w \in {"away", "focused"} : WindowTo(w)
               \/ PageLoaded \/ SignInOut \/ Reload \/ SocketClosed \/ connectWs \/ toggleNotifications
               \/ PageHears \/ GetPreference \/ SetPreference \/ \E d \in Channel : Mention(d)
               \/ UNCHANGED desktopVars
        PROVE  UNCHANGED notes
    BY <2>5 DEF Launch, SecondInstance, Ready, createTray, ShowWindow, TrayClick, Quit, WindowTo,
       PageLoaded, SignInOut, Reload, SocketClosed, connectWs, toggleNotifications, PageHears,
       GetPreference, SetPreference, Mention, desktopVars
  <2> QED BY <2>1, <2>2, <2>3, <2>4, <2>5 DEF DesktopNext
<1> QED BY <1>1, DesktopInvariant, PTL DEF DesktopSpec, MutedStaysMuted
=============================================================================

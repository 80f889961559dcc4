# Concordia: a TLA+ model of the chat system

Concordia is a chat application in several services: a Go gateway and presence
service, a Go audit service, Java services for accounts (auth) and for servers,
channels and roles (servers), a Rust chat service, a Python voice service, a
Next.js web app that an Electron app wraps, and a CDK stack that deploys them.
This directory models the parts whose correctness depends on
order, concurrency and failure. TLC checks the models on small instances, and
TLAPS proves their safety properties for all instances.

Contents: 1 the system, 2 modules and code, 3 runs, 4 properties worth a second
look, 5 fairness, 6 proofs, 7 where code and text disagree, 8 what is left out,
9 plan.

## 1. The system

| component | state | operations | talks to |
|---|---|---|---|
| web app, `apiFetch` (`lib/api.ts`, `actions/auth.ts`) | the two tokens in localStorage | login, logout, fetch with one silent refresh | gateway → auth |
| web app, chat view (`ChannelView.tsx`, `MessageList.tsx`) | fetched pages, extra messages, placeholder | fetch, scroll, send, delete, WebSocket events | gateway → chat; WebSocket |
| web app, voice view (`VoiceChannelView.tsx`) | joining/joined, peer connections | join, leave, offer | gateway → voice; signalling socket |
| web app, sidebars (`ServerSidebar.tsx`, `ChannelSidebar.tsx`) | lists, dialogs, calls under way, the URL | load, retry, create, join, navigate, create channel | gateway → servers, auth |
| web app, register page (`register/page.tsx`) | the form, a pending call | create account | gateway → auth |
| desktop app (`desktop-app/main.js`, `preload.js`, `layout.tsx`) | window, tray, preference on disk; mention socket, bell | launch, hide, quit, notify, navigate | page over IPC; WebSocket |
| gateway, sockets (`gateway/ws`) | `conns`, `subs`, `seq` | connect, subscribe, heartbeat, push, close | presence, chat, Redis backplane |
| gateway, edge (`gateway/`) | rate limit counters, circuit breakers | JWT check, limit, proxy | every service |
| presence | session hashes with a TTL, index sets (Redis) | register, deregister, heartbeat, query | called by gateway and chat |
| auth | users, refresh tokens (PostgreSQL) | register, login, refresh, logout, profile | Kafka |
| servers | servers, channels, memberships, roles (PostgreSQL), role cache | create, join, leave, assign, delete, CheckPerm | called by chat and voice over gRPC |
| chat | messages (Cassandra), page cache (Redis), usernames in memory | create, list, delete, fan-out, attachments, consume user-registered | CheckPerm, presence, gateway push, Kafka |
| voice | participants (Redis), signalling sockets | join, leave, list, relay | CheckPerm |
| audit | hash chain of events (PostgreSQL), head in memory | consume, append, seed, verify, query | Kafka |
| deployment (`infra/cdk`) | resources, init Jobs, pods | make, run a statement, restart | every store |
| tips, proxy, compose files | – | – | – |

What is hard here:

* **No transaction spans a handler.** Presence, auth's refresh, voice's join and
  chat's list are sequences of single Redis or SQL round trips; any two requests
  interleave between them, on several replicas.
* **Calls time out and go on.** The gateway gives presence 5 s; what it gave up
  on is still executed.
* **Processes die and come back** with the same names (the gateway's connection
  ids restart at 1), with committed Kafka offsets, or while their predecessor
  still runs.
* **Answers, pushes and events overtake each other** on their way to a page, and
  an earlier visit's requests are still under way when the next begins.
* **Nothing is cancelled.** The sidebars' fetches, a register or join call and an
  IPC question are answered to whatever the page has become meanwhile.
* **Nothing is ordered at start.** Jobs and services start together and crash
  until what they need is there.
* **Caches** of pages, roles, usernames and chain heads are filled from reads that a write
  may have overtaken.

What makes each part correct, in a sentence: a session is found under the
channels it is subscribed to, and only while its connection lives (presence,
gateway); a refresh token works once (auth), and auth refuses a page only a token
that is of no use (web); walking the history shows each message (chat);
the view shows every message once, until it is deleted (chat view); a check
allows what a role grants to a member (servers); of two people in a voice
channel one calls the other, and who left is gone (voice); the stored chain
verifies (audit); the sidebars show what the servers service has; a muted desktop
is silent, and its bell says so; a username is given once,
its owner becomes known to chat, and the breaker in front closes again (sign-up);
a deployment comes up in whatever order it starts. `PROJECT.json` lists the hazards line by line.

## 2. Modules and the code they model

Every atomic action is one round trip or one commit of the code, or one callback
of a page. Handlers of several round trips are in-flight requests with a `pc`;
requests live in slots, so the number of slots bounds concurrency, not the
number of requests.

**`Presence`** (`services/presence/handler.go`). `sess`/`ttl` are the hashes with
their TTL, `index` the sets without one. `RegisterRead/Clean/Write`,
`DeregisterRead/Wipe`, `HeartbeatExists/Expire`, `QueryMembers/Filter` are the
round trips; errors that the code ignores (`//nolint:errcheck`) are the branches
under `Faults`; `Abort` ends a request between two of them. `Elapse` is one
heartbeat interval.

**`GatewaySessions`** (`services/gateway/ws/handler.go`) extends Presence and
makes the calls: `Connect`, `Subscribe`/`Unsubscribe`, `Close`, the heartbeat
goroutine, `Timeout` (the caller goes on, the request stays), `Crash` (ids are
reused), `Reap` (an answer nobody waits for). A connection's goroutine makes one
call at a time, which is why settled states are clean in `gateway_calm`.

**`AuditChain`** (`services/audit/consumer.go`, `store.go`, `main.go`, the table
in `infra/audit-db/init.sh`) refines **`AuditLedger`**, an append-only log of
distinct events. `ReadMessage` commits the offset as kafka-go's ReadMessage does;
`Insert`/`Advance` separate the row from `lastHash`; `LoseReply` is an INSERT
whose answer was lost. A hash is the sequence it commits to, so hashes do not
collide. The history variable `slip` records that an answer was lost or that two
processes overlap.

**`RefreshTokens`** (`AuthService.java`): `RefreshFind/Delete/Save` and
`LogoutSelect/Purge` are separate transactions; Hibernate turns the second
delete of a row into an error. History variables: `family` (the login a token
descends from), `spent`. **`WebSession`** (`lib/api.ts`, `actions/auth.ts`)
extends it with a page whose concurrent fetches share localStorage. A refresh is
answered by auth (`Answer`), by the gateway with a 503 because the replica is gone
or the breaker open (`Unavailable`), or not at all (`NoAnswer`); in the latter two
the request may still be executed. `bounced` says why the page was last sent to
`/login`.

**`MessagePage`**: `list_messages`' page as an operator (limit + 1 rows, filter,
`has_more`). **`MessageHistory`** (`messages.rs`): create (id, then row), delete,
cache-aside list, and a client that walks the pages. **`ChannelView`**
(`ChannelView.tsx`, `MessageList.tsx`, the fan-out of `messages.rs`): history
answers, POST answers, events and deletions reach one open channel.
**`OrderedLists`** has the two operations on lists that this and the desktop app
use, by the positions of the elements: `Ascending` (a page of the history,
reversed) and `Without` (`Array.filter`). They stand for a sort and `SelectSeq`,
which the prover takes for unknown operators; `MCChannelView` has TLC compare them
with those on all short lists.

**`ServerPermissions`** (the servers service): tables at READ COMMITTED, each
method that reads before writing as a check and a commit; the PostgreSQL primary
and foreign keys are part of the commits; `CheckPerm` is membership, cache, read,
fill. Requests that fail their checks change nothing and are left out.

**`VoiceChannel`** (`voice/main.py`, `signaling.py`, `VoiceChannelView.tsx`): the
page's stages, `/join` with its broadcast (which raises if the dictionary of
sockets changes under it), the unawaited `/leave`, and sockets with their
disconnect handler, whose removal may fail (`DisconnectFails`). `ServiceDies` loses
sockets and requests and keeps the set in Redis. `sound` and `strayed` are history
variables that name the circumstances in which the code promises less.

**`ChannelSidebar`** (`ChannelSidebar.tsx`): `fetchData`'s four GETs as one call
that is sent, read and applied, each whenever it happens; the effect on
`serverId` is `Open`. **`ServerSidebar`** (`ServerSidebar.tsx`) extends it: both
share the URL (`path`), so creating or joining a server opens its panel. The
members' answer has no roles (`RolesOfMember`), so `hasManageRole` stays false.
Lists are
bags, since React shows duplicates. `crossed`, `overlap`, `doubt`, `chDoubt` are
history variables that name when requests crossed or a call that went through was
reported as failed.

**`Desktop`** (`main.js`, `preload.js`, the socket of `layout.tsx`, the bell of
`ChannelSidebar.tsx`): two processes and two IPC queues. `Close` is the handler
that hides instead of closing unless `isQuitting`; `Load` is every way in which
the page is loaded anew and forgets, a click on a notification included: the window
shows the static export, so a channel's URL loads the root. `wants` and `early` are
history.

**`CircuitBreaker`** (`breaker.go`): gobreaker, which is external, as operators on
a record, with the settings of `newCBTransport`. **`SignUp`** extends it: pages
at `/register`, the breaker, `registerUser` statement by statement (an exception
there reaches the gateway as a 403, since `SecurityConfig` does not permit the
dispatch to `/error`, and the breaker counts it as a success), the producer's
buffer, the topic, and the registry of `user_registry.rs`. Whatever goes wrong
counts against `MaxFaults`.

**`BringUp`** (`cluster-construct.ts`, `data-construct.ts`): resources with their
dependencies, the three init scripts as sequences of statements (where, what is
presupposed, what is left, whether a repetition or any error is hidden), and
services that start when their store holds what they need (`audit/main.go:46`,
`chat/main.rs:44`, `voice/main.py:32`). `hits` counts the faults that met a Job.

**`*Proofs`** extend the modules they are about: `GatewayProofs` holds the theorems
of presence and gateway, `AuthProofs` those of the refresh tokens, the web session
and sign-up, `HistoryProofs`, `PermissionProofs` and `VoiceProofs` those of one
component each, `SidebarProofs` those of both sidebars, `ClientProofs` those of
the chat view and the desktop app, `PlatformProofs` those of the audit chain and
the deployment. **`MC*`** only give constants their values (`MCChannelView` also
compares operators, as said). Operators marked "Mutant" are variants of the definition that
follows them, each a plausible mistake that some property must notice.

## 3. Runs and bounds

| run | instance | what it shows |
|---|---|---|
| `gateway_calm` | 1 gateway, 2 connections, 2 channels, 2 writing slots, 1 query, TTL 4 | no failures: a settled connection is registered exactly with what it subscribed to, leaves nothing behind, is never expired, and queries drop what is gone |
| `gateway_faulty` | 1 connection id, 1 crash and reuse, 2 slots, TTL 2, all faults | the index covers each session outside the named gaps; ghosts expire |
| `audit` | 2 valid and 1 malformed event, topic of 4, 2 processes, 3 starts | the chain verifies, no stuck consumer, refinement of the ledger |
| `web_session` | 1 user, 3 tokens, 2 slots, 2 expiries, other clients, crashes, 503s | rotation keeps one live token; spent tokens are refused; auth refuses a page only a token that is of no use |
| `history` | 3 messages, pages of 1, 1 GET at a time | walks have no holes, are complete if nothing is deleted, deleted messages do not come back |
| `view` | 2 messages, pages of 1, all faults | no duplicates, nothing heard disappears, live messages appear |
| `permissions` | 1 server, owner and user, 1 channel, 1 extra role, 2 slots | roles follow memberships, checks allow only what was granted to a member, the cache converges |
| `voice` | users a (2 overlapping visits) and b (1), failing removals, a service that dies | one of two offers, who left is gone but where named |
| `sidebars` | 2 servers in every combination of membership, 1 channel, 2 overlapping fetches of each kind, 4 clicks | panel and icons show this server and these memberships, once each; the panel never stays loading |
| `desktop` | 2 channels, IPC queues of 2, any number of launches | the bell tells the truth, muted stays muted |
| `bringup` | 3 Jobs, audit and chat, backoff limit 1, 2 faults | success is complete, reruns do not fail, all comes up or a Job ran out |
| `signup` | 2 pages, 3 forms that share a username or an email, breaker trips at 2, 2 faults | accounts are unique, the registry learns, the breaker recloses |

Why the bounds suffice for the cases of interest: two slots give every pair of
interleaved requests (a late register and a deregister, two refreshes, an assign
and a leave); a TTL of 4 heartbeats leaves room for lost time as 30 min against
2 min do, and TTL 2 makes expiry frequent; 4 positions in the topic hold two
events, a repetition and a malformed one; three tokens are a login and two
rotations, or two logins and a rotation; with pages of 1, three messages make
three pages. Two overlapping visits of one user are the smallest number with an
earlier visit's leftovers. `history` has one GET at a time: a walk's request
interleaves with creations, deletions and expiry, and pages cached by other
readers remain between its own. Four clicks of the sidebars are enough to open a
server, leave it and come back, or to submit both dialogs, before the first answer
arrives, and two fetches of a kind give every crossing of two. Two IPC messages
are a change of the preference and a mention, in either order. A backoff limit of
1 with two faults makes a Job run out as well as recover; audit and chat are the
services whose start depends on what a Job leaves (servers needs one database,
the others only a store). Three forms and two pages contain both kinds of
collision; two failures that trip the breaker can be the two halves of one
outage. The theorems of section 6 have no such bounds.

`CHECK_DEADLOCK FALSE` stands where a bounded environment may come to rest:
`audit` (topic full), `web_session` (tokens used up), `history` and `view`
(messages used up), `sidebars` (clicks used up), `bringup` (everything is up, or a
Job has failed). The others never stop.

Symmetry is used with safety properties only (`gateway_calm`, `web_session`,
`voice`).

## 4. Properties worth a second look

* `IndexCovers` names its exceptions: a register between its two pipelines, and a
  connection whose latest register was cut off there (`torn`). Without them it is
  false, and the exceptions are the real gap of `register`.
* `SettledAgrees`, `GoneIsForgotten` hold with no failures although heartbeats and
  queries interleave. With failures a late register revives a closed connection;
  then `GhostsExpire` is what remains.
* `OneLivePerLogin` holds although `refresh` is no transaction, because the
  delete that finds no row is an error: it is the serialisation point.
* `GoneStaysGone` is the strongest statement the cache allows: a deleted message
  may be served from the cache and by readers that began earlier; it is never
  revived once those are over.
* `AllowedInside` holds although permissions are cached, since the membership is
  read from the database; `PermissionsConverge` is what remains for roles.
* `ImplementsLedger` allows a slip: afterwards rows are still appended once each,
  but the head is not promised.
* `RefusedOnlyWhenSpent` is about refusals by auth. A 503 also ends the session
  (`api.ts:60`), whatever the token is worth; nothing is claimed of that case.
* `LeftMeansGone` names who may stay listed (`strayed`): a user for whom the last of
  /leave and the end of the socket was lost or failed, whose page gave up before it
  had a socket, or who was listed when the service died. That one of the two fails
  while the other is to come is not excepted. They are listed until the TTL.
* `PanelOfThisServer` and `OpenIsShown` except `crossed`: with an answer of an
  earlier server still under way the panel may show that server's channels under
  this server's URL, for good. `IconsAreMemberships` and `OneIconPerServer` except
  `overlap` for the same reason. Without crossing nothing goes wrong, however calls
  fail.
* `MutedStaysMuted` holds although the page does not look at the preference: the
  change and the mention travel in one queue. `BellTellsTheTruth` excepts a bell
  pressed before the stored value arrived, which then overwrites it.
* `RegistryLearns` names the two ways in which a user is never known: a lost event,
  and a restart of chat, whose committed position outlives its cache.
* `RerunsNeverFail` is stronger than that the scripts are idempotent: a Job is also
  charged only for faults of its own, so its budget of attempts is not used up by
  another store's outage.

## 5. Fairness

* `GatewaySessions`: presence serves what it accepted, callers continue after an
  answer, tickers fire and time passes (`Tick`). Clients owe nothing.
* `AuditChain`: the loop of `run` goes on and a stopped container is started again
  (`restart: unless-stopped`).
* `ChannelView`: fan-out tasks run and pushes that were sent arrive; losing one is
  an action of its own, which the property mentions.
* `ServerPermissions`: a request that was begun is served, entries expire 60 s
  after they were written (`CacheConfig`).
* `ServerSidebar`: every call of `apiFetch` ends, with an answer or an error; users
  owe nothing.
* `BringUp`: CloudFormation, the Job controller and the kubelet keep trying and
  outages end; faults are finite.
* `SignUp`: calls end, auth is restarted, the breaker's timer fires, producer and
  consumer threads run, and other users keep using auth. Without that traffic a
  half-open breaker would wait for its probe, which is what the code does.

## 6. Proofs

All theorems hold for arbitrary constants that satisfy the named assumptions
(`PresenceAssumption`, `GatewayAssumption`, `AuditAssumption`,
`RefreshAssumption`, `WebAssumption`, `HistoryAssumption`, `NoneAssumption`,
`VoiceAssumption`, `PermissionAssumption`, `SidebarAssumption`,
`BreakerAssumption`, `SignUpAssumption`, `BringUpAssumption`, `ViewAssumption`,
`DesktopAssumption`), which give the
ranges of the numbers, the distinctness of the placeholder values (that an
`opt-...` id is no message's UUID among them), for
permissions, that there are others than MANAGE, and for the deployment that the
Jobs are among the three there are. Every inductive invariant was model-checked on
the component's run before it was proved.

Four theorems about the gateway have the hypothesis `Calm`: no lost calls, no
crashes, and a TTL of at least four heartbeat intervals. `handler.go` beats every
2 minutes and `sessionTTL` is 30, so the code has 15. Four is what the argument
needs: a beat may be one interval late, its request another one under way, and a
connection that closes may take a third. The run `gateway_calm` is an instance of
this hypothesis; with failures the properties are false (section 4).

| theorem | statement | argument |
|---|---|---|
| `PresenceTypeCorrect` | `PresenceSpec => []PresenceTypeOK` | inductive as it stands, one case per round trip |
| `IndexCoverage` | `PresenceSpec => []IndexCovers` | inductive with the type invariant: only `RegisterClean` and `DeregisterWipe` remove entries, and `torn`/`Rewriting` record the former |
| `GatewayIndexCoverage` | `Spec => []IndexCovers` (of the gateways with presence) | from the one above: every gateway step is one presence may be asked for or leaves presence alone (`GatewayUsesPresence`), under `Owned` (only a connection that waits has a call; an open one has a user) |
| `SettledAgreement`, `GoneLeavesNothing` | `Calm /\ Spec => []SettledAgrees`, `[]GoneIsForgotten` | `CalmInv`: what Redis holds of a connection is a function of its stage and of how far its one writing call is (`CallAgrees`); every writing request is such a call (`WritesAwaited`), so no register is ever late; ids are handed out once (`IdsFresh`) |
| `BeatsOutrunTTL` | `Calm /\ Spec => []OpenSurvivesTTL` | the same invariant: `Lasting` counts how many intervals a TTL can have lost in each stage, with a beat due, under way or served |
| `QueriesDropGone` | `Calm /\ Spec => QueryDropsGone` | the second round trip looks the session up again, and `GoneIsForgotten` says it is not there |
| `ChainAlwaysVerifies` | type, `HeadTracked`, `ChainVerifiesUnlessSlip` | `HeadTracked` is the strengthening: the chain stays right because the single writer's memory is the head, or one row behind while it awaits an answer |
| `ChainImplementsLedger` | `Spec => Ledger!Spec` | an `Insert` is a `Record` (the UNIQUE constraint gives distinctness, `HeadTracked` the head), a lost answer or overlap is a `Slip`, the rest stutters |
| `RotationKeepsOneLive` | `Spec => []OneLivePerLogin` | strengthened by `Alone`: a refresh between its DELETE and its save is alone in its login, no live token and no other such refresh |
| `SpentNeverAccepted` | `Spec => [](TypeOK /\ SpentIsRefused)` | from the same invariant: a spent token's row is gone, so a later refresh cannot delete it |
| `WebImplementsRefresh`, `WebRotation` | `WebSpec => Spec`, `WebSpec => [](OneLivePerLogin /\ SpentIsRefused)` | every step of the pages is a request, an answer or a stutter of the auth service; so its theorems hold of the composition |
| `RefusalsAreDeserved` | `WebSpec => RefusedOnlyWhenSpent` | strengthened by `PageWaits` (a page that waits for a refresh waits for that of the very token in localStorage) and `RefusedIsGone` (a refresh that was refused or failed leaves no row of its token) |
| `WalksLeaveNoHoles`, `WalksEndComplete` | `Spec => []WalkHasNoHoles`, `[]WalkIsCompleteIfNoneDeleted` | a page keeps showing what it showed when it was read (`PageShows`): above its oldest message it has every row that is not deleted. That holds of every cached page and every answer under way, since rows are only added and deletions never undone. Underneath are facts about `Newest` and `ListPage` (`NewestIsUpward`, `FewAreAll`, `CutLeavesFirst`, ...) |
| `DeletedStayGone` | `Spec => GoneStaysGone` | from the same invariant: a page read now has no deleted row, and a fill copies an answer that is under way |
| `NewcomerOffers` | `Spec => []OneOffers` | a user is in the set before it lists, so the later of two lists has the other in it; needs `JoinAwaited` (only a page that waits is being added) and `SoundIsMember` |
| `VisitsEndClean` | `Spec => []LeftMeansGone` | `MembersAccounted`: for everyone in the set something is in progress that will take the user out (a join, a stage of the page, a leave, a socket whose end is handled), or the user is `strayed`; and the socket of the current visit is as far as its page's stage says (`SockFollowsStage`) |
| `RolesFollowMembership`, `CachedWasGranted`, `MembersOnly` | `Spec =>` always `RolesNeedMembership`, `OwnerKeepsAll`, `AllowedWasGranted`, `AllowedInside` | one invariant: what a request's checks established (`Established`) survives every other request's commit, or the foreign key catches it; given roles exist and have been counted (`GivenCounted`), so a new role cannot change what was held; the server of a request or channel exists (`Housed`), so creating one cannot let anyone in |
| `PanelShowsItsServer` | `Spec => []PanelOfThisServer` | `PanelInv`: without crossing at most one request is under way, for the server of the URL, and what it read is what the server has (`OneRequest`); with none under way the panel lacks only a channel that is created and unanswered (`PanelHolds`) |
| `NoSecondIcon`, `IconsMatchMembership` | `Spec => []OneIconPerServer`, `[]IconsAreMemberships` | `BarInv`: a create no GET overlaps made a server that is not listed (`CreateAlone`); a GET no create or join overlaps is alone and read what the user is still in (`ListAlone`); otherwise only servers about to be listed are missing (`BarHolds`) |
| `AccountsAreUnique` | `SignUpSpec => []OneAccountEach` | strengthened by whom an account belongs to between INSERT and redirect (`HeldExists`, `HeldOnce`): the existence checks are not needed, the unique columns are |
| `SuccessIsComplete` | `BringUpSpec => []DoneLeavesAll` | strengthened by `PassedSettled`: what a Job has passed is there, or is a statement whose errors are hidden; a hidden one is needed by a later one that is not (`HiddenIsNeeded`, shown of each script) |
| `RerunsAreHarmless` | `BringUpSpec => []RerunsNeverFail` | `FailuresOwed`: an attempt that has passed a hidden statement without its effect was hit by an outage, which is what its later failure is owed to |
| `NothingListedTwice` | `Spec => []NoDuplicates` (`ChannelView`) | `ListInv`: the fetched list rises, and a page asked for by scrolling is older than all of it, also after deletions shortened it. `ExtrasInv`: `extraMessages` has nothing twice, and the placeholder exactly while a POST is under way, so the swap in `handleSend` cannot meet a second one. `allMessages` is the one followed by what `Without` leaves of the other |
| `HeardIsKept` | `Spec => []HeardStaysVisible` | `ExtrasInv` again: all that an event or a 201 brought is in `extraMessages`, which nothing but the placeholder ever leaves; the merge hides only what the fetched list shows |
| `MutedIsObeyed` | `DesktopSpec => MutedStaysMuted` | `Obeys`: in the queue to main a mention stands behind the setting that held when it arrived, the last one queued before it or, if there is none, the stored one; and what the user wants is the last of all. A mention at the head therefore has what is stored. It survives a load of the page, which takes the question for the preference out of the middle of the queue (`LoadObeys`) |
| `BellIsRight` | `DesktopSpec => []BellTellsTheTruth` | `BellInv`: the question and its answer are under way only for a page that is up; unless the bell was used early no setting is queued behind the question, so main answers with what the user wants |

Underneath the last four are lemmas about lists, proved without induction over
them: of n numbers each has another count of smaller ones, so by the pigeonhole
principle the counts are 0 to n - 1 (`EveryRankTaken`) and `Ascending` lists every
number once, in rising order; hence `Without` keeps exactly the elements that are
not to go, in their order (`WithoutKeeps`).

Every safety property of the passing runs is the statement of a theorem. Only
model-checked is liveness (`GhostsExpire`, `NeverStuck`, `LiveMessageShown`,
`PermissionsConverge`, `OpenIsShown`, `ComesUp`, `RegistryLearns`,
`BreakerRecloses`), which needs fairness and ENABLED, and the
prover does neither.

## 7. Where the code and the repository's text disagree

Met while modelling. The properties are stated with the exceptions these make; the
first three are parts of the text that no property states, because the code does
not do them.

* `tasks.md:702-703` says signals are relayed to the target peer, and "peer not
  connected" is the answer if it is not connected. `disconnect` pops whatever socket
  the user has (`signaling.py:34`, `101`; `Pop` of `VoiceChannel`), so the late end of
  an old socket makes a connected user unreachable until the next join.
* `tasks.md:938` says the Create Channel button is "visible to server
  owners/managers". `GET /servers/{id}/members` returns `user_id` and `username`
  only (`MembershipService.java:92-95`), so `hasManageRole`
  (`ChannelSidebar.tsx:83`) is always false and only the owner sees the button
  (`RolesOfMember`, `canManageChannels` of `ChannelSidebar`).
* `tasks.md:1080` says that clicking a notification "navigates to the mentioned
  channel". The desktop shows the static export, of which `next.config.ts:5-8` says
  that it "hard-reloads to the root index.html for real IDs" (`Load` of `Desktop`):
  a click brings the window back and restarts the page.
* `tasks.md:911` asks that a 401 is followed by a silent refresh and one retry.
  `apiFetch` stores the new access token and drops the rotated refresh token
  (`api.ts:55`), so this works once per login: the second silent refresh ends the
  session. `RefusedOnlyWhenSpent` says only that the token is then useless.
  Moreover any answer but 2xx to the refresh ends the session (`api.ts:60-63`), so
  a page loses a good token while auth is down or its breaker open.
* `messages.rs:265` says "Fetch one extra row to detect has_more without a second
  query"; `has_more` (`messages.rs:319`) is computed after deleted rows were
  filtered, so one deleted message in a page hides all older ones. Hence the
  condition of `WalkIsCompleteIfNoneDeleted`.
* `tasks.md:953` says that deleting "removes the message from the list";
  `MessageList.tsx:170` removes it from the fetched messages only, and one that
  arrived while the channel was open stays on the screen.
* `VoiceChannelView.tsx:244` says offers are sent on open "so both peers' sockets
  exist"; the target is listed from its `/join` on and may have no socket yet.
* `tasks.md:921` asks for one icon per server; a create that crosses a fetch of the
  list may show two (`ServerSidebar.tsx:97` appends without looking), which
  `OneIconPerServer` excepts by name.
* `consumer.go:15-16` relies on a single consumer for the chain; an INSERT that
  took effect but whose answer was lost (`store.go:130`) forks it all the same.
  `ChainVerifiesUnlessSlip` is stated with that exception.
* `tasks.md:590` says permission changes take effect immediately for CheckPerm;
  the role cache delays them by up to 60 s, and a check in flight may renew the
  old entry after the change. `PermissionsConverge` states what holds.
* `tasks.md:798` says only sessions whose `subscribed_channels` includes the
  channel are returned; `queryByChannel` does not look at the list, so an index
  entry left by a late register is returned too.

## 8. What is left out

* Data: contents, names, attachments, audit payloads. PostgreSQL's normalisation
  of jsonb (which `verify` must reproduce) is not modelled: a row reads back as
  it was written.
* A user has one voice page; what peer connections do with offers, answers and
  candidates is the browser's.
* Voice: when the service dies its pages notice at once; a page that posts a /leave
  to the new process meanwhile is left out. `SignalRaises` lets an answer or a
  candidate go to any listed user, which a real page sends only to a peer it has.
* Requests that fail their checks in the servers and chat services; they change
  nothing. In `ServerPermissions` names other than (server, role), channel types
  and the cache of usernames are left out.
* Sidebars: the order of rows, texts, and that a channel is text or voice. Another
  session of the same user does not leave or delete servers meanwhile.
* Desktop: the window of a second monitor, menus without effect on the state, and a
  main process that crashes; the preference is on disk when `store.set` returns.
* Deployment: the audit table's indexes are one statement; timings of probes, what a service does after it has started, and
  updates of a stack that is up.
* Not modelled at all: token checks and routing of the gateway (no state); its rate
  limiter (one counter, an INCR and an EXPIRE); attachments (one presigned URL per
  request); tips (one statement per request); the login page's form and the tips
  page; the audit query endpoint (read only); proxy and compose files
  (configuration); contracts (interfaces).

## 9. Plan

Done in this order: presence and the gateway's sockets; the audit chain; refresh
tokens and the page's session; history and view; permissions; voice; the sidebars;
the desktop app; registration with the gateway's breaker and chat's registry; the
deployment; then the proofs of their safety properties. Theorems are kept in eight
modules, so those of a new component go where related ones are.

Next:

1. *Push and backplane*: `PushHandler`, `deliverLocal` and the replicas, composed
   with `GatewaySessions`, so that the fan-out of `ChannelView` rests on a model
   of its own.
2. *Rate limiter*: the INCR/EXPIRE window, with a lost EXPIRE.
3. *Chat's channel cache* composed with `ServerPermissions`: what a deleted
   channel still accepts.

# A verification model of todo-chat-app

TLA+ models of the Go backend under `src/` (a monolith: gin, gorm/PostgreSQL,
gobwas/ws), TLC runs that check them on small instances, and TLAPS proofs of
the safety properties of eight parts for every size of instance: the live chat,
the sharded room manager, the auth middleware, refresh tokens, email
verification, account linking, invitations and workspaces with their tasks.

## The system

One process serves HTTP; every request and every WebSocket has its own
goroutine. Nearly all state is in PostgreSQL; the only shared memory is the
room index of the chat and the JWKS cache of the auth middleware.

| component | state | operations | modelled in |
|---|---|---|---|
| live chat (`service/chat_service.go`, `handler/chat_handler.go`) | `rooms` (channel -> connection -> client) under an RWMutex; a mutex per client | JoinRoom, LeaveRoom, BroadcastToRoom, the read loop | `ChatRoom`, `ChatDelivery` |
| refresh tokens (`service/local_auth_service.go`) | `refresh_tokens` | Login, Refresh, Logout, issueTokenPair | `RefreshRotation` |
| registration and email verification (same file, `email_service.go`) | `users`, `email_verification_tokens` | Register, ResendVerification, VerifyEmail, Login | `EmailVerification` |
| accounts and identities (`service/user_service.go`, `local_auth_service.go`, `middleware/auth.go`) | `users`, `user_identities`, pending link tokens | SyncAuth0User, UpdateProfile, ConfirmAccountLink, SetPassword | `AccountLinking` |
| invitations (`service/workspace_invitations.go`) | `workspace_invitations`, `workspace_members` | Invite, ResendInvitation, AcceptInvitation | `Invitations` |
| workspaces and tasks (`service/workspace_service.go`, `task_service.go`, `middleware/rbac.go`) | `workspaces`, `workspace_members`, `tasks` | Create, Update, Delete; Create, UpdateTask, DeleteTask; RequireWorkspaceRole | `Workspaces` |
| auth middleware (`middleware/auth.go`) | `jwksByK` under an RWMutex | Handle, keyFunc, lookupKey, refreshJWKS, issuePendingLinkToken | `AuthMiddleware` |
| lists (`task_service.go`, `workspace_service.go`, their handlers, the repositories) | the tables | ListByWorkspace, ListByUser, ListMembers, FindByChannelID | `Listings` |
| sharded room manager (`service/chat/room_manager.go`) | 256 shards; not wired into the server | Join, Leave, List, Count | `RoomManager`, `RoomIndex` |
| health, CORS, body limit, routing, configuration, migrations, Kafka and Redis clients | none, or start-up only | | not modelled |

How they interact: the auth middleware runs before every protected handler and
calls SyncAuth0User for Auth0 tokens, so a *first login happens inside any
request*; the account services hand sessions to each other through
`refresh_tokens`; deleting a workspace cascades to members, invitations, tasks,
channels and channel members; deleting an account (Register does when its mail
fails) cascades to its refresh and verification tokens. Handlers share nothing but
the database, and a service method is a *sequence of repository calls that no
transaction joins* (Invite, ResendInvitation, AcceptInvitation and
WorkspaceService.Create are the exceptions). That is where the hard behaviour
is: reads that are stale when the write is made, whole-row writes (gorm's
`Save`, which also inserts a row that has gone), unique indexes and foreign
keys as the only coordination, mails that cannot be rolled back, and crashes
between two calls. In the chat it is snapshots used after an unlock, a mutex
held over a blocking write, and peers that vanish or stop reading. In the key
cache it is a fetch outside the lock whose result replaces the map unseen, and
in the lists a client that pages by offset over rows that move.

`PROJECT.json` lists every hazard at its line, with the properties that cover it.

## Modules

* `ChatDelivery` - the chat's promise: whole messages, each at most once, those
  of one sender in order. `ChatRoom` - the code. `handler[c]` is the program
  counter of the goroutine of connection `c`; a section under `ChatService.mu`
  is one action (it never blocks), and a frame written under `wsClient.mu` is two
  (`WriteHead`, `WriteBody`, as gobwas/ws writes header and payload), because
  there other goroutines and the peer interleave. `WriteReply` is the answer of
  ReadClientData to a ping or a close frame, outside that mutex. `Snapshot` and
  `Prune` are the two ends of BroadcastToRoom; `LeaveRoom`, `CloseConn` are the deferred cleanup.
  Bad frames change nothing and are no steps. `MCChatRoom` gives the constants.
* `RefreshRotation` - a token is the number of its creation and `lineage` tells
  which token it replaced. While `registering`, the Register that made the account
  may still delete it, and its tokens with it (`Rollback`), and a `Save` of its row
  may put the account back (`Resurrect`). `presented`, `raced`, `loggedOut`,
  `closed` and `cut` (the tokens 1..cut were issued before the account was taken
  back) are history.
* `EmailVerification` - all accounts ever made for one address and all links ever
  mailed. `VerifyUpdate` inserts a deleted account again, as `Save` does. `solo`
  are the links whose sending overlapped no other; `swept` is the last of them
  whose DeleteByUserID succeeded too.
* `AccountLinking` - accounts, identities and the copies (`row`) that requests
  keep of an account between read and `Save`; `stale` marks overtaken copies.
  `Admits` is the unique indexes of the migration.
* `Invitations` - one workspace. An open transaction holds its row in
  `req[r].row` (others do not see it) and, for an update, its row lock (`Locked`).
  `Rename` puts a deleted workspace back without members (`alive` without `admin`),
  after which the `Save` of a resend may put a deleted invitation back.
* `Workspaces` - one workspace, its members, tasks and invited users. `stale`
  marks the requests that began before another wrote their task or the workspace
  was deleted, `cut` those that began before the deletion only; `Rename` and `TaskUpdate`
  insert what is gone, as far as the foreign keys allow.
* `AuthMiddleware` - the provider's key sets are numbered (`Docs[v]`), and the
  cache is the number it was installed from. `Lookup` and `Install` are the
  critical sections of `mu`, `Fetch` reads the provider between them. The tokens
  in the hands of clients are Auth0's for this server and for another, local ones,
  those of a wrong algorithm (`misfit`) and the pending link tokens that
  `IssuePendingLink` adds. Auth0 and the local secret are both configured: the server
  does not start without the secret (local_auth_service.go:66), so keyFunc's
  refusal of an empty one is no step. `since` and `overtaken` are history.
* `Listings` - three lists of the same shape, chosen by `kind`. `stamp[i]` is
  taken (`Begin`) before row `i` is visible (`Commit`), as `created_at` is set in
  the server and the row committed later; a workspace the client joins is old
  when it appears. `Answers` is every answer that ORDER BY, OFFSET and LIMIT
  allow, ties in any order. `HandlerSize` and `ServiceSize` are the two
  corrections of the page size. `excuse` is history. Its specification is
  `ListSpec`: `WorkspacesProofs` extends it together with `Workspaces`.
* `RoomIndex` - what IRoomManager promises: one index, every call effective at one
  moment. `RoomManager` - the code: an RWMutex per shard, rooms as objects to
  which a shard's map and a goroutine in a call may both refer. `shardFor` is
  any function.
* `ChatRoomProofs`, `RoomManagerProofs`, `AuthMiddlewareProofs`,
  `RefreshRotationProofs`, `EmailVerificationProofs`, `AccountLinkingProofs`,
  `InvitationsProofs`, `WorkspacesProofs` - theorems and their lemmas.
* `MC*` - constants, symmetry. Operators named `X_Y` next to `X` are deliberate
  mistakes that a run must find when they replace `X`; no specification uses them.

In all modules over the database every repository call is one atomic step, a
statement of PostgreSQL under READ COMMITTED, and a request may end after any
step (`Dies`: an error is returned or the server stops). A history variable
is never read by an action that models code, it only lets a property speak of
the past.

## Runs

| run | instance | what it shows |
|---|---|---|
| `ChatRoom` | 2 connections, 3 messages, a ping or close frame, 1 peer stalling, 1 vanishing | the room index has no leak and loses nobody; a broadcast reaches every client of its snapshot that lives, in whole frames; `ChatRoom` implements `ChatDelivery`; every broadcast ends, a vanished peer is reaped |
| `ChatRoomPong` | violation | the answer of ReadClientData to a ping or close frame lands inside a frame (finding) |
| `RefreshRotation` | 2 requests, 3 tokens, a registration that may be taken back | rotation; an unused token ends by expiry, logout or with its account; final logout |
| `RefreshReuse` | violation | overlapping refreshes both succeed (finding) |
| `EmailVerification` | 2 requests, 2 accounts, 3 links | an account is verified by its own link; links die; the cooldown holds unless raced; registrations that were answered stay; no session before the verification |
| `AccountLinking` | 2 requests, 2 subjects, 2 accounts | answers are the linked account; credentials change only by stale writes |
| `AutoLink` | violation | a registration inside a first login is linked without consent (finding) |
| `Invitations` | 2 requests, 2 users, 3 rows, 4 tokens, a deletion and the rename that undoes it | live invitations were mailed; a membership uses up an invitation |
| `TwoInvitations` | violation | two live invitations of one address (finding) |
| `Workspaces` | 3 requests, 2 users, 1 task | access ends with the deletion; nothing lives outside the workspace; writers are members; updates are lost by stale copies only |
| `AuthMiddleware` | 2 requests, 3 key sets (one without RSA keys), 6 tokens (one expired, one of a wrong algorithm) and a link token | only access tokens reach a handler; a published key is found unless an older key set came in between; the cache recovers from rotations |
| `Listings` | 4 rows, 3 time stamps, pages of 1 or 2 | what a walk through the pages can miss or see twice, and why |

Several properties excuse what a history variable (`raced`, `stale`, `solo`,
`reopened`, `overtaken`) records: that another request came between a read and the
write that relied on it. They say that the code is right without such an overlap
*and* that no other cause (a failure, a crash, a retry, a different handler) breaks
it; a race that is excused is not covered by them. The violation runs show the
races of refresh tokens, linking and invitations to be real. `cut` excuses what was
begun or issued before the workspace or the account was deleted, and nothing else.
What each excuse lets pass is in the comment of its property. In `Listings` the
excuses are those the code cannot avoid with offsets: a deletion, an insertion
between the two queries or above the rows already read, equal stamps. Each of them
is needed.

### Bounds

* Two requests at a time, because every race of the account and invitation
  code is between a read and one overtaking request; requests are reused, so any
  number follow each other. `Workspaces` needs three: an invitation, a rename and
  the deletion together.
* Chat: two connections that both send race their broadcasts, prunes and
  leaving; order and repetition need a second message of one sender. Three
  connections or several channels add no step that these do not have, and the
  proofs cover any number of either.
* Keys: a key, its successor, and between them a key set that must not be
  installed; two requests are enough for an older key set to overtake a newer
  one. The proofs cover any number of both.
* Lists: four rows make two full pages and room for an insertion and a deletion
  between them; three stamps allow a late commit, a tie and an order.
* `MaxTokens`, `MaxUsers`, `MaxRows`: a token, its successor and a competitor; an
  account and one made after a rollback; a row, a renewed one and a duplicate.
  At the bound creation is disabled, the rest goes on.
* Two addresses and two subjects of different providers, one of which changes its
  address (`Moving`): needed for the collisions of the unique indexes.

Deadlock is checked in all runs. Where the system is done a stuttering step
(`Finished` in `ChatRoom`, `Stop` in `Workspaces`) says so.

### Fairness

`ChatRoom`: strong fairness of each goroutine's steps: the Go
scheduler runs every runnable goroutine and `sync.Mutex` hands over to a waiter
that has starved for 1 ms, so a goroutine that can again and again get the mutex
gets it. Weak fairness of the read deadline (a timer), and of `PeerResumes`.
The last is an assumption on the *peers*: the code has no write deadline, and
without it a peer that stays connected and does not read blocks the broadcast,
and whoever broadcasts after it, for good. No property asserts otherwise.

`AuthMiddleware`: weak fairness of every request (the HTTP client gives up after
5 s, nothing else blocks). On the outside, strong fairness of `Fetch`: the
provider does not fail every time it is asked, and of `Handle` for each token
that the provider signed (`Keyed`): clients go on sending it. `RecoversFromRotation`
also supposes that the provider keeps publishing the key from some moment on.

## Proofs

Every safety property of a passing run is also a theorem. Each proof has an
inductive invariant, which TLC checked on small instances before it was proved.

`ChatRoomProofs` (any connections, channels, numbers of messages and pings):

* `TypeCorrect`. `TypeOK` alone is not inductive: writing needs that a goroutine
  in the loop has a current client (`CurOK`) and has read a message (`MsgOK`).
* `FrameMutex`: `LockGuardsFrame` is inductive with the types.
* `RegistrySafe`, `NoLostSubscriber`: the two need each other and `FailedClosed`:
  the clients a goroutine has collected as failed are closed, because
  CloseFailed closes before it appends. With it a prune, however late, removes
  closed connections only. The lemmas on `SetRoom` say what each section
  under `ChatService.mu` does to the map.
* `BroadcastComplete`: a step inside a broadcast leaves no client behind. The
  invariant `Reached` says of every goroutine in the loop that each client of its
  snapshot is still to be visited, is the current one, is dead, or has the whole
  message; death and delivery persist (`Persists`), whatever the others do.
* `FramesInOrder`: on a wire whose client lives, the last frame is open exactly
  while a goroutine is at its payload, and it is that goroutine's message
  (`WireOK`); by `FrameMutex` there is only one. A frame that a failed write
  leaves open stays the last, since its client is dead from then on.
* `DeliveryKept`, the refinement of `ChatDelivery`: `ReadText` posts, `WriteBody`
  to a peer that is there delivers, every other step stutters (`PayloadSteps`).
  The guard of Deliver follows from `DeliveryInv`: the clients a broadcast has
  still to write to are of the sender's channel, which needs `RegistrySafe` for
  the snapshot, and are visited once (`LoopOK`); and a client that has still to
  get the current message of a sender has older ones of that sender only
  (`InboxOK`, with the bound that `BoundNext` shows never to fall). What a wire
  delivers is a fold over it; `PayloadsAppend` proves the one fact needed of it by
  induction, as the absence of a least counterexample.

`RoomManagerProofs` (any goroutines, channels, connections, and any `shardFor`):
`ManagerTyped`, `RoomsAreRemoved` and the refinement `ManagerIsIndex`
(linearizability). The invariant has three layers: a writer is alone in its
shard (`LockInv`); a channel has at most one room, its own (`RoomInv`), and the
room a goroutine has looked up is still that of its channel (`HeldInv`), which
holds since whoever could remove it needs the same lock; an empty room is in the
hands of somebody who is about to fill or remove it (`EmptyInv`). A call takes
effect at `Put`, `Delete`, `Read` or `NotFound`; making or removing an empty
room does not show.

`AuthMiddlewareProofs` (any requests, keys and key sets): `MiddlewareTyped`,
`OnlyAccessTokens`, `KeysAreFound`. The invariant `DocInv`: what a request
fetched is no older than the request, and the cache no older than that until
somebody installs an older key set over it. No request in progress has a misfit.

`RefreshRotationProofs` (any number of requests and tokens): `RotationTyped`,
`RotationKills`, `RotationSingleUse`, `RotationIsolated`, `LogoutEnds` from one
inductive invariant, `IInv`: the properties together with facts on requests
in flight, the main ones being that a token in state "issue" is out of the table
(`IssueIsDead`) and that two requests with one token are recorded in `raced`.
`RotationIsolated` excuses the tokens up to `cut`, which the cascade of a
registration's rollback deletes; `RotationKills` says that none of them comes back.

`EmailVerificationProofs` (any number of requests, accounts and links):
`VerificationTyped`, `VerifiedByMailbox`, `LinksWorkOnce`, `LastLinkWorks`,
`CooldownHolds`, `SessionsBelong` and the action property `AnsweredStays`. The
invariant `IInv` says of each request in flight what it carries (an account and a
token that were made, the redeemed link if it is to verify), and of each *pair* that
a sending marked `solo` overlaps no other one and that no two requests would undo
one account (`PairOK`). `NewestLinkWins` rests on `ClearedIsEmpty`: between
a DeleteByUserID that succeeded and the insertion the account has no valid link; the
cooldown on `YoungIsSeen`: a sending that overlaps no other goes on only when
every link that is there has aged. The cooldown is about young links: it does not need
the cleanup, whose failure can leave an aged link valid.

`AccountLinkingProofs` (any number of requests, subjects, addresses, accounts):
`LinkingTyped`, `AnswersAreLinked`, `AutoLinkNeedsRace`, `PasswordlessStayReachable`
and the action property `CredentialsStay`; also `SubjectsHaveOneAccount`, a
consequence no run states: two sign-ins with one subject get one account. The main
strengthenings are on the copies that requests keep of a row: a copy no Save has
overtaken has the credentials of the row (`CopyIsFresh`), and a copy without a
password is of an account that can sign in, since it may be written back at any
time (`CopiesCanSignIn`). `PasswordlessStayReachable` excludes the accounts whose
first login died between Create and the identity (`abandoned`): nobody can sign
into those, and the theorem says that nothing else makes one. `Numbered` (accounts
are 1..n) gives a new account a number that no request, link or copy names;
`LinkedOnce` is the unique index.

`InvitationsProofs` (any number of requests, users, rows, tokens, and row ids in
any order): `InvitationsTyped`, `InvitationsAreMailed`, `MembersUsedUp`. A
transaction that can only commit has mailed its token and holds off the deletion
(`CommitIsMailed`). An id stands for one address for good, also when its row is
deleted with the workspace and put back by a resend: a row that is there is for the
address that was read (`ReadIsSame`), and so are the copies of any two requests
(`Agree`). So an acceptance uses up a row of the member's own address (`AcceptsOwn`).

`WorkspacesProofs` (any number of requests, users, tasks): `WorkspaceTyped`,
`DeletionIsFinal`, `NoOrphans`, `WritersBelong` and the action property
`NoLostUpdates`. After the deletion whoever is past a role check is `cut`, and so
is what their invitations lead to (`LateInvitesAreCut`); the copy of a task that
nobody has overtaken differs from the row in the fields to be set only
(`CopiesAreFresh`).

The same module proves the lists of these rows (any finite set of rows, any time
stamps and page sizes): `ListTypes`, `ListMissesNone`, `ListShowsNoneTwice`. The
properties speak of sets, the queries of places in an order, so the invariant
`ListInv` is about places: `Position(i)` is the number of rows before row `i`.

* `PagePositions` is what the argument rests on: without ties, a query with
  OFFSET o and LIMIT n returns exactly the rows whose position is in o .. o+n-1,
  whichever of `Answers` it gives.
* An insertion increases the positions behind it by one and leaves the others; a
  deletion decreases them. So until a deletion, each row of the start whose
  position is below the next offset has been seen (`SkippedIsSeen`); and until
  an insertion before a row that was seen, every row seen has a position below the
  next offset, even when it is deleted and written back (`SeenIsSkipped`).
* `LastPage`: TotalPages, rounded up, leaves no row that was counted behind the
  last page. With `TotalCounts` (the rows of the start are within the count
  unless `raced`) this is `NoneMissed`.
* The history needs no positions: what was seen is at the cursor or above
  (`SeenIsNewer`), and what is at the cursor or above was seen (`NewerIsSeen`).
  Only the second needs that there are no ties.
* `ListOffsetsFit`, which no run states: no page that the answers lead a client to
  has an offset above the number of rows, so (page - 1) * pageSize does not
  overflow in a walk.

Assumptions are those named in the modules (`ChatAssumption`,
`RotationAssumption`, `AuthAssumption`, `VerificationAssumption`,
`LinkingAssumption`, `InvitationAssumption`, `WorkspaceAssumption`,
`ListingAssumption`): the types of the constants, that the values standing for
"none" are not values, and that a table has finitely many rows.
`RoomManager` needs none. It has no run of its own, because its proofs cover
every property that it states.

Model-checked only: the liveness properties `BroadcastEnds`, `VanishedIsReaped`
and `RecoversFromRotation`, since the prover does not handle fairness.

## Findings

Four runs expect a violation; each contradicts a sentence of the repository, quoted in
`PROJECT.json`: `ChatRoomPong` (frontend guide: a message is a text frame),
`RefreshReuse` (frontend guide: a refresh token can be used once), `AutoLink`
(comment in user_service.go: never auto-link), `TwoInvitations` (sprint 2 document:
an unexpired invitation is an error, an expired one is updated).

One more disagreement takes no race: docs/frontend-guide.md:399-416 shows an access
and a refresh token in the answer of POST /auth/register. Register
(local_auth_service.go:84-125) returns none, and docs/architecture.md:392-397 says
that there is no session before the verification. `SessionsAreVerified` states what
the code and the architecture document agree on, and holds; the guide is out of date.

## Not modelled

* Health probes, CORS, the body limit, routing, response shapes, configuration,
  migration commands, Kafka and Redis clients: stateless, or start-up I/O.
  Signatures, hashing, JSON, SMTP: values and choices.
* Clocks: expiry, cooldown and the read deadline happen at any time after they
  can. A withdrawn signing key has no age in the cache, so no property limits it.
* Channel membership: JoinRoom's check is a choice. No operation of the code adds
  or removes a member, but the deletion of a workspace cascades to its channels and
  their members, and no connection is told: a WebSocket that is open goes on
  receiving what other open ones of the channel send. `DeletedAdmitsNobody` is about
  requests and does not cover it (a hazard without property in `PROJECT.json`).
* Shutdown: it neither closes nor waits for WebSocket connections, so to them it is a crash.
* Validation of fields, the slug, reads of one row and Search: pure checks or reads.
  Page numbers beyond the last page, and their overflow, are not walked to.

## Plan

1. Done: all components with state of their own; proofs of every safety property
   of a run, and both refinements.
2. Next: page numbers that no answer leads to (the width of the offset in
   `Offset`, and what gorm does with a negative one), and the end of a channel
   membership (today the deletion of the workspace) together with the connections
   that are open at that moment, once the code or a document says what they get.

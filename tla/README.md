# Trip2World: specifications

Trip2World is a random one-to-one video chat. Browsers hold a socket to one of several realtime
nodes; the nodes share Redis (queue, locks, occupancy, live matches, presence) and PostgreSQL
(accounts, match rows, tokens, campaigns, reports). An HTTP API and a worker use the same stores.
No process keeps authoritative state of its own: every protocol is a sequence of Redis commands or
SQL statements that other processes interleave with. The browser is concurrent too: its handlers
`await` the network, the camera and the peer connection, and go on with what they held before.
That is what these modules model.

## 1. Inventory

| Component | Code | State | Operations | Talks to |
|---|---|---|---|---|
| Pairing protocol | `apps/realtime/src/{matchmaker,queue.repository,server}.ts` | queue entries, pair locks, `user-match`, `match:{id}`, Match row | tick / join → tryMatch → announceMatch; leave, skip, end, block, report, disconnect, shutdown → teardownMatch | selection policy, presence, moderation (evicts) |
| Queue index, presence | `queue.repository.ts`, `presence.ts` | entries, sorted sets by shard; sockets per user, online set | add, scan, prune, expire; connect, disconnect | pairing |
| Selection policy | `packages/shared/src/matchmaking.ts` | none (pure) | hard rules, relaxation by waiting time, score, choice, shards | called by tryMatch |
| Conversation | `shared/session-machine.ts`, `web/src/hooks/use-conversation.ts`, `server.ts` | session state, peer connection, match id, timers | socket handlers, buttons, timers, relay | the registry, in socket order |
| Call panel | `use-conversation.ts`, `lib/media.ts`, `discover/page.tsx`, `tips.tsx` | camera, switch-over, controls, items of a call, dialogs | start, switch, mute; messages, tips, offers, requests | browser, realtime, API |
| Settings page | `settings/page.tsx`, `language-switcher.tsx`, `profile.routes.ts` | the page's copy of the profile, the open tab's form, calls under way; profile, interests, preferences | load, tabs, edits, saves, deletion; GET, PATCH, PUT | API, sessions |
| Browser tab | `ui/src/api-client.ts`, the session providers, the pages that list and act | access token, refresh in flight, page | boot, sign in and out, refresh, load, act | API |
| Sessions | `apps/api/src/services/auth.service.ts`, `plugins/auth.plugin.ts` | Session rows, generation, denylist, access tokens | login, refresh, logout, reset, change, delete | account status |
| Account standing | `moderation.service.ts`, `queries.ts`, `worker/src/jobs.ts` | reports, actions, bans, status | claim, resolve, reinstate, expiry by job and lazily, erasure | sessions, eviction from matchmaking |
| Connections, blocks | `connections.routes.ts`, `safety.routes.ts`, `queries.ts` | requests, pairs, blocks, block cache | request, answer, remove, block, unblock | queue snapshots |
| Token ledger | `packages/database/src/tokens.service.ts` | accounts, ledger, purchases, tips | sendTip, respondToOffer, createPurchase, fulfilPurchase, adjust | realtime (`tip:*`), API (checkout, webhook) |
| Campaigns | `campaigns.service.ts` | campaign row, grants | applyEligible/claim, releaseSlot, update, setStatus | sign-up, verification, sign-in; admin routes |

What makes each hard, and what makes it correct:

* **Pairing.** Every `await` is an interleaving point, on several nodes. Locks and keys have TTLs, a
  node may die or a command reject anywhere, and several flows close the same match. Correct means:
  one conversation per account; a claim never strands a user; a late teardown never evicts a user
  from the next match; the locks cannot cross.
* **Queue index, presence, policy.** A scan reads in three steps and prunes what it missed; the
  last-socket test is three commands. Correct means: whoever can be paired is, nobody without a tab
  stays online, the choice does not depend on the order of a set.
* **Conversation.** Messages of an earlier match arrive in the next one; every message may be lost
  with its socket. Correct means: no signal crosses matches, no spinner without an end, nobody alone
  in a conversation.
* **Call panel.** `getUserMedia` and `replaceTrack` fail, or answer after the call or the page.
  Correct means: what is sent runs and is what is shown, an off camera is off, no camera stays on.
* **Settings.** One copy, a form per tab that starts from it, and saves (one of them two calls) that
  outlive the tab and the page. Correct means: a page at rest shows what is stored; replacing the
  interests keeps their limit.
* **Tab.** Several calls meet an expired token at once; the refresh cookie rotates, and using it
  twice revokes the session. Correct means: it is spent once, sign-out leaves no session behind,
  every call ends, a page shows what it has done.
* **Sessions.** Reads straddle the revocation. Correct means: what ended a session ended its tokens.
* **Standing.** Checks precede transactions; three processes lift restrictions. Correct means: a
  restriction has its row, evicts, stands until lifted, and ends when its time has come.
* **Connections, blocks.** Four kinds of call over three tables. Correct means: consent of both,
  blocks win and reach the matchmaker, a removal removes what it saw.
* **Ledger.** PostgreSQL at READ COMMITTED: a guard is worth something only inside the statement
  that writes. Correct means: nobody overspends, tokens are conserved, the ledger replays.
* **Campaigns.** A counter reserved outside the transaction, edits meanwhile. Correct means: once per
  user, within the cap, slots accounted for.

`PROJECT.json` lists each hazard at its line with the properties that address it, or why none does.

## 2. Modules

| Module | What it is | Theorems |
|---|---|---|
| `Occupancy` | What matchmaking promises: two free users are paired in one step under a fresh id; a user is freed later. | |
| `Matchmaking` | The pairing protocol and every realtime flow that writes its keys, one action per Redis or SQL command. | `MatchmakingProofs` |
| `Selection` | The pairing policy as operators. | |
| `Lobby` | Presence, the queue's index and the scans, over `Selection`. | `MatchmakingProofs` |
| `Conversation` | Two pages, their sockets and the server's handlers. | `PageProofs` |
| `CallPanel` | Camera, controls and what belongs to one call. | `PageProofs` |
| `Settings` | The settings page, its calls, and the routes and rows they reach. | `PageProofs` |
| `Tab` | API client, session provider and a page, with the server's sessions. | `TabProofs` |
| `Sessions` | The credentials of one account under concurrent requests. | `SessionsProofs` |
| `Standing` | Sanctions, reports, deletion and expiry of one account. | `StandingProofs` |
| `Contacts` | Requests, connections, blocks, the block cache. | `ContactsProofs` |
| `Bank` | What the ledger promises: whole issues, withdrawals and transfers, never overdrawn. | |
| `TokenLedger` | Tips, corrections, purchases and time offers as READ COMMITTED transactions. | `TokenLedgerProofs` |
| `Campaigns` | Claims of one campaign against each other and against an administrator's edits. | `CampaignsProofs` |
| `MC*` | Small sets, symmetry and bounds for TLC. | |

Definitions marked as mutants are plausible mistakes in the code, beside the action each would break. No
specification uses them; they show that the property listed with them can fail.

How the modules compose: `Matchmaking` implements `Occupancy`, and `Conversation` and `Lobby` build
on that: a pairing, and the end of a match, is one step there. `TokenLedger` implements `Bank`; the
credit of a campaign's grant is a `Credit` of it. `Tab` uses sessions as `Sessions` keeps them: one
refresh cookie, rotated by each refresh, whose reuse revokes the session. `Standing` evicts the keys
that `Matchmaking` writes; the two are not checked together.

### Matchmaking and the code

An *Attempt* is one run of `attemptMatch`. It draws its own lock token and match id, so the attempt
stands for both. A *Handler* is one run of a socket-event handler or of the shutdown loop.

| Variable | Code |
|---|---|
| `entry` | `queue-entry:{id}` exists |
| `lock` | `match-lock:{id}` and the token in it |
| `occ` | `user-match:{id}` and the match id in it |
| `registry` | `match:{id}` exists |
| `row` | the Match row: absent, open, or finalised (and by which handler) |
| `pc`, `seeker`, `partner` | program point and locals of an attempt |
| `hpc`, `huser`, `hmatch`, `hgone` | program point and locals of a handler; `hgone`: it also leaves the queue |
| `online` | the user has an open socket |
| `won`, `expired`, `fate` | history: both claims made; a lock lost to its TTL; crashed or threw |

`tryMatch` is `Start`, `SeekerFree`, `Select`, `LockFirst`, `LockSecond`, `UndoFirst`, `Verify` (four
reads), `ClaimSeeker`, `ClaimPartner`, `Rollback`, `LeaveQueue`, `Persist`, `Unlock`; `announceMatch`
is `SaveMatch`. `teardownMatch` is `Participants`, `Release` (two compare-and-deletes), `RowRead`,
`RowWrite`, `DeleteMatch`. The selection policy is the free choice in `Select`, so what is shown of
safety holds for every policy. `Faults` says which failures may happen: a node's death, a rejected
command (the `finally` block still runs), and the TTLs of locks, entries and occupancy keys.

### Lobby, Selection and the code

A scan is `ReadShards` (the sorted sets), `ReadEntries` (the snapshots), `Prune` (members without an
entry) and `Choose`, whose commit is one step here. A join and a leave load the profile and write
later; a leave removes by the country it loads, which may no longer be the one it joined with.
A disconnect is SREM, SCARD, DEL and the leave. `Selection` has the hard rules, the relaxation ladder,
the score with the code's weights, and the choice with its tie-break.

### Conversation and the code

`client[u]` is what the refs of `use-conversation.ts` hold; the session machine is `TRANSITIONS`, with
illegal moves skipped as `transitionTo` skips them. A page's events are handled one by one in the
order of its socket; a handler that awaits the peer connection is a `job`, which goes on with the
connection it began with. Requests are unordered among the server's handlers; a server handler ends
the match in one step and emits in a later one (`wire`). Faults are chosen by kind: refusals,
dropped sockets, unreachable peers, a stopped camera.

### CallPanel and the code

`switchCamera` is three steps: the press, the browser's answer (`OtherCamera`, which copies the mute
state and begins `replaceTrack`) and `Replaced` or `NotReplaced`. What is shown of a call carries the
call it came from. A tip's transfer is `TokenLedger`'s; here it is the dialog.

### Settings and the code

`copy` is the `profile` of `SettingsPage`, `form` the state of the tab that is mounted: it starts from
`copy` (`Mounts`) and does not follow it, which is why `stale` is kept. `Save` is a tab's button, off
while a call of that form runs (`Busy`); a call whose tab was left still reports to the page, one whose
page was left to nobody (`of`). The profile tab's save is two calls, `PatchProfile`, then
`thenInterests` and the transaction `PutInterests`, `Deleted`, `Inserted`, `CommitInterests`, whose
delete waits for another that deletes a row it saw and whose insert waits for another's row of the
same key; the answer is a read of its own (`loadProfile`). `Fails` is a call lost before or after it was
served. `PatchPrivacy` compares the keys that the tab sends with those the schema takes. `profile`
stands for texts, country and gender; `countries` for the preferences. `MCPages` opens this page or the
discover page: neither reads what the other writes.

### Tab and the code

A call of the API client goes from sent to served to answered; a 401 makes it wait for the one refresh
in flight (`refreshPromise`) and be sent again once. The server's sessions are numbered by sign-in,
`spent` are those whose cookie was used. The page loads a list, acts on a row, and loads again.

### Sessions, Standing, Contacts and the code

A *Call* is one HTTP request; each statement or transaction of it is a step, and it keeps what it has
read. In `Sessions` a session is named after the call that opened it, an access token carries its
session and generation, and `Accepted` is what `auth.plugin.ts` and `socket-auth.ts` test. In
`Standing` a sanction's row is named after its call; the worker's sweep reads, scans and writes in steps
of its own. In `Contacts` a row has an id that is never used again; `known` is the cached block list
and `join` the one a queue join has read and not yet cached.

### TokenLedger, Campaigns and the code

A *Tx* is one call of `sendTip`, `adjust` or `fulfilPurchase`; `work[t]` is what it has written and not
committed. A row in `work` is a row lock: another transaction's write waits, reads see committed data.
`Debit` is the conditional update, `Credit` the native upsert, `Commit` the ledger rows and COMMIT,
`Abort` any failure, including a deadlock resolved by the database. A *Reply* is one `respondToOffer`,
which uses no transaction. A *Claim* is one pass of `applyEligible` over the campaign for one user:
`Eligible`, `ReadCampaign`, `Existing`, `Reserve` (the conditional counter update), `Grant` (the
transaction; the unique index lets one claim of a user commit), `ReleaseSlot`. An *Edit* is one
`update` or `setStatus`: a read and check, then `Write` by id alone.

## 3. Runs

| Run | Instance (states) | Checks |
|---|---|---|
| `teardown` | 2 users, 2 attempts, 2 handlers, entry TTL (3.3 M) | `NobodyLeftBehind`, `OccupancyKept`: whichever flows close a match, at whatever time, each user is released once and from that match only |
| `wedge` | 2 users, 2 attempts; crash, throw, lock and occupancy TTL (297 k) | `NoCrossedLocks`, `NoDoubleBooking`, `HalfMadeResolves`, `ImplementsOccupancy`: no failure makes conversations overlap or strands a user |
| `index` | 3 users, one with 2 tabs who leaves, joins and moves; 1 scan at a time, 2 regions, a ladder of 2 stages (203 k) | `TypeOK`, `OneAnswer`, `OnlineHasTab`, `WaitersMeet` |
| `calls` | 2 pages, 2 matches, 3 presses, 1 refusal (1.2 M) | `SignalsOfThisMatch` |
| `ghosts` | 2 pages, 2 matches, 1 press of any button, 1 fault of any kind (837 k) | `SpinnersEnd`, `GhostNoticed` |
| `pages` | discover page: 2 calls, 2 cameras' tracks, 3 things shown at a time; settings page: 2 calls at a time, 2 edits, 2 saves, 2 interests, limits of 1 (1.1 M) | `SendsLiveCamera`, `OffIsOff`, `NoStrayCamera`, `ThisCallOnly`, `InterestsWithinLimit`, `ShowsStored` |
| `screens` | 2 calls at a time, 1 sign-in, 2 acts (1.0 M) | `NeverSpent`, `OneSession`, `SignedOutForGood`, `ShowsItsActs`, `CallsEnd` |
| `tokens` | 3 requests of any kind, 1 device signed in (150 k) | `KickedOut`, `SignedOut`, `OpenedWithCurrentPassword` |
| `account` | 3 requests of moderators and owner, 1 report, the worker (890 k) | `SettledReports`, `RestrictedIsEvicted`, `BanStands`, `SuspensionOver` |
| `contacts` | 2 users, 4 calls, 1 queue join, 2 rows (313 k) | `ConsentOfBoth`, `RemovesWhatItSaw`, `BlockWins`, `BlocksReachTheQueue` |
| `money` | 2 users, 3 transactions, 1 reply, 1 purchase, amounts 1-2, balances 0 or 2 (612 k) | `LedgerReplays`, `TipsAreWhole` |
| `cap` | 2 users, 3 claims, 1 edit, caps 1-2 (1.1 M) | `SlotsAccountedFor`, `OncePerUser`, `WithinCap` |

Why the bounds are enough. A teardown that comes late needs two matches of the same users and two
handlers, one per match or two on one. A lock lost to its TTL needs the attempt that stalls and the
one that takes over. A signal of the wrong match needs two matches in succession, and a press to end
the first; a ghost needs one failure anywhere. A spent cookie needs two calls that meet the same 401;
sign-out against refresh needs the two of them. A switch-over that is overtaken needs the old track and the new
one. Overlapping saves need two calls, which may replace one interest by another, and an edit of each
form. A stale revocation needs three requests: one that read, one that
changed, one that uses. A removal of something newer needs the removal, the other's, the request and
the answer that come after. Double spending needs two debits and a credit between; a cap is
exceeded by two users and cap 1. Calls, transactions, claims, attempts and handlers are used once
each; `MaxRows`, `MaxLogins`, `MaxActs`, `MaxJoins`, `MaxEdits`, `MaxSaves`, `MaxPresses` and `MaxFaults` bound the counters.
`MaxShown` bounds how much `pages` shows of calls at one time: no action treats a thing that is shown by
what else is, and 3 are a tip with its offer beside something late.
The theorems of section 5 hold for every value of them.

Symmetry is used only without liveness, and never of users in Matchmaking, whose lock order compares
them. In `pages`, where one page alone is open, a permutation of one page's values goes together with one
of the other's, which keeps the group small. The systems stop when every call has ended, so deadlock is no error in these runs.

A property that needs an exception has it in its statement, not in the model: `KickedOut` exempts a
refresh whose two reads straddle the end, `BanStands` a sign-in that had found an expired suspension
before the ban, `OffIsOff` a press during a swap, `NoStrayCamera` what a rejected swap or a closed page
lost, the session properties of `Tab` a tab that lost an answer,
`InterestsWithinLimit` a replacement that met another one's transaction, `ShowsStored` a load or save
that overlapped another and a form opened while one ran. Each exception is a behaviour the
code has.

### Where the code differs from its comments

These formulas say what a comment says. They stand in the modules, no run checks them because they do
not hold, and TLC shows how with the run given once the formula is put into its .cfg.

| Formula | The comment | What happens | Run |
|---|---|---|---|
| `Matchmaking!MatchedNotQueued` | `matchmaker.ts:126` | a `queue:join` that passed its checks before the pairing writes its entry after it | `teardown` |
| `Matchmaking!DepartedIsFree` | `server.ts:967` | a disconnect between the claims and `saveMatch` finds no registry entry, releases nobody, and the match is then registered for somebody who left | `teardown` |
| `Matchmaking!FinalisedOnce` | `matchmaker.ts:224` | two teardowns read the row open and both finalise it | `teardown` |
| `NoDoubleBooking` under `LongCallSpec` | `queue.repository.ts` TTLs | nothing extends the hour that occupancy and registry keys live | `teardown`, 1 handler |
| `TokenLedger!CreditedOnce` | `tokens.service.ts:300` | two deliveries both read PENDING; the second update waits for the first, then writes the same event id to the same row, which violates no unique constraint, and credits again | `money` |
| `TokenLedger!AnsweredOnce` | `tokens.service.ts:229` | two answers pass the check; the last write wins | `money`, 2 replies |
| `Campaigns!OneAmount` | `campaigns.service.ts:323` | a claim falls between the check and the write of an edit of the amount | `cap`, 2 amounts |
| `Conversation!ConfirmedIsQueued` | `server.ts:530` | Next announces `queue:joined` without a queue entry: the page says it searches and is in no queue | `calls` |
| `Sessions!ResetSticks` | `auth.service.ts` rehash at sign-in | a sign-in that verified the old password writes its rehash over a reset | `tokens` |
| `Standing!CancelRestores` | `auth.routes.ts:367` | cancelling a deletion clears the request and leaves the status DEACTIVATED | `account` |

Four more, met in `Settings`, are in the model as the code has them and in the exceptions of its properties:

* The privacy tab's save is always refused. It sends back the row as `loadProfile` gave it, with its
  keys and `fieldOverrides`, and `updatePrivacySchema` is `.strict()` (`page.tsx:356`,
  `profile.routes.ts:74`, `profile.schema.ts:47`; `page.tsx:81`: "every tab reports success the same
  way"). `PatchPrivacy` never stores.
* Two replacements of the interests at once leave both choices, more than `MAX_INTERESTS_PER_USER`
  (`raced`; `profile.routes.ts:176`: "delete-then-insert inside one transaction avoids the diffing
  bugs").
* A form opened while a save runs shows, and if saved writes back, what was stored before it (`stale`).
* A first load that fails leaves the page at its spinner: the error is shown only beside a profile
  (`page.tsx:101`; `there` stays FALSE).

## 4. Fairness

Safety is checked and proved without any. The liveness properties assume:

* `wedge`: `WF(AttemptStep(m))`, because the event loop of a live node runs its continuations (a crashed
  attempt has no enabled step, so nothing is asked of it), and `WF(ExpireOccupancy(u))`, because
  Redis expires a key whose TTL ran out. `ExpireOccupancy` is confined to attempts that failed before
  registering: an hour outlasts a running attempt. That a live conversation can outlast the hour is
  `LongCallSpec`.
* `index`: handlers, scans and seconds go on; `SF(Tick(u))`, because the tick's interval comes back to
  every waiting user although other scans keep taking the only slot; entries of those who left expire.
* `ghosts`: a page handles what reached it, an armed timer fires, and ICE notices a closed peer. The
  server, jobs and users get none: the timers must do without them.
* `screens`: a request in flight is answered or given up by the browser, and its continuation runs.
* `account`: the worker's jobs go on, `SF(SweepRead)` because the schedule queues it again although the
  erasure may be running whenever it comes; suspensions run out.
* `contacts`: a join that read the blocks caches them, and a cache entry's TTL runs out.

Handlers of a node that may die, transactions and HTTP requests get none: each may stop between two
statements.

## 5. Proofs

Two proof modules are about several components: `PageProofs` extends `CallPanel` and `Settings` and takes
`Conversation` as an instance `C`, `MatchmakingProofs` extends `Matchmaking` and takes `Lobby` as `L`. An instance's
assumptions are not facts of the module that takes it, so the theorems about these two name what they
use of them as a hypothesis (`Bounds`, `TabsOwned`).

All theorems are for every value of the constants, from the assumptions the modules name: `None` is
no value of what it is optional in; bounds, user ids, amounts and caps are naturals (amounts and caps
positive); claims are finitely many; `Op` gives each call its kinds; a call is not also a device.
TLC evaluates each assumption in the runs of its module.

No property below is inductive alone. Each proof finds the invariant that is (TLC checked it on the
run's instance first), shows that `Init` has it and that a step preserves it, with one lemma per part
or per action, and takes the property from it.

**Matchmaking** (`NoDoubleBooking`, `NoCrossedLocks`, `NobodyLeftBehind`, `OccupancyKept`,
`ImplementsOccupancy`, lock exclusion, types). Four parts, each preserved given the earlier ones:

* `ControlInv`: types, and what a position tells (at `leaveS` both claims were won; a registered match
  was won, done and did not fail; a closing handler's match is done).
* `LockInv`: whose token a lock can hold at each position, and which locks an attempt still holds if
  none expired. Exclusion and `NoCrossedLocks` follow with the order of the ids.
* `OccInv`: whose id an occupancy key holds, and that an open conversation holds both its users.
  `NoDoubleBooking` follows: a common user's key cannot hold two ids. It does not use the locks:
  the claims alone protect the occupancy, which is why an expired lock costs nothing.
* `ReleaseInv`: what a teardown has released at each position, hence `NobodyLeftBehind`.

`OccupancyKept` is an action property from `OccInv`; `Refinement` shows that each step is a `Pair` (the
second claim), a `Vacate` (a release of a won match, or its TTL) or a stutter of `Occupancy`.

**TokenLedger** (`LedgerReplays`, `TipsAreWhole`, never overdrawn, types). `LedgerInv` adds that a
transaction's arguments fit its position (`JobInv`) and that an uncommitted row is the committed one
moved by the job's amount (`WorkInv`), which is what row locks give. `TipsAreWhole` is the refinement
of `Bank`.

**Campaigns** (`SlotsAccountedFor`, `OncePerUser`, `WithinCap`, types). `GrantInv`: a grant names a claim
that is `granted`, and that claim its user. `CapInv`: every cap in use is one the campaign has had,
and one of them bounds the counter. `WithinCap` uses the injection from recipients to slot holders.

**Sessions** (`KickedOut`, `SignedOut`, `OpenedWithCurrentPassword`, types). `KickInv`: of a session that
was kicked out, every token, and every refresh about to mint one, is behind the account's generation
or split. `LogoutInv`: a session signed out of is on the denylist, or no token and no refresh of it is
left. `RowInv` ties a row to the call that ended it.

**Standing** (`SettledReports`, `RestrictedIsEvicted`, `BanStands`, restrictions have their row, one
claim per report, types). `ClaimInv` adds that a claimed report has left PENDING for good.

**Contacts** (`ConsentOfBoth`, `BlockWins`, `RemovesWhatItSaw`, a connection has its request, types).
`RequestInv`: a pending request's sender has asked, and so has the sender of any request row of two
people. `AskedInv`: nobody else's word counts for a pair. `RowInv`: a call about to accept has seen a row.
`BarredInv`: what bars a call is a block that stands, and a barred call is short of every write that
would bring the pair together; `BlockWins` follows. Consent survives because a removal deletes the
requests of both ways with the connection, in one transaction.

**CallPanel** (`SendsLiveCamera`, `OffIsOff`, `NoStrayCamera`, `ThisCallOnly`, types). `StreamInv`: a call
needs the page and its stream, whose camera runs. `SwitchInv`: a switch-over holds only the track it
opened, which runs beside the old one while that has its place. `MuteInv`: the button shows the mute
state of the stream and of the track about to take over, but for a press in between; this is what
makes `OffIsOff` hold across the swap.

**Conversation** (`SignalsOfThisMatch`, `TypeOK`). `ConversationInv` ties each handler that awaits to the
connection it began with: the match it serves is the match of that connection (`GoodClient`). A
handler resumes only while its connection is current, so the description it sets is of the current
match. A candidate waits (`held`) only while its match is open and undescribed, which needs every
candidate on the way to name a match (`Message`, over what is in the sockets and what a handler has
yet to emit). `OnMatchFound` must then begin with a new connection, as `handleMatchFound` does.

**Settings** (`ShowsStored`, `InterestsWithinLimit`, types). `SettingsInv` has

* `CallsSorted`: what a call is at says which call it is.
* `Replacing`: a transaction that met no other is the only one open and has seen, and from its delete on
  taken, every row there is. So its commit leaves its own set, which the route measured.
* `Alone`: while no load or save overlaps another there is one at most. It has written what it was sent
  with and answers what is stored (`Written`), and whoever waits for it knows: its own form still shows
  what it carries but for later edits, another tab's form is `stale`, and nobody waits for a call that
  has failed without an error on the page (`Awaited`).

`ShowsStored` alone is not inductive: a call whose answer is not the account would break it when the
answer comes. Each action changes one call, which `PageMoves` and `ServerMoves` state once.

**Lobby** (`OnlineHasTab`). `PresenceInv`: `userSockets` holds only live sockets (`SocketInv`), and who is
online without one has a disconnect handler between SREM and DEL (`OnlineInv`). One that has done its
DEL does not count: a socket may have come and gone since, and its own handler must do it again.

**Tab** (`NeverSpent`, `OneSession`, `SignedOutForGood`, `ShowsItsActs`, `TypeOK`). `TabInv` has

* `TypesInv`: types; which calls are possible after so many sign-ins (`GoodCall`); every session that is
  named has been signed in; one sign-in at a time.
* `SessionInv`: a cookie is spent only between a refresh that succeeded and its answer (`SpentInv`); a
  refresh of a live session succeeds, and one under way for a stale token is for the token's session;
  a sign-out under way for a live session has that session's token or will be given it (`ClosingInv`),
  and whoever is put out of the admin panel holds nothing else (`EjectInv`). `SignedOutForGood` follows:
  when the sign-out is answered, its session cannot be live.
* `ShowsInv`: while its calls neither overlap nor fail, the answer a page is to show was read at the
  version it has made.

**Only model-checked.** Liveness under fairness is out of the prover's reach: `HalfMadeResolves`,
`WaitersMeet`, `SpinnersEnd`, `GhostNoticed`, `CallsEnd`, `SuspensionOver`, `BlocksReachTheQueue`. So are
`OneAnswer`, which compares folds over every order of a pool, and `Lobby`'s `TypeOK`, which depends on
what such a fold returns (`selectBestMatch` in `Choose`): an induction over data.

**Theorem only.** Lock exclusion, never overdrawn, a restriction has its row, one claim per report, a
connection has its request, and the types of nine modules have a theorem and no run: the runs
check what follows from them.

## 6. Not modelled

Taken as given: a Redis command or MULTI is atomic; so is one SQL statement with its row locks; a
failed transaction has rolled back (an acknowledgement lost after COMMIT is listed as a hazard).

Left out of a modelled part: the lock-out counter and the one-time tokens of verification
(`Sessions`), the heartbeat's TTL of presence (`Lobby`), rate limits, texts and sampling of the relay
(`Conversation`), microphone, zoom values and the remote picture (`CallPanel`), the password and the
texts of the forms (`Settings`), wording (`Tab`), the provider's event types other than a paid
session (`TokenLedger`), role changes and audit rows (`Standing`).

Not modelled at all, because it is I/O, rendering, declarations or cryptography: most schemas and
types, platform settings, health and ICE routes, mail, password hashing, TURN, configuration.

# ecv8-api in TLA+

ecv8-api is an HTTP API in Go over one SQLite database. Every request runs on a
goroutine of its own. Every method of `internal/store` is one atomic transaction:
`Read` borrows a pooled connection, `Write` takes a process-wide mutex and
`BEGIN IMMEDIATE`. Most handlers make several such calls and decide in between,
so what a handler knows is a copy that other requests may have made stale. Around
the handlers are a process that must stop without cutting anything short, a
database file that several processes of several versions open, and clients that
share a file without a lock.

The modules have one shape throughout: shared state as variables, what is atomic
in the code as one action, and what a goroutine or a process has learnt so far as
a record with a `pc`. Everything that the code leaves to chance between two atomic
steps is an interleaving.

## Inventory

| Component | State | Operations | Hard because | Correct when |
|---|---|---|---|---|
| store: accounts, games, seats, game state (`accounts.go`, `games.go`, `agents.go`, `state.go`) | tables `account`, `game`, `game_player`, `game_state` | create, update, activate, upsert, count | constraints of the schema (unique index, composite key with RESTRICT, CHECK) are the last line of defence | administrators hold no seat; one seat per account and game; seats keep their identity; a game is set up once |
| server: account, game, seat and set-up handlers | what each request has read | the handlers under `/admin/accounts`, `/admin/games`, `/games/:gameID` | guards read in one transaction, the change is made in another | an active administrator remains; a game keeps a game master; demotion is for administrators; inactive games stay as they are; omitted fields are kept |
| store: sessions, links (`sessions.go`, `activations.go`) | `session`, `account_activation` | create, touch, impersonate, delete, sweep, issue, redeem | deadlines computed outside the transaction that writes them | lifetimes bounded; a deleted session stays deleted; a link is used once |
| server: authentication, sweeper (`middleware.go`, `handlers_auth.go`, `handlers_me.go`, `server.go`) | identity of each request, the sweeper's time, the clock | authenticate and slide, login, logout, impersonate, activate, change the password, revoke, sweep | the identity is a snapshot; password changes are two writes; logins interleave with everything | no session for the inactive or with an old password; only administrators impersonate, and only users |
| store: cluster; server: cluster handlers; engine: kiss generator | `cluster`, `stellium`; none | create once, read; draw points until there are enough | two requests generate at once; an answer is read in five transactions; rounding, clamp, a random map order | a map is whole or absent, within its radius, drawn from the game's seed, and the same to everybody |
| store: open, create, migrate (`store.go`, `schema.go`) | a file under a name; its marker, version, journal mode and administrator | create, open for reading or writing, migrate, seed | several processes of several versions; a failure or a kill between two steps | what was created is whole; whoever opens it for writing finds its schema; a database never goes back |
| store: maintenance (`maintenance.go`) | the same, and backups | upgrade, back up, compact | check, then act, on names of files | a part-written backup does not remain; nothing of another process is removed |
| store: pool (`store.go`) | connections, `writeMu`, closed | Read, Write, Close | waiting for a lock while waiting for a connection; cancellation | every call returns; writers cannot keep readers out |
| server: Run; `ecapi` | listener, sweeper, contexts | serve, drain, stop, close the store | the order of cancellations and waits | a signal ends the process, and ends it gracefully |
| apiclient | the credential file | login, logout, the session of a request | commands side by side over one unlocked file | a session is sent only where it belongs; the file can always be read |
| PRNG, agents, config, password, tokens, views, problems, `ec`, `earl` | none of their own | parse, hash, format, draw | - | - |

How they meet: `ecapi` opens the store and runs the server; the server's
middleware reads the session and its account at the start of each request, the
handler calls the store; the sweeper calls the store from a goroutine of its
own; cluster handlers call the engine, which draws from a stream that the game's
seed determines; `ecdb` opens the same file from another process; the clients
speak HTTP and keep the cookies they get in a file.

## Modules

| Module | Models |
|---|---|
| `GameStore` | the tables account, game, seat (`game_player`), state (`game_state`), one operator per write transaction with the schema's constraints as guards |
| `Roster` | the handlers that use them, one action per store call; `req[r]` holds the next call (`pc`) and the handler's local variables |
| `SeatBook` | abstract: what the tables promise, as places in games |
| `RosterProofs` | theorems about `Roster` that hold whatever interleaves |
| `RosterSerialProofs` | theorems about the guards of `Roster`'s handlers, under hypotheses about which calls do not overlap |
| `MCRoster` | values of `Roster`'s constants for TLC |
| `SessionStore` | the tables account, session, link (`account_activation`), with the same conventions |
| `Sessions` | middleware, login, logout, impersonation, activation, password change, the administrator's session and link endpoints, the sweeper and a clock |
| `SessionBook` | abstract: what signing in promises, as members and their sessions |
| `SessionsProofs` | theorems about `Sessions` that hold whatever interleaves |
| `SigningProofs` | the refinement of `SessionBook`; theorems about what a handler read of an account before it started a session |
| `MCSessions` | values of `Sessions`'s constants for TLC |
| `Kiss` | the kiss generator as a function of seed, count and radius: rounding, clamp, drawing distinct points within a budget, and the order in which they are stored |
| `Clusters` | the tables cluster and stellium, `GET` and `POST /games/:gameID/cluster` as their store calls, beside other requests on the tables that they read; extends `GameStore` and `Kiss` |
| `GameSetUp` | abstract: the stages of a game, set up with a seed and then mapped, each once |
| `ClustersProofs`, `MCClusters` | theorems about `Clusters`; two streams of draws |
| `StorePool` | `Read`, `Write` and `Close`: who waits for a connection or for `writeMu`, and who gives up |
| `Service` | the `ecapi` process from `runServe` to exit: `Run`, the goroutine in `Serve`, the sweeper, the handlers, their contexts, over `StorePool` |
| `ServiceProofs` | theorems about `Service` |
| `DatabaseFile` | a directory as names of files, the two sidecars that a database in WAL mode has, and what of a file's contents opening, creating, migrating and backing up look at |
| `Maintenance` | the processes of `ecdb` and `ecapi` that open one database, as the steps they take on files; any step may fail, any process may be killed |
| `MaintenanceProofs`, `MCMaintenance` | theorems about `Maintenance`; an old binary and a newer one |
| `CredentialFile` | the commands that read and replace the credential file, and the session that a request sends |
| `CredentialFileProofs`, `MCCredentialFile` | theorems about `CredentialFile`; commands, sites, accounts and cookies that are alike |

`Roster`, `Sessions` and `Clusters` read tables in common, each with the columns
its properties need. `Roster` keeps sessions as the set of accounts that some
session acts as, and never removes one (a session that ends only takes
behaviours away); `Sessions` has no games and folds the two reads of
`handleUpdateAccount` into one, because `Roster` interleaves them; in `Clusters`
the other handlers are reduced to their transactions (`GamesElsewhere`,
`SeatsElsewhere`, `StateElsewhere`), which may happen at any moment, with any
arguments the schema accepts: more than the handlers would do.

### Conventions

- A table is a function from ids in use to rows; `WithRow` inserts. Names,
  addresses, profiles and notes are left out. `stellium` is a sequence, whose
  positions are the ids that SQLite hands out.
- A `*bool` of a request body is `keep`, `on` or `off`; `keep` is nil. A request's
  inputs are chosen with `\E` at the step that first uses them.
- An early return, a store call that fails, a client that hangs up (its context
  cancels the next call) and a crash all have one action, `Return`, enabled at
  every point of a handler: the process keeps no other state than the database. A
  crash that ends all requests at once is one `Return` per request. Where a
  process does have something to clean up (`Maintenance`), failing (`Fail`, with
  the code's cleanup) and being killed (`Kill`, without) are two actions.
- `MembershipByID` and `GameByID` of `playerSeat` are one step where the game's
  flag is read later, because games are never deleted.
- Time in `Sessions` is a counter that `Tick` advances up to `MaxTime`. A handler's
  `store.Now()` is taken between its arrival and its next store call, so it is any
  value from the arrival's time to the clock. In `Maintenance` a second is what
  distinguishes the names of two backups.
- The trigonometry of a draw is replaced by the vector it yields, in fractions of
  the radius; a vector may be one fraction longer than the radius, because the
  product in floating point may be a little longer too. `Stream` says which
  vectors a seed yields: reproducibility is that it is a function.
- SQLite's migrations, `VACUUM INTO` and the pool's fairness are external and
  modelled from how the code uses them: a migration commits with its version
  number, by level; `VACUUM INTO` creates its target, or takes one that has no
  contents yet, so that two processes may begin on one empty file, of which the
  second to write fails. Of a copy only how far it has come is kept (`copy`).
- `ecdb upgrade` opens the database as `ecapi` does, for writing, and opening
  migrates; both are the command `serve`.
- A file and its name are different things: removing takes the name, and who has
  the file open goes on using it. The names `ecv8.db-wal` and `ecv8.db-shm` belong
  to whichever database was last opened as `ecv8.db` (`side`); the last writer that
  closes it removes them (`Release`). `removeNewDatabase` is three steps,
  `UnlinkDatabase`, `UnlinkWal` and `UnlinkShm`, between which another create may
  make a database of its own under the name. If its sidecar is then the one that is
  removed, who has it open goes on with a log that nobody else will find: the
  database is `torn`, and from then on whoever reads it may find in it anything that
  this program can have written (`Seen`). `os.Remove` is assumed to succeed.
- A credential is a cookie a server issued or the one (`Route`) that a load balancer
  adds. `--cookie-name` is taken literally, as `sessionCookie` does: it may name
  either, and then that one is kept.

History variables, which the program does not have: `told` (seeds the API has
shown, and to whom), `ended` (ids of deleted session rows), `session[s].with` (the
password the session was started with, or kept by the change that its own request
made), `link[t].uses`, `late` (Shutdown's deadline passed), `abandoned`
(part-written files whose writer was killed) and `misnamed` (the sites and accounts
of logins that were told to keep the load balancer's cookie).

Operators marked `\* mutant` are what a plausible bug would make of the operator
after them. They take no part in the specification; each is a change that one of
the properties notices.

## Runs

Passing:

| Run | In flight | What it checks |
|---|---|---|
| `roster_one` | 1 request, all handlers | types; `HandsOverRows`; the guards: `ActiveAdminRemains`, `MasterRemains`, `InactiveGamesStayAsTheyAre`, `MastersAreTheAdministratorsBusiness`, `OmittedFlagsKept` |
| `roster_two` | 2 requests | `AdminsHoldNoSeat` while an account is promoted and seated at once; `ToldSeedIsTheSeed` while a game is set up with two seeds at once; `OneSeatPerAccount` and `SeatsKeepTheirIdentity` while an account is seated in several ways; `KeepsTheBook`: the tables implement `SeatBook` |
| `sessions_one` | 1 request, all handlers, sweeper, clock | `InactiveGetNoSession`, `SessionsStartWithTheCurrentPassword`, `ImpersonationStartsAtAUser` |
| `sessions_lifetime` | 2 requests, sweeper, clock | `AbsoluteLifetime`, `EndedForGood`, `LoginSupersedes`, `SweepTakesOnlyTheExpired` |
| `sessions_links` | 2 requests | `OneOpenLink`, `LinkSetsOnePassword`; `KeepsTheSessionBook`: the tables implement `SessionBook`, so nobody gets a first password while inactive (`InactiveStaysInvited`) or a session without one |
| `clusters` | 2 requests, others' transactions | `MapsAreWhole`, `WithinTheRadius`, `IdsFollowTheMap`, `ShownMapIsTheMap` while a game is mapped twice at once and read; `KeepsTheStages`: the tables implement `GameSetUp`, and a map is the one that the game's seed draws |
| `service` | 2 handlers, the sweeper, `Run` | `OneWriterAtThePool`, `SomebodyGoesOn`, `SweeperStopsBeforeTheStore`, `NobodyIsCutShort`; liveness: `CallsReturn`, `SignalEndsTheProcess` |
| `files` | 2 processes, an old binary and a newer one | `CreatedIsWhole`, `UsesItsSchema`, `PartialBackupsAreRemoved`, `CreatorsRemoveTheirOwn`, `GoesForward`, with failures and kills at every step |
| `credentials` | 2 commands | `CookiesKeepTheirAccount`, `NeverHalfWritten` |

Requests one at a time answer the question whether a handler's logic is right;
two at a time, whether it relies on something another request may change. What
exactly must not change is in `RosterSerialProofs` and `SigningProofs`.

Violations, each a statement of the repository that the code does not keep:

| Run | Statement | What happens |
|---|---|---|
| `last_admin_race` | README.md:953, a 409 for "deactivating the last active administrator" | two requests both count two administrators, and none is left |
| `same_second_backups` | `maintenance.go:102`, "anything at outputPath was created by this call and can be removed" | between the check and `VACUUM INTO` another backup takes the name; SQLite refuses it once it has contents, or the second to write fails, and the cleanup removes the other's file |
| `refused_file_changed` | `store.go:170`, "a database newer than this binary is rejected without being modified" | a writable open puts the file into WAL mode before its version is looked at; a restored backup is not in WAL mode |

### Statements that fail, without a run of their own

Each of these can be seen by checking the named definition with the run given.

| Statement | How to see it | What happens |
|---|---|---|
| `MasterRemains` with two requests (README.md:955) | `roster_one` with a second request | two administrators each demote one of a game's two game masters |
| `MastersAreTheAdministratorsBusiness` with two (`handlers_game_players.go:16`) | the same, with two users and only the handlers createGame, saveMembership and updatePlayer, to be quick | a game master's request that read a seat before its promotion writes `is_gm` back |
| `SomeAdminCanSignIn` (`accounts.go:450`, "refuse changes that would lock everyone out") | INVARIANT in `roster_one` | an invited administrator, who cannot sign in yet, counts as an active one |
| `InactiveGetNoSession`, `SessionsStartWithTheCurrentPassword` with two (`handlers_auth.go:51`, `handlers_me.go:81`) | `sessions_one` with a second request | a login reads the account before it is deactivated, or verifies the old password before the change, and creates its session afterwards |
| `OldCredentialsAreRevoked` (`handlers_me.go:81`, "a session created with the old credential does not outlive it") | INVARIANT in `sessions_one` | the password change ends between its two writes |
| `NoAdministratorIsImpersonated` (README.md:574, taken for the whole time of an impersonation) | INVARIANT in `sessions_one` | the account is promoted while it is impersonated; likewise an administrator demoted while impersonating goes on |
| `StopUnblocksHandlers` (`server.go:129`, "cancelling ctx unblocks handlers that are waiting on the database") | INVARIANT in `service` | the request contexts descend from `context.WithoutCancel(ctx)` and are cancelled only after `Shutdown` |
| `OnlyItsOwnLog` (`store.go:504`, removing "can never delete a pre-existing database") | INVARIANT in `files` | a create fails and unlinks `ecv8.db`; another creates and opens it; the first goes on to unlink `ecv8.db-wal`, which is the other's by then |
| `NoSessionIsLost` | PROPERTY in `credentials` | two commands load, change and rename; the later rename loses the earlier change |

Also met while modelling, without a definition of their own:

- `TouchSession` writes whatever deadline the request computed from its copy, so
  the older of two requests may set the deadline back ("slides the idle deadline
  forward", `sessions.go:134`).
- When `Serve` fails on its own, `Run` waits for the sweeper, which waits for a
  signal: the process stays up without a listener, and a supervisor that restarts
  on failure has nothing to restart. `SignalEndsTheProcess` therefore starts from a
  signal.
- A `GET` of a map reads the game's state before the cluster row. With a set-up
  and a creation in between it answers that the game is not set up and shows its
  map. The form may be offered for a game that has just been deactivated or mapped;
  the `POST` is then refused.
- Every coordinate of a map is within the radius, but the points are not inside
  the sphere of that radius (`kiss.go:14`): rounding goes away from zero in each
  coordinate. `WithinTheRadius` is the statement about the cube.
- A create that fails removes the file under the name although a server may have
  opened it meanwhile; that server goes on with a file that has no name.
- A create that is killed leaves a database without an administrator, which the
  next create refuses to touch and every open accepts.
- A binary that has opened a database goes on with it when a newer one migrates
  it; a backup may therefore hold a newer schema than its maker knew.

### Bounds

Two requests suffice for a conflict between two transactions, which is what each
race above is; three would add only chains. Two or three accounts give an
administrator, a colleague and a user (or a user and a new account). One game is
enough, because no operation relates two games; seat ids leave room for a second
seat of one account, which a missing key would allow, and for an agent.
`sessions_lifetime` has TTL 3, idle window 2 and a clock up to 4, so that a deadline
can be slid, clamped to the absolute lifetime, and passed, with two sessions (one
superseding the other). `sessions_links` leaves time out (MaxTime 0): the
properties are about order, not about expiry, and three links allow two reissues
after the invitation. `sessions_one` has one user to be created, invited, activated
and impersonated.

`clusters` has one game, two seeds, radius 3 or 4 and one or two stellia, with two
draws allowed for each. One of the two streams overshoots the radius, draws one
point twice and then moves down, so that the clamp, the loop and the order of ids
matter; the other yields one point for ever, so that two stellia do not fit and the
422 occurs. `service` has one connection, so that a handler that reads can keep
the sweeper and a writer waiting, and two handlers, so that one can hold the mutex
while another waits. `files` has two processes (three files are then enough for a
database, one that lost its name while it is open, and a backup), two schema levels and two seconds;
the name of the database starts empty, with a foreign file, or with a restored
backup of either level. `credentials` has two sites with two accounts each and three
cookies beside the load balancer's, so that a session can be replaced while two
others are kept.

All ids are bounded sets; an insert that needs an id that is not there is not taken.
Slots, ids, passwords, accounts that start alike, and in `credentials` sites and
cookies, are symmetric, except in `service`, whose liveness properties exclude
symmetry. In `files` a VIEW leaves out what an earlier user left in a file that no
name and no process refers to any more (`Reachable`): such a file is only ever
started afresh. No run disables the deadlock check: an idle slot always accepts
another request, and in `Service` a process that has exited stutters.

### Fairness

Only `Service` states fairness, because only its components owe each other
progress. Goroutines that can run do: `Run`'s own steps (with `Shutdown`'s deadline
among them) and the end of a sweep, of a transaction and of a cancelled wait are
weakly fair. Four are strongly fair. `sync.Mutex` hands over to a waiter that has
starved, and a Go channel serves receivers in turn, so `Locks(p)` and `Takes(p)`
are taken if they are enabled again and again, and so is `Collects`, because `Close`
is one more receiver on the channel of free connections; and a `select` with several ready
cases picks one at random, so the sweeper sees `ctx.Done` (`SweepStops`) even if
its ticker is ready each time. Nothing makes a signal arrive, `Serve` fail, a client
ask or hang up, or a handler answer: `SignalEndsTheProcess` holds with a handler
that never answers, because of the deadline, and `CallsReturn` with a client that
never goes away.

A connection that was accepted before the listener closed or failed may still bring
a request (`connected`), until `Shutdown` has seen every connection closed. A pool
that is being closed still hands out a connection that is free (`Take`), while `Close`
collects them one by one (`Collect`); the process exits when it has them all, which
`SignalEndsTheProcess` needs the callers to give back.

In the other modules a request may always end early and nothing makes a client come
back; they have no liveness to state.

## Proofs

Each `...Proofs` module proves, for all values of the constants that satisfy the
named assumptions, that an inductive invariant holds and what follows from it.
Every safety property of every passing run is a theorem. Those of `roster_two`,
`sessions_lifetime`, `sessions_links`, `clusters`, `service`, `files` and
`credentials`, and the types and `HandsOverRows` of `roster_one`, hold whatever
interleaves. The others of `roster_one`, and those of `sessions_one`, rest on guards
that a handler evaluates in one transaction and relies on in another; their theorems
have a hypothesis that says which calls do not overlap.

### RosterProofs

- `TypeCorrect`, `AdminsNeverSeated`, `HandlersHandOverRows` from the inductive
  invariant `Inv == TypeOK /\ AdminsHoldNoSeat /\ HandsOverRows`. `AdminsHoldNoSeat`
  alone is not inductive: that a seat's account stays a user needs the types of
  the rows, and that the row a handler inserts refers to rows that exist needs
  `HandsOverRows`, which in turn holds because no transaction deletes a row.
- `OneSeat`, that an account has one seat in a game, from the unique index and
  the upsert, whatever the handlers have read before.
- `SeatsPermanent`, that seats keep id, game and holder, for every step.
- `SeedsShownStand`, that no caller is told a seed other than the game's, from
  the write-once `game_state`.
- `KeepsBook`, that `Roster` implements `SeatBook`. Each store transaction
  is a step of the book or leaves it as it is (`AccountsImplement`,
  `GamesImplement`, `SeatsImplement`); the steps of a handler that only read
  stutter.

The argument is layered as the code is: every step of `Roster` is either one of
the store's transactions (`StoreNext`) or leaves the tables alone (`RequestStep`),
so facts about the tables are proved once about `StoreNext` and hold for every
handler; only `HandsOverRows` looks into the handlers. The proofs assume
`NullAssumption` and `StartAssumption`, nothing else: in particular, none of the
results of this module depends on a guard that a handler evaluates before its write.
(`StartAssumption` says that administrators and users of a new database are
disjoint and finitely many: `seed.go` inserts them from a fixed list. Finiteness matters only to the counts of `RosterSerialProofs`.)

### RosterSerialProofs

What the guards of the handlers promise. `Apart(P, Q)` says that no two requests are,
one about to make a call of `P` and the other one of `Q`; everything else may
interleave, for any number of requests, accounts, games and seats.

| Theorem | Property | Holds if always |
|---|---|---|
| `SomeAdminRemains` | `ActiveAdminRemains` | `OneAccountUpdate`: no two are about to update an account |
| `MastersRemain` | `MasterRemains` | `OneSeatChange`: no two are about to save or update a member's seat |
| `OnlyAdministratorsDemote` | `MastersAreTheAdministratorsBusiness` | `OneSeatChange` |
| `InactiveGamesStay` | `InactiveGamesStayAsTheyAre` | `GamesStandStill`: no game is about to be updated while a player's request has passed the check of the flag |
| `OmittedFlagsStay` | `OmittedFlagsKept` | `OneSeatChange` and `OneAgentUpdate`: no two are about to update an agent's seat |

The first two are not idle: without the first,
`last_admin_race` refutes the conclusion, without the second the first two rows of
[the list above](#statements-that-fail-without-a-run-of-their-own) do. They also
say how little a repair has to achieve: a lock held from the count to the update, or
one transaction for both, would do for the administrators, and no other handler need
take part.

The invariants say what a request knows until its write. `AdminsInv`: a request that
is about to take the last step against an active administrator has counted another,
and the count still stands; this needs finite sets, so that a count above one means
that somebody is left when one goes (`TwoLeaveOne`), and that accounts created
meanwhile only add. `SeatsInv`: the same for the masters of a game; a request that
saves a membership without the check knows that the seat is not a master's, a request
of a game master knows that the seat it rewrites is a player's and still has the flag
it has read; agents are never masters. `GamesInv`: what passed the check is in an
active game. `AgentsInv`: the flag that was read is still the row's. Each is shown for
the request that moves and, by the hypothesis, for all others while it moves.

### SessionsProofs

For any sets of accounts, sessions, links, passwords and requests, and any
lifetimes that `Config.Validate` accepts:

- `LifetimeIsAbsolute`: no session's deadline passes its absolute lifetime.
- `EndedStaysEnded`: no session that was ended is live again.
- `LoginsSupersede`: when a login starts a session, the one it came with is gone.
- `OneLinkWorks`, `LinksWorkOnce`: an account has at most one open link, and a
  link sets one password.
- `InactiveAreNotActivated`: an inactive account without a password gets none
  (`InactiveStaysInvited`, which `KeepsTheSessionBook` also says in `SessionBook`'s
  terms; that one is what `sessions_links` checks).
- `SweepSparesTheLive`: the sweeper takes no session that is live at that moment.
- `TypeCorrect`.

The layers are the same: `Transaction` is any of the store's transactions with the
arguments that the handlers may pass, and `RequestStep` shows that they pass no
others. Three facts in the invariant `Inv` are about handlers and not only about
tables. `SignedIn`: the copy of a session that a request holds has the start of
the row that still has its id, because ids are never reused (`Kept`); without it
`slideSession`, which computes the deadline from its copy, could not be shown to
respect the row's absolute lifetime. `Activated`: a password that the copy of an
account shows is still set, because no transaction clears one; so the password
change, which checks the copy, activates nobody. And `sweep <= clock`: the sweeper
compares with the past. The tables' part, `StoreInv`, adds `References` (foreign
keys) and `OpenLinksUnused` (an open link has set no password), without which
`OneOpenLink` and `LinkSetsOnePassword` are not inductive. Assumed are
`LifetimeAssumption`, `NullAssumption`, `StartAssumption` and
`HandlerAssumption`.

### SigningProofs

`KeepsSessions`: `Sessions` implements `SessionBook`, without a hypothesis. A session in
the book is one account's, its start never moves, its deadline never passes `start +
TTL`, it starts only for a member, and what is over never begins again; an account
becomes a member when it is made or while it is enabled. The mapping takes an account
with a password for a member and a row of `session` for an entry. Most steps are shown
transaction by transaction (`StartImplements`, `TouchImplements`, `DeleteImplements`,
`AccountsImplement`, ...); what is new beside `SessionsProofs` is `MemberInv`: a request
that is about to start a session holds an account that has a password, which stays
true because no transaction clears one.

The other three are about what may become stale between the two:

| Theorem | Property | Holds if always |
|---|---|---|
| `InactiveAreRefused` | `InactiveGetNoSession` | no other request is about to update an account while a request is about to start a session for it |
| `SessionsStartCurrent` | `SessionsStartWithTheCurrentPassword` | no other request may set the password of an account while a request is about to start a session for it |
| `TargetsAreUsers` | `ImpersonationStartsAtAUser` | no other request is about to update an account while a request is about to impersonate it |

The hypotheses (`UpdatesApart`, `PasswordsApart`) name the account, so that any number
of people may sign in, change passwords and be updated at once as long as they are
different people. Without them two requests refute the first two properties, as the list of failing
statements says.

### ClustersProofs

`MapsStayWhole`, `StaysWithinTheRadius`, `IdsStayInOrder`, `AnswersStayTrue`,
`KeepsStages` and `TypeCorrect`, for any seeds, shapes, streams of draws, games and
requests.

The bottom layer is arithmetic and sets: the clamped coordinate of any draw is
within the radius, `GenerateCluster` returns as many distinct points as were asked
for (`ClusterFacts`, from the least number of draws that suffices), and a sorted list
of a finite set has each point once. Above it is `StoredMap`: what `CreateCluster`
appends becomes the whole map of its game and changes no other. The invariant
joins them with the handlers. `Whole(g)` says that a stored map *is*
`Generated[<<seed, shape>>]` of the game's own seed and row: stronger than
`MapsAreWhole` and `WithinTheRadius`, which follow from it, and what makes the
refinement of `GameSetUp` go through. `RowOK` says what a request knows by how far it
has come: in particular the seed in a request's hands is still the game's when it
writes, because `game_state` is written once, and the row it reads is still the
cluster's when it reads the stellia. Rows are only added (`Grows`), which keeps all
this true under the other requests. Assumed are `KissAssumption`,
`StreamAssumption`, `NullAssumption` and `UsersAssumption`.

### ServiceProofs

`OneWriter`, `NobodyWaitsInACircle`, `SweeperFirst`, `NobodyCutShort`, `TypeCorrect`, for
any number of handlers and connections, read-only or not. `NobodyWaitsInACircle` is
the part of "every call returns" that is a safety property: while anybody waits,
somebody has a connection to give back, or has what it waits for in front of it. It
follows from who holds the mutex (`WritersOwn`: its owner is itself at the pool or in a
transaction) and from the pool having at least one connection. The invariant adds to
the properties `WritersOwn`, that the sweeper is in the store only
during a sweep (`SweeperCalls`), which is what makes its `done` mean that it is out
of the store, and where the sweeper, the listener and the contexts may be by how far
`Run` has come (`NotYet`, `SweeperGone`, `ContextsLast`). `ConnectionsAreThePools`
says that what callers hold and what `Close` has collected never exceeds the pool, and
that nothing is collected before `Close`: if nobody holds a connection, one is free or
the pool is closing, so that whoever waits for one goes on.

### MaintenanceProofs

`CreateDelivers`, `SchemaIsThere`, `NoPartialBackups`, `OnlyTheMakerRemoves`,
`DatabaseGoesForward`, `TypeCorrect`, for any number of processes, files, schema
levels and binaries. `CreateDelivers` is that a create which succeeds leaves under the
name the file it made, in WAL mode, marked, with at least its binary's schema and with
the administrator it was given. The three theorems about contents exempt a file that
is `torn`, because then they would fail: `OnlyItsOwnLog` is among
[the statements that fail](#statements-that-fail-without-a-run-of-their-own). What
name a file has is not exempt.

The proof is rely and guarantee: `Knows(p)` is what process `p` may believe of the
files it works on, by how far it has come (`ConnOK`, `CommandOK`, `TargetOK`, `Owns`,
`SchemaOK`), and `Steps(p)` is all that a step of `p` does to the others: files only go
`Onward`, the database loses its name only to the create that made it (`RemovesName`),
a backup's name is given only to the file that its own process is writing, and made
files are fresh. Each command is shown to keep to `Steps(p)` and to know what it must,
and `Knows(q)` is shown to survive `Steps(p)` for every other `q` (`OthersKnow`).
Beside `TypeOK` and `PartialBackupsAreRemoved`, the invariant has two parts about all
processes at once. `OneCreate`: from making the file until it has unlinked it, one
create at a time holds the name, because `O_EXCL` lets in no other; the two steps
that remove the sidecars are outside, which is why the next create may meet them.
`NamesApart`: no file has two names, so the database is never a backup that is being
written. `SchemaOK` survives the other processes' migrations because a database only
goes onward.

### CredentialFileProofs

`CookiesStayWithTheirAccount`, `FileStaysWhole`, `TypeCorrect`. The invariant says that
every set of sessions anywhere (the file, the temporary files that are finished,
what each command has loaded) is `Sound`: each cookie `Fits` the site and account it
is kept for, which means that it was issued to them, or that it is the load balancer's
and a login for them named it. Lost updates, which do happen, lose sessions but never
mix them up; and a login takes from its answer the session, or what its caller named,
or nothing (`SessionIsTaken`).

### Only model-checked

Liveness (`CallsReturn`, `SignalEndsTheProcess`) is out of the prover's reach. No module
declares a recursive operator: the generator's loop is stated through the least
number of draws that suffices, so nothing needed induction over data.

## Not modelled

- In-memory stores, which live inside one process for development and tests.
- The PRNG (hashing and 64-bit arithmetic without state; `Kiss` takes the stream it
  yields as a constant), floating-point trigonometry, and the catalogue of agents,
  which is a list.
- Configuration, dotenv files, flags and argument parsing of `ecapi`, `ecdb`, `ec`
  and `earl`, HTTP routing and cross-origin checks, password hashing, tokens, views
  and problems: parsing and formatting without state. What depends on them appears
  as an assumption (the bounds of `Config.Validate` are `LifetimeAssumption`) or as
  a choice (a body is what a client may send).
- `PUT /me`, which writes display columns; listings and paging, which read; factions,
  which no code writes yet.
- The suffix that a version puts on a backup's name, and a second output directory.

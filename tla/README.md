# A verification model of futureEnvironsBE

The repository is the Go backend of an IoT platform: a Gin HTTP server over
PostgreSQL with login, user management and ten packages that hold only a comment.
These files model its core, the handlers of `/api/v1/users` against the identity
tables, the logins and tokens that guard them, and the process around both, from its
settings to its shutdown. They say what TLC has checked and what TLAPS has proved.

## The system

| Part | Source | State | Operations | What makes it correct |
|---|---|---|---|---|
| User requests | `internal/user` | none of its own; one request per goroutine | list, get, create, update, delete | one live user per address whatever the checks before the write saw; a refusal changes nothing; an organization's administrator reaches only users of its organization |
| Identity tables | `migrations/001`-`003` | `users`, `user_credentials`, `user_role_assignment`, `role`, `organization` | `sp_manage_user` (five optypes), `sp_get_login_details`, the statements of `SetUserRole` and `Create` | one live user per address, complete accounts, final deletes |
| Seed | `migrations/004` | the same tables | insert where missing | may be run again |
| Authentication | `internal/auth` | tokens held by clients | login, logout, profile rows, issue and parse tokens | a token is given only to a live, active, approved user with the right password |
| HTTP pipeline | `internal/router`, `internal/middleware`, `internal/response` | the gin context | request id, recovery, logger, JWT | one answer per request, and a log line that tells it |
| API server and pool | `cmd/api`, `internal/database` | listener, signals, up to ten connections | start, serve, shut down, close | every connection comes back; the pool outlives the requests; a signal ends the process |
| Configuration | `internal/config` | none | read `.env` and the environment | refuses what it cannot use |
| API documentation | `internal/docs` | none | serve two files | - |
| Placeholders | `internal/{audit,dashboard,...}` | - | - | there is no code |

A request passes the middleware, becomes an *actor* (the claims of its token) and
a call of `user.Service`, which checks what it can and calls `user.Repository`
several times. Each of those calls is a statement or a short transaction of its
own, on any connection of the pool. Requests share nothing but the database, so
everything that is hard here happens between two statements: another request's
statement or commit, a failed statement, a lost acknowledgement, the end of the
process. One more thing is shared, the pool of connections: a request may wait for
one that another request holds. The hazards are listed with their lines in
`PROJECT.json`.

## The modules

| Module | Contents |
|---|---|
| `Identity` | the data and the pure decisions of `internal/user/service.go`: who may do what, what a create inserts, what an update writes, what an answer's status is |
| `UserRequests` | the handlers and the transactions: state, one action per statement, fairness, properties |
| `UserDirectory` | the abstract specification: what a reader of the tables is promised |
| `UserRequestsInv` | the inductive invariants |
| `UserRequestsHomes` | `UserRequests` with a memory of the organizations each request's user has been in, and what an organization's admin is held to |
| `UserRequestsProofs` | the proofs about the tables: types, addresses, accounts, deletes |
| `UserRequestsPromises` | the proofs about the answers, the organizations and the refinement |
| `UserRequestsApart` | the proofs about requests that do not meet, one handler alone among them: roles are replaced, duplicates answered as the texts say, and admins kept to their organization |
| `UserRequestsRoles` | the proof of how many roles can be left when they do meet |
| `UserRequestsProgress` | the proofs that nobody is stuck and every statement is progress |
| `UserList` | `GET /users`, statement by statement, beside a changing `UserDirectory` |
| `UserListInv`, `UserListProofs` | its inductive invariant and the proofs |
| `Authentication` | logins, logouts and the JWT middleware beside a changing `UserDirectory` |
| `AuthenticationInv`, `AuthenticationProofs` | its inductive invariant and the proofs |
| `ApiServer` | the process: settings, listener, middleware, pool, shutdown, restart |
| `ApiServerInv`, `ApiServerProofs` | its inductive invariant and the proofs |
| `MCUserRequests`, `MCUserRequestsHomes`, `MCUserList`, `MCAuthentication`, `MCApiServer` | the instances for TLC; one `.cfg` per run |

    UserRequestsHomes: UserRequests /\ memory
                        |
    Identity ---- UserRequests ---- implements ---> UserDirectory
       |                                              |        |
       +--- Authentication <------ steps around ------+        |
       +--- UserList <------------ steps around ---------------+

    ApiServer: a request of any of these is its calls of the store

### UserRequests and the code

`users`, `creds` and `ura` are the committed tables. `tx[h]` is what the open
transaction of handler `h` has written and only it can see: a version of the
`users` row (`hold` is `locked` when the row is locked, `indexed` when the new
version has its entry in `uq_users_email`), the credentials row, and rows of
`user_role_assignment`. `pc[h]` is the next statement:

    create   email, procedure, insert, credentials, role, commit, roles
    update   load, email, scan, deactivate, assign, commitRole, update, index, commit, roles
    delete   load, delete, commit
    get      load, roles

| Action | Code |
|---|---|
| `Receive` | the checks before the first look at a user: manager role, id, self-delete (`OwnIdInPath`), `validateCreateRequest`, organization, role |
| `ReadUser` | `GetByID` and what `Update`, `Delete` and `GetByID` decide from the row |
| `CheckNewEmail`, `CheckChangedEmail` | `EmailExists`; after it bcrypt, or the role of an update |
| `CheckInProcedure`, `InsertUser` | optype 2: its own `EXISTS`, then the `INSERT` and the unique index |
| `InsertCredentials`, `InsertRole` | the other two inserts of `Create` |
| `ScanRoles`, `DeactivateRole`, `AssignRole`, `CommitRole` | `SetUserRole`: snapshot of the `UPDATE`, each row it visits, the upsert, the commit |
| `UpdateRow`, `IndexRow` | optype 3: lock and recheck the row, then the unique index |
| `DeleteRow` | optype 4 |
| `Commit` | the commit of `Create` or `callManageUser` |
| `LoadRoles` | `loadRoles` of the answer |
| `AbortDeadlock` | PostgreSQL fails one transaction of a cycle |
| `Fault`, `LoseCommitAck`, `Crash` | a statement fails, a commit's acknowledgement is lost, the process ends and starts again |

PostgreSQL is modelled from how the code uses it (external in the map): READ
COMMITTED, the level `pool.Begin` gives. A statement sees what is committed when
it starts. An `UPDATE` waits for the last writer of the row and evaluates its
`WHERE` again; that is why `SetUserRole`'s first `UPDATE` keeps to the rows of its
snapshot (`todo`), in any order. An insert into a unique index waits for the
transactions whose entries are in doubt (`KeyHolders`). Foreign-key checks take
`FOR KEY SHARE` locks, which conflict with none of these updates because no
statement changes a primary key; they are left out.

`Service.Delete` compares the text of the id in the path with the actor's id, and the
id is parsed as a UUID only later (`nullableUUID`), where upper case, braces and missing
hyphens are the same id. So the check against deleting oneself only sees the usual
spelling: a request says whether its id is `respelled`, and a delete of one's own user
in another spelling goes through.

What is abstracted: names, addresses and ids are opaque; `user_name`,
`contact_no` and `address` are one column, because every statement treats them
alike; audit columns are left out, because nothing reads them; an insert's id is
drawn when the request arrives, which nobody can tell from the insert. `Lower` is
`strings.ToLower` and SQL `LOWER` together. A password is short, fit, or longer
than bcrypt takes. `role` and `organization` rows are constants, since no handler
writes them. The roles a `GetByID` loads inside an update or a delete are not
used by the code, and only the failure of that statement (`Fault`) remains.

### Authentication and the code

A client has one request under way: a login (`lookup`, `verify`, `issue`, `record`)
or a request with a token. Around it the directory changes by steps of
`UserDirectory` (`Change`), which is all that the handlers of `UserRequests` do to
the tables: that is what the theorem `Refinement` is for. A call that
`RequireAuth` lets in goes on as a request of `UserRequests` with the token's claims
as its actor.

| Action | Code |
|---|---|
| `Login` | `Handler.Login`: the body is there, or 400 |
| `Lookup` | `GetLoginDetails`: the cursor's query is one snapshot; `assembleProfile` takes the user from the first row and the roles from all rows |
| `Verify` | `checkAccount` and the bcrypt comparison, on what was read |
| `Issue` | `IssueAccessToken`: claims as read, times in whole seconds |
| `Record`, `RecordFails` | `RecordSuccessfulLogin`, whose failure is only logged, and which may have taken effect when its acknowledgement is lost (`SetLastLogin`); `NOW()` may be any time since the token was signed |
| `Present` | `ParseBearer` and `ParseAccessToken`, in `RequireAuth` and in `Logout`, which changes nothing |
| `Reply` | the answer arrives or is lost; the client keeps its last token, and throws it away after a logout if it does as it is told |
| `Fault`, `Crash` | a failed query or a panic; a restart with the same secret, after which old tokens are as good as before |
| `Change`, `Tick` | other requests; time |

`earned[u]` (history) is the times at which a login of `u` had its token signed and was
not answered yet. One clock is assumed for the process and the database. A token is the record of
its claims: that it cannot be made without the secret is HMAC's business, and a
text that is no token of this service is `other`. A password hash is never blank,
because `Create` and the seed write what bcrypt returned, so the check for it is left
out. The organization's name and `failed_login_count`, which a login resets to the 0
nothing else changes, are left out too.

### UserList and the code

A listing changes nothing, so one at a time says all there is to say of it. `listed`
is what it has read, `todo` the users whose roles it has still to read, and
`witnessed` (history) the directories there have been since it arrived. Around it the
directory changes by steps of `UserDirectory`, as it does around a login.

| Action | Code |
|---|---|
| `List` | `Service.List`: `IsUserManager`, or 403 |
| `Read` | optype 5 in `callManageUser`'s transaction: the cursor's query is one snapshot of the live users |
| `LoadRoles` | `loadRoles` for each user in the result, a statement on the pool each; it does not ask whether the user is still there |
| `Filter` | the loop of `Service.List`: everything for a super admin, else the organization of the token |
| `Fault` | any statement fails, or the client leaves: an error, and nothing of the list |
| `Reply` | the answer is sent |
| `Change` | another request commits |

The order of the list (`created_on`) is left out, and so is the order in which roles
are loaded: any order is allowed.

### ApiServer and the code

`main` is the next step of `run()`, `stage[c]` how far the request of client `c` is:

    run()    load, connect, start, select, shutdown, drain, closing, exited
    request  handling, (waiting, querying)*, answered, logged
             a statement that never returns: hung; after a panic: recovered

| Action | Code |
|---|---|
| `Load` | `config.Load`: `loadEnvFile`, `getEnv`, `durationSeconds`, `validate` |
| `Connect` | `database.NewPool` with its ping, `auth.NewTokenManager` |
| `Start` | the goroutine with `ListenAndServe`, `signal.Notify` |
| `BeginShutdown`, `ServerFailed` | the two arms of the `select` |
| `ShutdownRound`, `Expire`, `GiveUp` | `server.Shutdown` and the context with its limit |
| `Return` | the deferred `pool.Close`, then the end of `run()` and `main()` |
| `Listen`, `AcceptFails`, `Signal` | the listener's fate; SIGINT and SIGTERM |
| `Receive` | a request meets the router and `RequireAuth`, which answer it, or its handler starts |
| `Ask`, `Acquire`, `ReturnConnection`, `CallFails` | a call of the repository: a connection of the pool for a statement or a transaction, given back in every case by `defer` or by pgx |
| `Hang` | the database stops answering; there is no statement timeout |
| `Answer`, `Log`, `Finish` | the handler's answer, the line of `RequestLogger` after `c.Next()` if the level of the logger keeps it (`InfoKept`), the end of the response |
| `Panic` | deferred calls run, the rest of `RequestLogger` is skipped, `Recovery` logs a line that has no status and answers 500 |
| `Kill`, `Restart` | the process dies at any moment, and is started again |

What a handler does to the tables is the business of the other modules; here it is up
to `MaxCalls` calls of the store, one connection each. No call is made while another
one of the same handler has a connection, and that is what the code does: rows are
closed before `loadRoles` runs, and `callManageUserTx` uses the connection of its
transaction.

External, modelled from how the code uses them: `http.Server` (`ListenAndServe`
returns at once when `Shutdown` begins; `Shutdown` closes idle connections round by
round and looks at its context between rounds) and `pgxpool` (first come, first
served, up to `MaxConns`; `Close` refuses new calls and waits for what is out,
without limit). Durations are signed words of `Word` nanoseconds of which `Second`
make a second, as `time.Duration(n) * time.Second` computes them.

The definitions marked "Mistake" are the mutants of `PROJECT.json`: each replaces
the definition after it the way a slip in the code would, and shows that the
property it is listed with notices.

## The properties

- `UniqueLiveEmail`: no two live users have the same address up to case. Two
  checks before the write see only committed rows, an update writes back an
  address it read earlier, and the index has the last word.
- `CompleteAccounts`: a user has credentials and an active role, or nothing of it
  exists. It depends on `Create` and `SetUserRole` being one transaction each.
- `DeletedIsFinal`: no step changes or revives a deleted user, though updates that
  read it alive are still on their way.
- `OneDeleteSucceeds`: of two deletes one is told 404.
- `RefusalChangesNothing`: after 400, 403 and 409 nothing was committed; after 404
  at most the role, which `SetUserRole` committed before the user was deleted. A
  500 promises nothing: the failed update may have changed the role.
- `SuccessIsComplete`: 200 and 201 are sent after everything asked for is
  committed, and the user in the answer has a role though row and roles are read
  by different statements.
- `OrgAdminsStayInTheirOrg`: whatever an organization's admin has pending, a row, a
  deletion or a role, is for a user who was live in its organization at some moment
  since the request arrived (`homes`). A row it writes has its organization, a deletion
  leaves the organization as it is, and it makes no super admin. That is all that
  `CanAccess` gives when a super admin moves the user after `GetByID`: the later
  statements do not look at the organization again, so an update brings the user back,
  a delete deletes and a role change changes somebody who is in another organization by
  then. The run `orgs` has all three.
- `OrgAdminsReachTheirOrgOnly`: what an admin has pending is for a user of its
  organization as the row is now. It holds of one handler (run `alone`), and of many as
  long as nobody moves a user between another request's check and its write
  (`ApartOrgs`); two handlers that do so break it, as above.
- `NoMoreRolesThanHandlers`: the active roles that overlapping role changes leave
  behind are never more than there are handlers, however often they meet. The next
  change finds what is there when it starts, and a change that fails takes nothing away.
- `NeverStuck`: of handlers that wait for nobody but each other, one can run its next
  statement (`Ready`) or is in a cycle that PostgreSQL finds. Nobody waits for the locks
  of a transaction that was left open, or of one that has ended.
- `RequestsAdvance`: each step of a request, a failure or a deadlock among them, leaves it
  fewer statements to run (`StatementsLeft`), and no step of another request takes that
  back: nothing is retried, and a statement that has waited goes on from where it was.
- `RequestsAreAnswered`: no request waits for ever.
- `ImplementsDirectory`: every step is a step of `UserDirectory` or changes none of
  the tables. `UserDirectory` lets a role change keep some of the old roles
  (`SwitchRole`), which is what the code guarantees.
- `TokenIsTrue`: whoever is given a token had at one moment since the login arrived a
  live, active, approved account, not expired, with that address and password; and
  organization and roles are those of that moment. Between reading and signing
  bcrypt takes its time and the account may change or go, so nothing is true of the
  moment of signing. A user deleted before the login arrived gets no token.
- `TokensLastAsPromised`: `exp` is cut to a second and `expires_in` is not; a token is
  accepted all the same for as long as `expires_in` says, because the parser has five
  seconds of leeway, and not beyond its TTL and the leeway.
- `LastLoginIsALogin`: `last_login_on` is a time at which a login of that user had its
  token signed and was not answered yet (`earned`): a refused attempt leaves no time of
  its own, whatever was there before, nor does a login that failed before its token. It
  may go back: of two records the statement that began first may write last.
- `ListIsOfOneMoment`: a list is the visible users of one moment since the request
  arrived, none missing and none of another organization among them, though users
  come, go and move between its statements.
- `RolesWereHeld`: the roles beside a user are roles it held at one moment since then,
  and nobody is shown without any. Row and roles need not be of the same moment.
- `NoAddressTwice`: no address is in a list twice, though a deleted user's is free at
  once.
- `NotCutShort`: the pool is closed under a request only when the limit of the shutdown
  has passed or the listener broke down. The limit can be gone at once: a setting of
  0, or one whose product overflows to a negative duration, which `validate` does not
  look at. No property objects to that: it is what the code does, and the exit is
  `fatal`.
- `CleanExit`: when `run()` returns without an error ("server stopped cleanly"), every
  request that was received has been answered and logged.
- `ConnectionsComeBack`: what is out of the pool is at work for a call that has not
  ended. Failures, panics and clients that left have given theirs back.
- `LogTellsAnswers`: when a request is over, the log has its line with the status that
  was answered, by a handler, the router or `RequireAuth`, unless `LOG_LEVEL` is above
  info; after a panic it has the line of `Recovery` and nothing else, so the 500 is in no
  line. `logger.go:10` says "one structured line per completed HTTP request": a panic
  and `LOG_LEVEL` warn or error are where that does not hold.
- `RequestsEnd`: every request ends, unless its own statement hangs, or a statement hangs
  on every connection while it waits for one. The probe at `/health` and the other
  answers that ask nothing of the database always come.
- `StopsWhenAsked`: after a signal the process ends, unless a statement hangs for good:
  `pool.Close` has no limit, so such a statement outlasts the limit of the shutdown.

### Where the code and its texts disagree

- `AtMostOneActiveRole` (run `two_roles`): two role changes that overlap leave two
  active roles. Both `UPDATE`s have the old role in their snapshots, the second
  waits, finds it inactive and does not see the role the first has inserted. The
  comment says `SetUserRole` "replaces the active role assignment".
  `ImplementsExclusiveDirectory` says what does hold: one handler alone replaces
  the whole set (run `alone`), and so do many as long as no two role changes of one
  user are between their snapshots and their commits together (`ApartReplaces`,
  `ApartOneRole`). That overlap is all that is needed to break the comment.
- `DuplicateEmailIsConflict` (run `conflict`): when two creates pass both checks
  together, the index stops the second one with SQLSTATE 23505, which
  `isDuplicateEmailError` does not recognize; it is answered 500 and not 409. One
  handler alone always answers 409 (run `alone`), and so do many as long as nobody
  writes an address, or changes a user, that another's open transaction has
  (`ApartConflict`).

## The runs

| Run | Instance | Shows |
|---|---|---|
| `emails` | 2 handlers, 4 kinds of request, 1 fault; 71 000 states | addresses, accounts, deletes, refinement |
| `roles` | 2 handlers, a change to each role, delete and get, 2 faults; 147 000 states | roles and how many are left, double delete, answers, deadlocks on role rows, refinement |
| `orgs` | 2 handlers, super admin and organization admin, 1 fault; 153 000 states | whom an organization's admin reaches while users are moved, answers |
| `swap` | 3 handlers, 2 users, no fault; 130 000 states | stale addresses written back, cycles of index waits |
| `alone` | 1 handler, every kind of request with one thing wrong at most, 1 fault; 447 000 states | types, the checks, organizations, role replacement, the answer to a duplicate: what holds of one request after another |
| `answered` | 2 handlers, 4 requests, 1 fault, fairness; 135 000 states | no waiting without end, progress, liveness |
| `logins` | 1 client, 2 users, 2 changes, 3 times, 1 fault; 659 000 states | what a token says, and that only logins are recorded |
| `tokens` | 1 client, 17 half seconds, TTL one second, 1 fault; 1 985 000 states | how long a token is accepted |
| `lists` | 3 users, 3 kinds of actor, 3 changes; 89 000 states | what a list says |
| `server` | 3 clients, 2 connections, 2 calls in a request, 8 environments, 3 kinds of request, fairness; 136 000 states | pool, log, shutdown, liveness |
| `two_roles`, `conflict` | 2 handlers, no fault | the two disagreements |

Bounds. Two handlers meet in every pair of statements. A third adds longer
cycles and one more writer between a read and a write; `swap` has three because
a cycle in the index needs one user's address to pass through the other's hands.
`MaxFaults` bounds failures and crashes in a behaviour to two in `roles`, where both
handlers' commits may be lost, and to one elsewhere: each handler has at most one
open transaction and rolls it back whole, so a second failure mostly meets a state
that a behaviour with one failure and fewer requests has too. Behaviours
are not bounded in length: a handler takes request after request until no ids
are left (`UserIds`), and then goes on with the others. Handlers are symmetric in
the runs without liveness. Each request set is chosen for one question; `alone`
has them all in every malformed variant. Deadlock is checked in all runs.

In `logins` one client is enough because clients share only the tables and
`last_login_on`; two changes are enough to delete a user and give its address to
somebody else, or to undo a change before the token is signed. `Profiles` bounds the
rows other requests write to one for each thing a login looks at. `MaxTime` is past
the end of the account in `logins` and past the TTL and the leeway of several tokens in
`tokens`, where a second is two ticks so that a token can be signed within one. Records
of logins that overlap are not in a run of their own: `LastLoginsTrue` is proved for any
number of clients.

In `lists` two users exist and one id is free, so that a user can come, go, move and
take over an address while the two are read; three changes are one before, between
and after the statements of a list of two. In `server` two connections and three clients
make one wait; two calls let a handler come back for a second connection, which is
what could block the pool; the requests are the probe, a login and one that `RequireAuth`
stops; one environment has a level above info; with a word of 32 and a second of 4, settings up to 9 overflow
to a negative duration, to zero and to a positive one. No other bound is on a
behaviour of `server`: requests, signals and restarts go on for ever.

Fairness. `SF` on each handler's statements: a goroutine with a statement to run
runs it, and one that waits for a lock is in PostgreSQL's queue for it and gets it
in its turn, so a statement that is enabled again and again is executed. `WF` on
`AbortDeadlock`: the detector runs after `deadlock_timeout`. Nothing is assumed of
arrivals, replies, failures or crashes. In `UserRequests` it is assumed that
statements end, which a connection without a statement timeout owes to the database;
`ApiServer` is the module in which they may not. There `WF` is on the steps of
`run()`, which include the passing of the limit, and on the steps of each handler.
`Acquire` needs no more than `WF`, because the pool serves in order and who is first
in the queue stays so. Nothing is assumed of clients, signals, the listener, failures,
panics, or of a statement that hangs.

## The proofs

Eight modules (`UserRequestsProofs`, `UserRequestsPromises`, `UserRequestsApart`,
`UserRequestsRoles`, `UserRequestsProgress`, `AuthenticationProofs`, `UserListProofs` and
`ApiServerProofs`) prove, for any finite or infinite sets of users, handlers, roles,
requests and any number of failures and changes (where a set must be finite it is said):

| Theorem | Statement |
|---|---|
| `Invariance` | `Spec => []IndInv` |
| `TypeCorrect` | `Spec => []TypeOK` |
| `UniqueEmails` | `Spec => []UniqueLiveEmail` |
| `AccountsComplete` | `Spec => []CompleteAccounts` |
| `DeletedStays` | `Spec => DeletedIsFinal` |
| `HistoryInvariance` | `Spec => [](IndInv /\ History)` |
| `RefusalsHonest` | `Spec => []RefusalChangesNothing` |
| `SuccessHonest` | `Spec => []SuccessIsComplete` |
| `OrgAdminsStay` | `HomesSpec => []OrgAdminsStayInTheirOrg` |
| `OneDelete` | `Spec => []OneDeleteSucceeds` |
| `Refinement` | `Spec => ImplementsDirectory` |
| `ApartReplaces` | `Spec /\ []RoleChangesApart => ImplementsExclusiveDirectory` |
| `ApartOneRole` | `OneSeedRole`: `Spec /\ []RoleChangesApart => []AtMostOneActiveRole` |
| `ApartConflict` | `Spec /\ []AddressesApart => []DuplicateEmailIsConflict` |
| `ApartOrgs` | `Spec /\ []MovesApart => []OrgAdminsReachTheirOrgOnly` |
| `OneHandlerReplaces` | `OneHandler`: `Spec => ImplementsExclusiveDirectory` |
| `OneHandlerOneRole` | `OneHandler`, `OneSeedRole`: `Spec => []AtMostOneActiveRole` |
| `OneHandlerConflict` | `OneHandler`: `Spec => []DuplicateEmailIsConflict` |
| `OneHandlerOrgs` | `OneHandler`: `Spec => []OrgAdminsReachTheirOrgOnly` |
| `RolesBounded` | finitely many handlers, at least one, `SeedRolesFit`: `Spec => []NoMoreRolesThanHandlers` |
| `NobodyStuck` | finitely many handlers: `Spec => []NeverStuck` |
| `RequestsComeNearer` | finitely many roles: `Spec => RequestsAdvance` |
| `AuthInvariance` | `Spec => []AuthInv` |
| `TokensTrue` | `Spec => []TokenIsTrue` |
| `LastLoginsTrue` | `Spec => []LastLoginIsALogin` |
| `TokensLast` | `Spec => TokensLastAsPromised` |
| `RightsEnd` | for each user `u` and time `t`: from any state in which `Gone(u)` and `now = t`, nobody is let in as `u` at `t + TTL + Leeway` or later |
| `ListInvariance` | `Spec => []ListInv` |
| `ListsAreOfOneMoment` | `Spec => []ListIsOfOneMoment` |
| `ListedRolesWereHeld` | `Spec => []RolesWereHeld` |
| `ListedAddressesDiffer` | `Spec => []NoAddressTwice` |
| `ServerInvariance` | `Spec => []ServerInv` |
| `PoolOutlivesRequests` | `Spec => []NotCutShort` |
| `CleanExits` | `Spec => []CleanExit` |
| `NoConnectionLeaks` | `Spec => []ConnectionsComeBack` |
| `RequestsAreLogged` | `Spec => []LogTellsAnswers` |
| `PoolIsFair` | `Spec => []PoolServes` |
| `StepsComeToAnEnd` | `Spec => StepsAdvance` |
| `ClosedPoolDrains` | `Spec => PoolDrains` |

Assumptions, all evaluated by TLC in every run: lower-casing is idempotent
(`EmailAssumption`), every role has one of the three codes the service
knows of (`RoleAssumption`), the special values are special (`SpecialValues`),
the seeded directory has unique addresses and complete accounts
(`SeedAssumption`), requests are requests (`RequestAssumption`), and `MaxFaults` is
a natural number. For the logins: times are numbers and every user has a password
(`LoginAssumption`), and TTL and second are positive (`ClockAssumption`; the service
refuses another TTL). For the lists: the directory they start on is sound
(`DirectoryAssumption`) and actors are actors (`ListAssumption`). For the process:
there are finitely many clients and at least one connection (`ServerAssumption`; the
code says ten), and an environment is one
(`EnvironmentAssumption`).

The other conditions are hypotheses of their theorems alone, and nothing in the code
enforces them: `OneHandler`, a process that serves one request at a time;
`RoleChangesApart` and `AddressesApart`, requests that do not meet in the way the two
disagreements need (`AddressesApart` rules out two open transactions on one user's row as
well as two that write one address); `MovesApart`, no move of a user another request has
found; `OneSeedRole` and `SeedRolesFit`, a database in which nobody has more
roles than such handlers leave (the seed gives one); finite sets of handlers and of roles,
as every process and every `role` table has.

Why the properties are not inductive alone, and what `IndInv` adds:

- `Local`, per handler: a busy request has passed the checks its label presupposes
  (`Admitted`, `UpdateReady`), and its open transaction holds exactly what the
  statements so far have written (`Holding`). With `TypeOK` it is inductive alone
  (`LocalNext`); the lemmas `<Action>Local` take the actions in turn.
- `Present`: a create's id is still unused, a found user's row is there for good,
  and a row locked by a transaction stays live until it ends.
- `Exclusive`: no two open transactions hold one row; no two creates draw one id.
- `PendingKeys`: an index entry that is not committed meets no live row's
  address and no other such entry. This is the step from "the index checked when
  it inserted" to "unique when it commits": `KeyHolders` being empty and
  `EmailTaken` false at `InsertUser` or `IndexRow` make it true, and as everyone
  else passes the same check it stays true until `Commit`.

The conditions over the tables (`Shared`) are taken by kind of step: those that
write nothing (`QuietShared`), that lock a row (`TakeShared`), that enter the
index (`EnterShared`), and that commit (`ApplyShared`).

`History` is inductive beside `IndInv`. It says of each request what it has pending
(`RolesSet`: one role is made active, the one asked for, by the last insert;
`RowSet`: an organization's admin has its own organization in the row, because it
read it there and `Merge` keeps the organization as read) and what it has committed
(`Ledger`: while it runs, `wrote` is what its label implies and no answer is set;
once answered, the answer is `Honest`). `DeleteDone` and `Answering` tie it to the
tables: a delete answered 200 left its user deleted, and the roles are read of a user
that is there. `OneDeleteSucceeds` follows from `DeleteDone` against `Present`: the
second delete would have to hold a live row.

`HomesRead` is inductive beside `IndInv`: the row `GetByID` finds passes `CanAccess`, so
the admin's organization is in `homes` from then on, and nothing is forgotten before the
request is over. What is written was found before (`WritesFound`). `AllAtHome` is the same
without the memory, and needs `MovesApart` where another request commits
(`CommitAtHome`).

The refinement maps `rows` to `users`, `creds` to itself and `active` to the active
rows of `ura`; open transactions are invisible. Each commit is one action:
`CreateRefines` (`Register`; `PendingKeys` gives the free address), `UpdateRefines`
(`Revise`), `DeleteRefines` (`Remove`) and `RoleRefines` (`SwitchRole`, with the roles
the transaction has not deactivated kept); every other step leaves all three alone.

`AuthInv` carries a login from its lookup to its token. `Progress` says that all accounts
there are, and the one that was read, are among those witnessed since the login
arrived, that what was read passed the checks it has passed, and that a token is
dated by the login it came from. `OneAccount`, kept by every step of the directory,
is why the roles of one lookup are one user's. `TokenTest` is the arithmetic of the cut
seconds.

`RightsEnd` is about what the code leaves undone: no token is revoked, and a deleted user
goes on with the one it has. `Gone(u)` says that `u` is deleted and that every login
under way arrived after that; it stays true, because a deleted user stays deleted, and a
login that signs a token has read a live account. So the last token of `u` was signed
before, and `TokenTest` says when it ends. A restart changes none of this.

When role changes do not meet, `Switching` is inductive as well: every role that is
active when `SetUserRole` has taken its snapshot is in `todo` or deactivated
(`Clears(h, r)`), and no other handler makes one active behind it. So nothing is kept
when it commits (`RoleReplaced`). This is the step that fails when they meet, as the run
`two_roles` shows.

When they do, `RolesOwned` still is inductive: each active role of a user can be given an
owner of its own, a handler, such that a handler that changes the roles of that user
clears (`Clears`) what it owns. A commit makes one role active and gives it to its
handler, whose other roles go with the same commit; a role that another handler committed
after the snapshot is that one's. A map from the active roles to the handlers that is
one to one bounds their number (`FitsInto`).

`AddressesChecked` follows an address from its check to the index: from `EmailExists`
or the procedure's own `EXISTS` on, the address is free among the committed rows
(`AddressChecked`), which others can only change by committing what they held, and
`AddressesApart` says that they held another. So the index never answers first.

`NeverStuck` rests on what `Local` says of transactions: who blocks a statement holds a row
or an index entry, and who holds one is busy (`Holding`). So everybody who is not ready
waits for somebody in the same set, and among finitely many handlers a smallest set that
waits for itself is a cycle (`Cycle`, by the well-foundedness of proper subsets). A failed
attempt at this proof found a formula that TLC and tlapm group differently (`SUBSET S \ {S}`),
which is why `Deadlocked` has parentheses.

`RequestsAdvance` has `StatementsLeft` as its variant, the place of the label in its
request and, in the first `UPDATE` of a role change, the rows it has still to visit.
`VisitingInvariance` says that this statement ends with its last row.

`Ready` is the guard of a handler's next statement, because the provers know nothing of
`ENABLED`; TLC has confirmed `Ready(h) <=> ENABLED Step(h)` in the states of `roles` and
`answered`.

`ListInv` ties a list to the moments it was read in. `ReadAtOneMoment` holds from `Read`
on because deletes and moves change the directory and not what was read; `Sound`, of the
directory and of all that were witnessed, says that nobody is without a role, which is
why `LoadRoles` never finds none: a user that was read exists for good, and a deleted
one keeps its roles.

`ServerInv` says of each step of `run()` what the rest of the process is at then
(`MainReady`): before `Start` there is no request, and in `closing` either all requests
are over, or the limit has passed or the listener is down. `ConnectionsComeBack` is
inductive beside the types: each action moves `inUse` and the set of holders together,
which takes the finiteness of `Clients` and the cardinality lemmas. `LinesSoFar` carries
the log through the stages; the level does not change while there are requests. `Queued` says that the queue of the pool is the clients that
wait, each once; with it `PoolIsFair` says that whoever waits does so for a call that has
a connection, or has a connection coming, however many failed or left the queue.
`StepsAdvance` has the stage of a request and its remaining calls as its variant
(`StepsLeft`); `PoolDrains` says that `pool.Close` waits for a number that only falls.
These three and `RightsEnd` are listed with no run of their own; TLC has checked them on
the instances of `server` and `logins`.

Only model-checked: `RequestsAreAnswered`, `RequestsEnd` and `StopsWhenAsked`, because
liveness under fairness is out of the prover's reach. What safety says of them is proved:
somebody can always go on (`NobodyStuck`, `PoolIsFair`) and going on comes to an end
(`RequestsComeNearer`, `StepsComeToAnEnd`, `ClosedPoolDrains`).

## Not modelled

- The seed script. It is run by hand before the service starts, in one session with
  nothing beside it; what it leaves is `SeedRows` and `SeedRoles`. Run again after
  somebody has soft-deleted one of its roles by hand it fails on the unique
  constraint, which counts deleted rows; nothing in the service deletes a role.
- Of the HTTP pipeline: request ids, which only label lines; the text of answers; the
  read, write and idle timeouts of the server, which end connections, as `Finish` and
  `CallFails` may at any time; the `NoMethod` handler, which gin calls only with
  `HandleMethodNotAllowed`, which is never set. `Shutdown` also closes connections that
  have sent nothing for five seconds; a client here is idle or has a request.
- Of the configuration: everything but the two durations that are computed with, whose
  validity is one flag of the environment.
- Of the tables: audit columns, which nothing reads but the order of the list; `role`
  and `organization` as tables, because no handler writes them;
  `fn_get_user_for_login`, which nothing calls.
- The bodies of the API documentation, and the ten placeholder packages: there is no
  behaviour.

# A TLA+ verification of nexus-idp

nexus-idp is an identity provider: an API application (phone and e-mail OTP
login, JWT access and refresh tokens, logout), an admin application (session
health, clean-up, archive, device trust) and shared libraries over PostgreSQL
through MikroORM. This directory holds TLA+ models of its core logic, the TLC
configurations that check them on small instances and proofs of their most
important properties for every instance.

Run TLC as `tlc -config X.cfg M` and the proofs as `tlapm M.tla` here.

## 1. The system

Every HTTP request works on a fork of the entity manager: a private identity
map. A repository method reads rows into entities, the service changes them
across several `await`s, and a flush writes the columns that changed, by primary
key, each flush in a transaction of its own unless the code runs inside
`em.transactional` (READ COMMITTED). Requests of one process interleave at every
`await`; the API, the admin application and its cron jobs are further processes
on the same tables. There is no lock other than the ones Postgres takes on rows
a transaction has written, no version column and no retry.

| Component (source) | State | Operations | Hard behaviour | What makes it correct |
|---|---|---|---|---|
| Sessions (`session.service`, `session.repository`, `session-cleanup.service`, `jwt.refresh.strategy`, `auth.service` refresh/logout) | `sessions`, `revoked_tokens` | login creates one and enforces limits; guard closes expired or compromised ones; refresh extends; logout, admin and cron terminate | concurrent logins; stale entities saved after another request's write; expiry at the boundary; crash between two writes | limits hold under concurrency, termination is final, a compromised session is closed, what a clean-up has listed it ends |
| One-time passwords (`otp.service`, `otp.repository`, `auth.service` send/login) | `otps` | create (with clean-up and resend limit), find, count attempts, mark used | double submission; lost attempt counts; SMS failing after the row is written | an OTP is accepted once, after a bounded number of guesses, in its lifetime |
| Rate limits (`auth.service` enforce/increment, `rate-limit.repository`) | `rate_limits` | open, reset and count a window | lost updates; unique-key race on the first request | no more than the maximum per window |
| Session archive (`session-archive.service`) | `session_archives` | archive terminated sessions, expire, restore, delete, change retention | create-then-delete is not atomic; runs overlap; restore keeps the archive | no terminated session is lost or comes back to life, copies are few, retention is respected |
| Devices (`devices.service`, `device.repository`) | `devices` | create, update, reactivate, hand over at login; block at logout; trust, untrust | check and act apart; logout blocks a device a login has just accepted; two phones with one fingerprint | the views of trust agree, an owner is never locked out by a logout, a device changes hands only when abandoned |
| Accounts (`account-management.service`, `user.service`, login part of `auth.service`) | `users` | register, suspend, delete, lock, unlock, reactivate, automated response | suspension while a login is in flight; operations on outdated copies; death between two writes | no session stays open that an operation could have known of; nothing is undone; a phone or an e-mail names one account |
| Device detection (`device-detection`) | none | risk score and level, fingerprint | weights against thresholds, order of rules | what the documents call an attack is refused |
| Profile (`profile.controller`, `jwt.strategy`) | `profiles` | guard, query | a session passed as a user | a user is shown his own profile (read, not modelled) |
| JWT, hashing (`jwt.service`, `common.service`) | none | issue, parse expiry, bcrypt | bcrypt reads 72 bytes | modelled where sessions use them |
| Security events, audit logs, roles, API keys, federated identities | append-only or unused tables | insert, list | none | - |
| Mail, SMS, CAPTCHA, MinIO, Discourse, Apple, logger | external | call out | failure of the call | a failed call leaves a consistent state |

Components meet in the database: a login reads the OTP and rate-limit tables
before its transaction, users, devices and sessions inside it; logout writes a
session, its device and `revoked_tokens`; the admin application and the cron
terminate sessions the API is refreshing; the archive deletes rows they have
terminated.

## 2. Modules

### Sessions.tla (checked through MCSessions.tla)

The `sessions` and `revoked_tokens` tables and every handler that writes them,
except the archive and the account operations.

| State | Code |
|---|---|
| `sess` | rows of `sessions`: `terminatedAt`/`terminationReason`, user, device, `lastActivityAt`, `expiresAt`, `maxExpiresAt`, `refreshTokenHash` |
| `held` | refresh tokens clients have been handed, per session |
| `revoked` | rows of `revoked_tokens` |
| `blocked` | devices whose `blockedAt` a logout set |
| `login` | a login inside `executeLoginTransaction` / `executeEmailLoginTransaction`: where it is, the sessions it has terminated but not committed, when it created its own |
| `req` | a refresh or logout request after the read of the guard: where it is, the hash it is to record or hand out |
| `job` | a bulk termination of the admin API or the cron: the sessions it listed and has still to update |
| `now`, `failures` | the clock and the failures so far (crashes, aborted jobs, answers lost), bounded by `MaxTime`, `MaxFailures` |
| `cut` | history: sessions of which a failure cut a request short |
| `revived` | history: sessions a refresh in flight extended after they had expired |

One action is one database step of a handler; between two of them any other
process may run.

* *Login*: `LoginBegin` (look the device up), `EnforceDeviceSessionLimit` (write
  the device row, which waits for its lock, then count and choose victims),
  `EnforceSessionLimit` (the same for the user, seeing its own writes),
  `LoginCommit` (new session, victims, device visible at once), `LoginRollback`.
* *Guard* (`JwtRefreshStrategy.validate`): `GuardExpired`, `GuardMismatch`,
  `GuardAccept` read the row; `RevokeCompromised` and `GuardClose` are the writes
  of the two refusals, in the order of the code.
* *Handlers*: `RefreshToken` stores the hash of a new token; then `RefreshAnswer`
  hands it out, or `RefreshFails`, when the security event is not recorded,
  answers 401 with the hash already stored. `LogoutTerminate`,
  `LogoutBlockDevice` and `LogoutRevokeToken` are the three transactions of a
  logout. `RequestRefused` ends either where the user may not sign in any more.
* *Bulk termination*: `TerminateAllUserSessions`, `TerminateAllDeviceSessions`,
  `CleanupExpired`/`CleanupInactive` list, `TerminateNext` writes one row. A
  clean-up is a pair of ages: `Cleanups` are those that may start (every day with
  1 and 7 days, every week with 7 and 30, by an admin with any). A simulation
  changes nothing and is none.
* *Failures*: `ApiCrash` drops every request in flight, `RefreshFails` one
  answer; both put the sessions concerned in `cut`. `JobAbort` ends a job between
  two updates.

What is abstracted: a token is the second it was issued at, a hash is the token
with a number that makes hashes of equal tokens differ, as the salt does;
`IatUnit` says how much of the issue time lies in the 72 bytes bcrypt reads.
Addresses, user agents, access tokens and security events are left out: nothing
here depends on them. A device is the one `createDevice` returns, and the only
block on it is that of a logout.

Operators marked *Faulty* are variants of a definition with a plausible bug in
it. No behaviour of the specification uses them; each is there to show that a
property notices the bug.

#### Properties and runs

| Run | Instance | Shows |
|---|---|---|
| `SessionsLogins` | 2 logins, 2 devices, 1 request, 3 sessions, limits 1, clock 0..1, no symmetry | `TypeOK`; `DeviceLimit`: never more than the maximum per device; `UserOvershoot`: the user's maximum is exceeded by at most the other logins in flight (neither counts sessions in `revived`); `RequestsEnd`: nobody waits for a device row for ever |
| `SessionsHandlers` | 1 login, 2 requests, 1 job, 1 failure, 2 sessions, 2 tokens each, clock 0..1 | `TerminatedForGood`: nothing reopens a terminated session; `CompromisedClosed`: a session whose current token is recorded as compromised is closed or about to be; `OnlyReplacedMismatch`: a client's token that fails the comparison of the guard has been replaced by a newer one that passes, which a client holds or is about to be handed; `LogoutRecorded`: what a logout starts in three transactions it finishes (these three unless the session is in `cut`); `ListedAreEnded`: a bulk termination ends all it listed, unless it fails; `ImplementsContract` and `DeadForGood` of SessionsRefinement, below |
| `SessionsUserLimit` | 2 logins on 2 devices, maximum 1, clock stopped | finding: `UserLimit`, the documented maximum per user, does not hold |
| `SessionsRevoked` | 2 requests on one session | finding: `RevokedNeverAdmitted`, which the comment on `tokenHash` promises, does not hold |

*Bounds.* Every race in this code is between two actors on one or two rows, so
two logins, two requests and one job suffice to produce it; limits of one make
the second login the interesting one; lifetimes of none and one and a clock of two
instants put a step before, at and after an expiry date; two tokens per session
distinguish the current from a replaced one. `Sids` bounds the table: `LoginBegin`
keeps an id for every login in flight. The passing of the absolute maximum needs a
longer clock than `SessionsLogins` has, and the runs have one job at a time; both,
and clean-ups that overlap, are covered by the theorems below, which have none of
these bounds. Deadlock is not checked: the table of sessions and the clock are
finite, so an instance really comes to an end.

*What is excused.* Three histories name the behaviours the code does not exclude
and the invariants therefore leave out: a session in `revived` was extended after
it had expired and comes on top of the limits; of a session in `cut` a request
died between two of its writes, so that a hash is recorded and the session still
open, a logout is half-done, or the newest token never reached its client and the
next refresh of that client is taken for a theft. The last one needs no crash: a
security event that cannot be inserted is enough.

*Fairness* (`FairSpec`, only for `SessionsLogins`). A request or job that has
started is run to its end (weak fairness on its steps: Node runs every pending
continuation and Postgres answers). A row lock is granted to each waiter in turn
(strong fairness on the two steps that need one: Postgres queues lock waiters).
Nothing is assumed of clients, admins, time or the cron. The cron handlers run
outside a request, on the global entity manager, which MikroORM refuses unless it
is configured otherwise (`mikro-orm.config.ts` does not), so no property relies on
a clean-up taking place.

### SessionContract.tla, SessionsRefinement.tla

`SessionContract` says what the table of sessions promises with no word about
requests, locks or transactions. A session is opened once, may be extended, and
is terminated for good. Because the code decides on what it read and writes
later, two judgements stand between a decision and its effect: `granted` holds
sessions a refresh was granted on *while they were usable*, `condemned` those
somebody decided to end *while they were open*. Only a grant extends a session,
only a sentence ends one, and either may come to nothing.

`SessionsRefinement` gives the mapping: the phase and the two dates are columns
of `sess`; a refresh past the guard is a grant; a victim of a login, a request
about to close its session and a row on the list of a bulk termination are
sentences. `ImplementsContract` (`Contract!Spec`) is a property of
`SessionsHandlers` and a theorem. So a clean-up may terminate a session that was
refreshed after it was listed, which the code does, and nothing may terminate a
session that nobody had read open.

`DeadForGood` is the consequence that the second date rests on: `refreshToken`
never compares `expiresAt` with `maxExpiresAt` and may set it later; a session
past either date, with no refresh already past its guard, is nevertheless out of
use for ever.

### Otp.tla (checked through MCOtp.tla)

The `otps` and `rate_limits` tables, the requests that send a code and the part
of a login that precedes the login transaction, where Sessions takes over. The
phone and the e-mail handlers run the same steps and differ in one condition,
`Matches`: `findOtp` and `findRecentOtp` filter on the phone number, but are not
given the e-mail address, so an e-mail lookup sees every e-mail's code. Codes
are sent for several purposes (`Purposes`): both lookups filter on it, and a login
asks for a code sent for `"login"`. The
modules map whichever of the two copies of a handler is cited; both were read.

| State | Code |
|---|---|
| `otps`, `born` | rows of `otps` by primary key; keys handed out so far |
| `rate` | rows of `rate_limits`, one per address and type (its unique key) |
| `send` | a send request: the step it has reached, the counter it read and when |
| `login` | a login: the counter it read, the code it found (`otp`, as read) and its own changed copy of it (`edit`) |
| `now`, `failures` | the clock and the abandoned requests so far, bounded |
| `history` | what happened: acceptances and wrong guesses per code, requests counted in the current window per counter, and `stale` |

* *Send*: `SendBegin`/`SendRefuse` read the counter, `SendInsert` or `SendCount`
  write it, `SendCheckRecent` (`otp_limit`), `SendWipe` (`deleteOtp`),
  `SendCreate`, `SendDeliver` (delivered or not: see the hazards).
* *Login*: `LoginBegin`/`LoginRefuse` read the counter, `LoginReset` opens a new
  window, `LoginFind` reads the newest findable code, `RecordWrong` writes the
  attempt, `LimitRead` and `RecordFailure` count the failure (an
  insert that meets another's row fails on the unique key and writes nothing),
  `MarkUsed` writes `isUsed`, `LoginDone` is the commit or the roll-back of the login transaction.
* *Failures*: `Abandon` ends any request between two of its steps.

Two ways of writing a row are kept apart because they race differently.
`UpdateOtp` (`nativeUpdate` with the whole entity) overwrites every column;
`Flush` writes only the columns in which the request's copy differs from what it
read, and a later flush of the same request writes those columns *again*, because
`nativeUpdate` does not tell the identity map what it wrote.

The code has lost updates by design: nothing locks and nothing compares versions.
So the properties say what the code guarantees in their absence. `stale` collects
each row that was written, or a counter whose count was decided, from a copy that
no longer agrees with the row; the invariants speak of the other rows. What they
exclude is that codes are accepted twice, guesses forgotten or windows exceeded
by anything *other* than such an overlap: the second flush of `RecordFailure`,
the roll-back of the login transaction, the wipe of another request, a code that
runs out half-way or a request that dies.

| Run | Instance | Shows |
|---|---|---|
| `OtpLogins` | 1 phone, 2 purposes, 2 codes, 1 sender, 2 logins, 1 failure, clock 0..2, 2 attempts, windows of 1 | `TypeOK`; `OnceUnlessStale`: a code logs in once; `GuessesCounted`: no wrong guess is forgotten and the last one expires the code; `WindowBound`: how many requests a window admits, which for codes is the maximum and one, and for failed logins fewer than two more for each login served at once: one for those whose first insert clashes, one for those in flight when the limit is reached |
| `OtpExpired` | 2 addresses, one code each | finding: `OnlyExpiredDeleted`, the comment on the clean-up in `createOtp`, does not hold: it deletes the codes that are still valid |
| `OtpExhausted` | 1 phone, 1 code, 2 attempts | finding: `ExhaustedNeverAccepted`, the comment on `maxAttempts`, does not hold: the two minutes of grace in `findOtp` outlive the expiry that the last guess brings forward |

No bound on the number of codes that can be guessed at is claimed. Codes do not
pile up today only because every send deletes the valid codes of everyone, which
is the finding of `OtpExpired`.

*Bounds.* A race is again between two requests on one code or one counter; two
codes let a wipe and a newest-first choice happen, and two purposes a lookup that
must pass a code over; a life, grace and wipe age of one and a resend age of two
put a step before, at and after every boundary of a clock of two or three
instants. A maximum of one makes the second request the one at the limit;
`MaxAttempts` is two so that a code survives its first wrong guess. In the mutant
runs the same instance notices an attempt that is not recorded, a code that is not
marked and a limit that is one too late. One sender suffices for TLC; two first
requests that meet at the unique key of the counter, and any other number, are in
the proof of `WindowBound`.

### Archive.tla (checked through MCArchive.tla)

`session_archives`, and the rows of `sessions` that archiving deletes and
restoring brings back. The handlers of Sessions appear as one action,
`Terminate`; of a row only its date and reason of termination are kept.

| State | Code |
|---|---|
| `sess`, `rowIds` | the row of each session id, or none; the primary keys its rows have had (a restored row has a new one) |
| `archives` | rows of `session_archives` |
| `job` | a run of `archiveTerminatedSessions`, by the cron or an admin's POST: the rows it listed and has still to do, the one it has archived and not yet deleted |
| `restore` | a restore between its read and its insert |
| `now`, `failures` | the clock in days, the crashes and failed statements, bounded |
| `ended`, `touched` | history: every termination of a session; the sessions whose archives an admin deleted or re-dated |

* *Run*: `ListTerminated` reads the list once; `CreateArchive` or
  `CreateArchiveFails` and `DeleteSession` are the two transactions of a session;
  `JobEnds` is the end of the list or of the process.
* *Clean-up and admin*: `CleanupExpiredArchives`, `DeleteArchivesByOwner` (user
  or device), `DeleteArchivesByReason`, `UpdateArchiveRetention`, one statement
  each.
* *Restore*: `FindArchive`, then `CreateSessionFromArchive`, which the unique key
  of `sessions` refuses while the session has a row.

`Retention` gives days to the reasons `calculateRetentionDays` lists; the others
are what an admin may invent (`body.reason as any`). Their retention is no number
of days, the insert fails every time and the row stays where it is. Because
`terminateSessions` and logout save rows they read earlier, a session may be
terminated twice, and archived with the earlier date and reason; so the
properties speak of *a* termination it had.

| Run | Instance | Shows |
|---|---|---|
| `ArchiveRuns` | 1 session, 3 archive rows, 2 runs, 1 restore, 2 reasons, 2 terminations, 2 restores, 1 failure, clock 0..3 | `TypeOK`; `Retained`: a terminated session is in one of the two tables until a retention it was given has passed, unless an admin's hand removed it; `ClosedForGood`: it never comes back to life; `CopiesBounded`: overlapping runs archive it once for each run and row, and once more for each failed deletion |

*Bounds.* Every property is about one session and no step reads two, so one
session suffices. Two runs give the overlap; three archive rows are one more than
the bound allows two runs on one row, so the bound can be exceeded; one retention
of a day, one that is not a number and a clock of four days put a clean-up before
and after an expiry; two restores give a session three rows. A row of
`session_archives` may reuse the id of a deleted one: no step remembers an id.

### Detection.tla, Devices.tla (checked through MCDevices.tla)

`Detection` holds the pure functions: what the server concludes from the headers
of a request. A request is the record of what the code tells apart: a user agent
is the set of substrings the code looks for, its length class, the UUIDs in it and
the rest of its text. Scores count in tenths and totals in thousandths, so that
the weights are exact; one comparison that binary floating point decides otherwise
is written the way it comes out. `createPrimaryFingerprint` returns the sequence
of what the code hashes, so two requests share a device exactly if the code gives
them one hash; version numbers of the operating system and the browser are
functions of the user agent's text, which is itself part of that sequence. Facts
of the code that matter here: hardware headers take precedence over the
installation id, so twin phones share a fingerprint; every UUID written in lower
case counts as suspicious; the branch of the operating system for app user agents
is tried on lower-cased text and never matches.

`Devices` is the `devices` table and the requests that write it.

| State | Code |
|---|---|
| `dev` | the row of each fingerprint, which is unique: owner, `blockedAt` (`state`, and its age `blockedFor`), `blockReason`, `isTrusted` |
| `login` | a login inside `createDevice`: the row as read (`copy`) and the row it makes of it (`new`) |
| `req` | a logout, trust or untrust request between its read and its flush |
| `stale` | history: devices some request wrote from an outdated copy |

* *Login*: `LoginFindsActive` (own active device, after the risk check),
  `LoginFindsAny` (by fingerprint alone: create, reactivate, hand over or refuse),
  `LoginCommit` (`isDeviceSafeForAuth` on the entity it holds, then the flush),
  `LoginFails` (refused, or the unique key).
* *Logout and trust*: `LogoutFinds`, `TrustFinds`, `UntrustFinds`, then
  `ReqWrites`; or `ReqDies` in between.
* *Time*: `Tick` ages blocks up to one step past the cooldown, where nothing
  tells them apart any more.

A flush writes the columns in which a request's copy differs from what it read,
except that a date set anew always differs. A property set to `undefined` is
written as NULL, as MikroORM does. Trust dates and the description of a device
are left out: no decision reads them.

| Run | Instance | Shows |
|---|---|---|
| `DevicesRuns` | 2 users with twin phones, one of them persistent, 2 logins, 1 request, waits of 1 | `TypeOK`; `TrustViewsAgree`: the list of trusted devices and the trust status say the same of any device not stale; `OwnerReadmitted`: an owner is refused only after a stale logout; `HandedOver`: a device changes hands only after the cooldown and without trust; `OwnerReturns`: an owner who keeps trying gets in again; `ImplementsDeviceContract` of DevicesRefinement, below |
| `DevicesRisk` | the same with one phone and the documents' example of an attack, curl with an invented device | finding: `AutomatedBlocked`, that such a request is critical and blocked, does not hold |

The finding comes from the weights: the user agent counts a quarter, the headers a
fifth, and timing, geography and network return constants, so that this request
scores 0.375, *medium*, and no request reaches *critical*, the one level that is
refused.

What `stale` excuses is a write from a copy that another request had outdated:
two claimants of one device, a logout that meets a login, trust given to a device
that has just been blocked. The contract's `Spoil` is the same set.

*Bounds.* Every property is about one row and no step reads two, so one
fingerprint, shared by two users, is enough; two logins and a request give each
pair of writers. *Fairness* (`FairSpec`): requests that have started go on, time
passes, and the users of `Persistent` slots try again (strong fairness, because
their slot may be busy). Without the last nobody need return; it is an assumption
about the user, not about the code.

### DeviceContract.tla, DevicesRefinement.tla

`DeviceContract` says what the table of devices promises, every operation one
step on the row as it then is: a device is enrolled, used, left at a logout,
returned to by its owner or taken over after the cooldown, and an admin gives and
takes its trust, which ends with a logout, comes back with the owner and passes
to nobody. Requests and their copies do not occur in it. Nothing is promised of a
device that two requests wrote at once (`Spoil`), except that the others are left
alone.

`DevicesRefinement` gives the mapping, column by column; `stale` is the set of
spoiled devices. `ImplementsDeviceContract` (`Contract!Spec`) is a property of
`DevicesRuns` and a theorem: the effect of a handler that reads a device, decides
and writes later is that of the atomic operation at the time of the write. The
one trace of the delay is the date of a logout, which is that of its decision.

### Accounts.tla (checked through MCAccounts.tla)

The `users` table against logins, with as much of a session as the account
operations see of it: open, or ended by its expiry or a termination. Sessions that
a late refresh brings back are in Sessions, not here.

| State | Code |
|---|---|
| `acc` | rows of `users`: deleted or not, the phone or e-mail, `status`, what is left of `lockedUntil` |
| `sess` | rows of `sessions`: account, open or closed |
| `login` | a login: the identifier, and the account it has found, or none |
| `admin` | an operation of `AccountManagementService`: the step it has reached, the columns it read, the sessions it has still to terminate |
| `spared`, `crashes` | history: sessions an operation could not know of, or left when it died; bounded |

* *Login*: `LoginFinds` (find and check the status, or find none), `LoginCommit`
  (a session, whatever the account is by now), `RegisterCommit` (account and
  session; the key on the e-mail may refuse it), `LoginFails`.
* *Operations*: `AdminFinds` or `AutomatedFinds` finds the account; `AdminLooks` is
  the read of `updateUser`, which leaves an account alone that is no longer live;
  `AdminFlushes` writes, by the primary key, the columns that differ from that
  copy, also on a row deleted in between; `AdminLists`, `AdminCloses` one session;
  `AdminDies` between any two.
* *Time*: `Tick` ages the locks, `SessionEnds` is an expiry or somebody else's
  termination.

`AccountManagementService` is a public service that nothing in the repository
calls yet; its operations are modelled as they would run. What it does shows in
the model: `softDeleteUser` replaces the e-mail but keeps the phone and the
status, neither the access guard nor a refresh looks at `deletedAt`, a lock ends
no session, and the list of sessions to terminate skips those past their expiry.

| Run | Instance | Shows |
|---|---|---|
| `AccountsRuns` | 2 accounts, 2 sessions, 1 phone, 1 login at a time, 2 overlapping operations, 1 death, locks of 1 | `TypeOK`; `NoneLeftOpen`: a suspended or deleted account keeps no session open but those a login in flight or a dead operation left (`spared`); `TwinsBounded`: a phone names no more accounts than logins run at a time; `ResponseOnlyLocks`: the automated response never suspends; `ColumnsKept`: an operation on an outdated copy undoes nothing |
| `AccountsTwins` | 2 accounts, 2 sessions, a phone and an e-mail, 2 logins, no operations | finding: `PhonesUnique`, which the entity promises of phone numbers, does not hold |

*Bounds.* One account to operate on and one that registers after its deletion, or
beside it; a session opened before and one opened during an operation; two
operations, so that each may work on a copy the other has outdated; one death
splits any two steps. With one login at a time `TwinsBounded` says that a suspended
or locked account is still found, and no second one registered; two logins are
what `AccountsTwins` needs, and the theorem covers any number. No fairness is
assumed and no liveness claimed: nothing in the code repeats an operation that
died.

## 3. Proofs

`SessionsProofs` and `SessionsLimitProofs` hold for all constants that satisfy
`LimitsAssumption` (the two maxima are positive), `TimesAssumption` (durations
and bounds are natural numbers), `CleanupsAssumption` (ages are natural numbers)
and `SetsAssumption` (finite ids and login slots, admin reasons among the
reasons).

* `TypeCorrect` (`TypeOK`). Not inductive alone: `TypeInv` adds that a request
  past its guard names a session of the table, and that a session has been
  handed finitely many tokens, so that the number of the next one exists.
* `TerminationIsFinal` (`TerminatedForGood`), action by action.
* `DeviceLimitHolds` (`DeviceLimit`). A login counts in one step and inserts in
  a later one, so the limit itself says nothing about the steps between.
  `DeviceInv` states the room a login has made: while it holds the row of its
  device, the sessions that count there, less its victims, are fewer than the
  maximum (`DeviceRoom`), and no other login holds that row (`OneLockHolder`).
  Inserting uses that room.
* `UserOvershootHolds` (`UserOvershoot`). Several logins of one user can hold
  room at once. `UserRoom` says of *every* set `S` of logins about to commit: the
  sessions that count, less the victims of `S`, number at most
  `Max - 1 + N - |S|`, for `N` request slots. A login that chooses its victims
  joins with the strongest bound, one that commits moves from `S` into the count.

* `UserLimitOneAtATime`: where `LoginReqs` has one element, the bound of
  `UserOvershoot` is the documented maximum. The run `SessionsUserLimit` shows that
  two are enough to break it.

All other steps are `Quiet` (lemma `StepKinds`): they make no session count that
did not, give no login a lock and change no login's victims.

* `CompromisedIsClosed` (`CompromisedClosed`). Hashes are numbered in the order
  they are made, so the one a refresh writes is new to `revoked_tokens`. The
  invariant (`RevokedInv`) says that every hash recorded, stored in a row or held
  by a request has a number its session has reached, and that a request about to
  record one (in `block` or `revoke`) has terminated its session first. What a
  failure that cut a request of the session short (`cut`) leaves behind is excused.

* `AdmittedInRaceOnly` (`RevokedAdmittedInRace`). `RevokedNeverAdmitted` is
  violated; this is what holds in its place. A guard reads the session open
  (`AdmittedIsOpen`), so by `CompromisedClosed` a request let through with a
  recorded token runs beside the one that recorded it, before that one has closed
  the session, or a failure cut a request of that session short.
* `OnlyReplacedLooksCompromised` (`OnlyReplacedMismatch`). The row of an open
  session holds the hash stored last, and tokens are numbered by the hash of the
  row. `Newest`: the token with that hash is with a client, or a request is about
  to answer with it, or the session is in `cut`. A refresh, however old its read,
  stores the next hash in one step and hands it out in a later one, between which
  others may refresh again; a logout and a termination close the session. Equal
  tokens that bcrypt cannot tell apart only help. `TableSteps` says what a step may
  do to the table and the tokens, and the rest follows from it.
* `LogoutIsRecorded` (`LogoutRecorded`). `LogoutInv`: neither a guard nor a bulk
  termination writes the reason `LOGOUT`, so a session that has it met the first
  transaction of a logout, which has gone on to the third, is on its way, or was
  cut short.
* `ListedIsEnded` (`ListedAreEnded`): a session leaves the list of a job only
  terminated, and an idle slot has an empty list (`Unlisted`), so that the end of a
  list is not a way out.

`SessionsContractProofs` shows the refinement. `RefineInv` adds to the types that
a login dates its session by a clock it has read (`DatedByNow`). One lemma for
each judgement and effect of the contract (`JudgeStep`, `OpenStep`, `ExtendStep`,
`TerminateStep`) says when a step of `Sessions` is that step of the contract;
`LoginSimulates`, `RequestSimulates` and `JobSimulates` apply them handler by
handler, `Simulation` puts them together, `ContractImplemented` lifts it. The
safety of the contract follows from the contract alone (`DeadStep`), and
`DeadStaysDead` carries it back.

`OtpProofs` holds for all constants that satisfy `NumbersAssumption` (numbers are
natural, maxima positive), `SetsAssumption` (finite codes and slots, a purpose
`"login"`) and `NoneIsNoRow` (`None` is neither a row nor a key).

* `TypeCorrect` (`TypeOK`). `WellFormed` adds that only codes handed out are
  stored and that a request past the lookup holds a code that was handed out and
  both its copies, of the right types.
* `AcceptedOnce` (`OnceUnlessStale`) and `GuessesRemembered` (`GuessesCounted`)
  come from one inductive invariant, `CodeInv`. `RowTells` says of a code that is
  not stale that its row shows its history: accepted means `isUsed`, the attempts
  are the guesses, the expiry is the original one or has been brought forward.
  `CopyTells` says of a request what its copies show: the code it found was
  unused, and its edit is that code with an attempt more, or used. A write from a
  copy that equals the row then continues the history by one, and the later
  flushes of the same request (`RecordFailureCodes`, `LoginDoneCodes`) change
  nothing that another request has not outdated.

`OtpWindowProofs`, under the same assumptions, shows `WindowIsBounded`
(`WindowBound`). `SendKeyGood`: the counter of codes sent is at most one behind
what was counted, because the insert stores zero, and at most the maximum.
`LoginRowGood`: that of failed logins is behind by the attempts it does not show
and by logins that found no row, of which one inserts it and the others meet it;
so what is counted and those still about to insert are together at most the
attempts and the number of slots. `LoginKeyGood`: what is counted and those in
flight are together at most the maximum and twice the slots, less one.
`SendCopyGood` and `LoginCopyGood` say that the copy a request decided on was not
blocked. The steps that matter move a login into the flight, or from the flight
into the count.

`ArchiveProofs` holds for all constants that satisfy `NumbersAssumption`,
`FiniteAssumption` (finitely many runs and archive rows), `SetsAssumption` and
`NoneIsNoRow`.

* `TypeCorrect` (`TypeOK`). `WellFormed` adds that a row is stored under its own
  session id and that a run about to delete holds a closed row.
* `StaysClosed` (`ClosedForGood`). `CopiesTell`: every copy of a session, in
  either table, in a run's list or in a restore's hand, tells of a termination it
  has had, and a session without a row has had one. Restoring any copy is then
  safe, however long ago it was read.
* `NothingLost` (`Retained`). `Retained` says nothing of the moment between the
  two transactions. `KeptInv` adds that the session a run is about to delete is
  `Kept` without its row: archived, touched by an admin or outlived; that what is
  listed was terminated in the past; and that an archive not touched expires no
  earlier than its date of termination plus its retention (`KeptLong`), so that a
  clean-up removes only archives of sessions that are outlived.
* `CopiesAreBounded` (`CopiesBounded`). The copies alone are not inductive: the
  invariant (`CountInv`) also counts those still to come. `Stale` runs hold a row
  that is gone, `Free` runs are not about to delete the row in the table; each may
  archive once. Archiving takes a run out of one of the two sets, a deletion turns
  free runs into stale ones, a failed deletion frees a run again, and a restore,
  whose primary key no earlier copy has (`KeysReached`), frees all.

`DevicesProofs` holds for all constants that satisfy `WaitAssumption` (positive
waits, the longer one last) and `UsersAssumption`.

* `TypeCorrect` (`TypeOK`), with `Named`: a request in flight has a fingerprint of
  a client.
* `TrustAgrees` (`TrustViewsAgree`), `OwnerIsReadmitted` (`OwnerReadmitted`) and
  `HandedOverLate` (`HandedOver`) come from `Inv` (theorem `InvCorrect`). A row is
  `Sound` if it is trusted only while active and blocked only with a reason the
  reactivation policy lists. Every copy in flight may be sound although the row
  has gone on; `Passes` says which changes a flush of such a copy can make, and a
  write from a copy that equals the row leaves a sound row (`WriteSound`).
* `DeviceContractImplemented` (`ImplementsDeviceContract`). `Intent` adds to `Inv`
  what each request in flight will do to the row *if it is still what its copy
  says*: a login `Enters` (enrols, uses, returns or takes over), a logout
  `Leaves`, an admin `Judges`. The copies age with the row, and the intents with
  them (`AgedIntent`). `WriteIs` splits a write into one from an outdated copy,
  which is `Spoil`, and one that makes the row intended; `CommitSimulates`,
  `ReqWriteSimulates` and `TickSimulates` show the operation of the contract. A
  return needs `Sound`: only a block with a listed reason gives the trust back.

`AccountsProofs` holds for all constants that satisfy `LockAssumption` and
`NamesAssumption`.

* `TypeCorrect` (`TypeOK`), with `Named`: an operation in flight and a login past
  its read name an account, and a session has the account it was opened for.
* `LocksOnly` (`ResponseOnlyLocks`), from the sums of the scores (`TotalAtMost`), and
  `ColumnsAreKept` (`ColumnsKept`), from what an operation makes of a row and a
  flush of a copy, outdated or not (`ChangedType`, `FlushedIs`).
* `NoneIsLeftOpen` (`NoneLeftOpen`) needs one inductive conjunct for each session
  (`Accounted`): it is spared, or an operation on its account has yet to list it
  or to close it, or its account was neither suspended nor deleted.
* `TwinsAreBounded` (`TwinsBounded`). `Twins` counts the accounts of a
  phone together with the logins about to register one: while none is found,
  all slots may register; once one is found, no login joins them.

Only model-checked: liveness (`RequestsEnd`, `OwnerReturns`), which is out of the
prover's reach, and the six findings. There is no induction over data and no
recursive operator in the modules.

## 4. Findings

| Run | What the code does |
|---|---|
| `SessionsUserLimit` | two logins of one user on two devices each count the sessions before the other commits, so both stay although the maximum is one |
| `SessionsRevoked` | the guard reads only the session row and nothing calls the lookups of `revoked_tokens`: while one request that presented an old token has recorded the hash and not yet closed the session, another is admitted with it |
| `OtpExpired` | `deleteOtp` compares in the wrong direction and deletes the codes, of all users, that are still valid |
| `OtpExhausted` | a code whose attempts are used up is accepted for two more minutes |
| `DevicesRisk` | curl with an invented device, the documents' example of a critical request, scores medium and its login registers the device |
| `AccountsTwins` | the phone columns have no unique key: two overlapping first logins with one phone find no account and register one each |

Divergences met while modelling that have no run of their own: the clean-up of
expired archives runs every day where its comment says every month
(`session-archive.service.ts:317`); `EVERY_WEEK` is Sunday midnight where the
comment on the weekly clean-up says three o'clock; `v1/me` passes the session of
the request where a user is expected and asks for the profile of the user whose id
is that of the session (`profile.controller.ts:12`), where the endpoint is
documented as the current user's profile (`README.md:172` of the repository); a
profile that cannot be created aborts the transaction of a login that is meant to
go on (`auth.service.ts:213`).

## 5. How the modules were chosen

The order was that of the damage a mistake does: sessions, then the codes that
open them, then what may be lost with them (the archive), then devices and
accounts, whose operations meet logins. Each module has its properties and mutants
first and its proofs once TLC agrees. Modules are composed where one relies on
another: Devices extends Detection, SessionsRefinement instantiates
SessionContract and DevicesRefinement DeviceContract. Sessions, Devices and
Accounts share the login, and each keeps of it the steps that touch its tables;
they are not multiplied into one state space, since no property needs two of the
tables at once and the product of the three is out of TLC's reach. What one needs
of another appears as a choice: the reactivation of a device and the failure of a
login in Sessions, the sessions of a device in Devices, the end of a session in
Accounts.

## 6. Not modelled

Module wiring, the validation of formats and the query endpoints (reports,
statistics, simulations, the profile) change nothing. Security events and audit
logs are only appended to. Roles, API keys and federated identities have
repositories but no service that calls them; neither have `blockDevice`,
`unblockDevice`, `autoTrustDevice` and `executeInTransactionWithRetry` a caller,
nor the private handler of failed logins. What describes a device (name, type,
operating system, confidence, secondary fingerprint) is stored or logged and
decides nothing. Mail, SMS, CAPTCHA, object storage, Discourse and Apple are calls
whose only effect on the tables is their failure. Schema migrations appear as the
unique keys the modules rely on. bcrypt and the JWT library are external: Sessions
keeps only what a comparison of refresh tokens can tell apart. The spellings that
the phone validators let pass ("+98", "98") are distinct identifiers here as in
the tables. The status of each part is in `PROJECT.json`.

# School Management System Lite: models and proofs

This directory holds TLA+ models of the program in `src/`, TLC configurations
that check them on small instances, and proofs, checked by TLAPS, for instances
of any size. Paths below are relative to the repository: the application is
`src/src`, its tests are `src/tests`, its documentation is `src/README.md`.

## 1. The system

A FastAPI application runs in one process on an asyncio event loop. Every
request has a SQLAlchemy session (`core/dependencies.py:get_session`) on
PostgreSQL at READ COMMITTED; Redis holds caches; one background task
(`workers/email_worker.py`) sends the emails of an outbox table. Four properties
of this platform shape everything else, and all the models have them:

* Requests interleave at every `await`: between reading a row and committing a
  change to it other requests read and commit.
* There is no row lock and no version column. The ORM keeps the objects a session
  has loaded, and a flush writes **only the columns whose new value differs from
  the value that was loaded**. `x += 1` writes the loaded value plus one.
  Overlapping requests therefore merge column by column.
* `core/caching.py` swallows every Redis error. Cache entries are deleted after
  the commit, in a step of its own.
* The process may stop between any two steps. The database rolls back, emails
  sent by tasks of the event loop are gone.

### Inventory

| Component | State | Operations | What is hard | What makes it correct | Model |
|---|---|---|---|---|---|
| Contact limits (`core/advisory_locks.py`, `users/utils/check_contact_limit.py`, `users/services`) | `users.phone_number`, `users.email`, `users_sessions.pending_new_email`, advisory locks | register, update, override of credentials, request and confirmation of an email change | count-then-write races, lock order, key collisions, values read before a lock is awaited | at most three students per contact, staff share with nobody, no deadlock | `ContactLimit` |
| Sessions and tokens (`auth/service.py`, `core/dependencies.py`) | `users_sessions`: version, refresh hash, family; `users.is_active`; the cached version | login, logout, refresh, reset, password and credential changes, (de)activation, authentication of each request | stale reads, fills racing deletions, double exchange of a token | revoked tokens are refused, dead refresh tokens stay dead, hash and family stay a pair | `AuthSession` |
| Email (`emails`, `workers`, `utils/email.py`) | `pending_emails`, the worker's batch, tasks | enqueue with the operation, batch, send, mark, retry by an administrator; emails sent without a row | crash between send and commit, retry against a stale batch | at least once, only what is PENDING, everything resolved in the end | `EmailOutbox` |
| Account life cycle (`auth/service.py`, `users/services/system_admin.py`) | status, `is_active`, password, invite hash and expiry | register, resend, activate by invite, (de)activate by an administrator | an invite that outlives an activation, two columns flushed apart | status and `is_active` agree, invites end, nobody is left without a way in | `Account` |
| Login lockout (`auth/service.py:146-214`) | failed attempts, `locked_until` | login, reset, activation | lost updates of a counter, its limit | no lock before its failures | `Account` |
| Email-change codes, reset tokens | hashes and expiries in `users_sessions` | request, confirm, override; request and use of a reset | requests that cross, codes of older requests | the new address is proven, a change ends, dead codes stay dead | `EmailChange`; reset tokens in `Account`; limits in `ContactLimit` |
| Read-through caches (`users`, `groups`, `subjects`, `emails`) | a Redis entry per row and audience | get, update, archive, restore, delete | fill racing delete, keys that are not deleted, keys that roles share | an entry agrees with the row but for named gaps, and in the end | `EntityCache` |
| Groups and subjects | one row each | create, update, archive, restore | archive and restore overlap | `is_archived` and `archived_at` agree | `EntityCache` |
| Listings (`core/pagination.py`, repositories) | none; a client's walk | count, page | two statements, offsets, ties | a walk is complete and without repetitions when nothing moves | `Listing` |
| Lock keys (`advisory_locks.py:18-22`), age check (`utils/validators.py:67-93`) | none | pure functions | signed 32-bit conversion, off by one | in range, injective; from 6 to 21 | `LockKey`, `DateOfBirth` |
| Health, routers, schemas, settings, logging, rate limits, migrations | none | declarations, probes | - | - | not modelled (the response schemas are in `EntityCache`) |

Components interact through the rows (`ContactLimit`'s transactions and
`AuthSession`'s requests are aspects of the same handlers), through the cached
version (written by authentication, deleted by everything that revokes), and
through `pending_emails` (written in the transaction of an operation, read by
the worker).

## 2. Modules

| Module | Role |
|---|---|
| `ContactRegistry` | abstract: a contact is given to a user atomically, if there is room |
| `ContactLimit` | the transactions, their locks, counts and commits; implements `ContactRegistry` |
| `ContactLimitProofs` | its theorems |
| `OneTimeSecret` | abstract: a token that is live once and then never again; implemented by the refresh token of `AuthSession`, the invite and the reset token of `Account`, the code of `EmailChange` |
| `AuthSession` | one session row, the cached version, and overlapping requests |
| `TokenExchange` | `AuthSession` with a memory of the refresh tokens that were exchanged |
| `AuthSessionProofs` | its theorems |
| `EmailDelivery` | abstract: at-least-once delivery |
| `EmailOutbox` | rows, worker, retries, tasks, crashes; implements `EmailDelivery` |
| `EmailOutboxProofs` | its theorems |
| `Account` | one account: status, password, invite, reset token, lockout, and overlapping requests |
| `AccountProofs` | its theorems |
| `EmailChange` | one user's change of address: pending address, code, expiry, and overlapping requests |
| `EmailChangeProofs` | its theorems |
| `EntityCache` | one row of any kind, the Redis entry of one audience, reads and changes |
| `EntityCacheProofs` | its theorems |
| `Listing` | the rows behind a listing and a client that walks through its pages |
| `ListingProofs` | its theorems |
| `LockKey`, `DateOfBirth` | two pure functions |
| `SharedProofs` | theorems about these two and about `OneTimeSecret` |
| `MCContactLimit`, `MCAuthSession`, `MCTokenExchange`, `MCEmailOutbox`, `MCAccount`, `MCEmailChange`, `MCEntityCache`, `MCListing` | small instances for TLC |

Definitions whose comment begins with "Mutant" are faults that the code might
have had; each breaks a property that holds (last column of the tables below).

### ContactLimit

`contact` and `pending` are the committed columns, `holder` the advisory locks,
`tx[t]` the transaction of a request: what it read, what it wants, and the
kinds of contact it has still to lock or count. `RegisterUser`, `UpdateUser`,
`UpdateUserCredentials`, `UpdateMeCredentials` and `ConfirmEmailChange` are the
handlers up to their first awaited statement after reading the user;
`AcquireStudentContactLock` is one `pg_advisory_xact_lock`, `CheckContactLimit`
one `COUNT`, `Save` the flush and commit (or the rollback on an
`IntegrityError` of a partial unique index), `Abort` any other end. Locks end
with the transaction, after its changes are visible. `Key` is any function, so
colliding keys are covered. Only students take locks, and only contacts that
change are locked and counted: both as in the code. A user's role never changes
in this program. A contact value stands for an exact string; two spellings of an
email address that differ in case are two values, as for `count_users_with_contact`,
though they have the same lock.

### AuthSession

`row` is the row of one activated user: version, refresh hash, family and
`is_active` (`status` is written together with it). A raw refresh token is handed
out with a family made for it, so hash and family are both written as the
token's number. `req[r]` is a request: what it read (`snap`), and where it is.
`CheckCache`, `LoadUser` and `FillCache` are the three awaited parts of
`get_current_user`; `Handle` reads the row again or uses the object the session
already has; `Commit` writes the changed columns (`Flush`), `Purge` is
`delete_cache`. Handlers that do the same to this row share an action: "logout"
is also `update_me_password` and `confirm_email_change`, "override" is
`update_user_credentials` and `reset_password`. Passwords and signatures are not
modelled: a request that fails them ends (`Drop`). Three variables are history:
`granted`, the versions that access tokens were issued for; `overtaken` of a request,
that the cached version was deleted between its load and its fill; and `gap`, why the
cached version cannot be trusted (`missed`: a deletion failed, or its request died;
`late`: it was stored by an overtaken fill). `TokenExchange` adds one more for a claim
of the tests: `exchanged`, the refresh tokens that `refresh_token` has rotated.

### EmailOutbox

`row` holds status and `retry_count` of each email, `worker` what the worker
still has to deal with and the rows it loaded with the batch; `admin[a]` is a
retry between its read and its commit. `Send` may deliver an email and still
raise (a timeout). `LoseBatch` is a failing commit, which the `except` branch
cannot repair in the same session, or a cancelled worker; `Crash` stops the
process. `notice` holds the emails that are sent from a task without a row:
`update_user`, `deactivate_user`, `activate_user`, `update_me_credentials`,
`confirm_email_change`, `update_me_password`, `create_forgot_password_request`.
Emails are numbered by `created_at`, and may become visible in another order.
`delivered` is history: deliveries since the email last became PENDING. So are
`stale` and `crossed`: another retry of the email has committed since this one read
the row, and the last retry that committed was such a one.

### Account

`row` joins the columns of `users`, `users_activations`, `users_login_lockouts`
and `users_sessions` that one account's life is about. A request is two steps:
`Begin` is the handler up to its commit (all it decides rests on the row it
loaded, while it waits for bcrypt and the database), `Commit` flushes the columns
that it changed over whatever is there by then. A token and its expiry are two columns
that hold the token's number; tokens are numbered by their commits, and the
handlers that issue one write a `Fresh` value. `locked` is "over" when
`locked_until` lies in the past; the counter is not reset then, as in the code.
That a token has expired is an outcome (`Drop`). `bypassed` is history: one of the
two ways in which the code lets an invite outlive PENDING was taken.

### EmailChange

Requests as in `Account`, on the columns `email`, `pending_new_email`, code and
expiry. `sentTo` is history, the address each code was mailed to. A repeated
request for the address that is pending does not write `pending_new_email`,
since it does not change it; if another request has replaced that address
meanwhile, the code for the one stands next to the other. `crossed` records it.

### EntityCache

`entity` fixes the kind of the row and the audience ("admin", "staff" and "self"
are the keys of `utils/cache_keys.py`); `Shown` is what the audience's response
schema has, so an entry is a view of the row. A change is `Begin` (loaded and decided),
`Commit`, and `Purge` for the handlers that delete this audience's key; `Purges`
says which they are. A read is `CheckCache`, `Load`, `Fill`. Time stamps of
updates are left out: they change with the row, and stay in an entry as long as
the rest. `overtaken` (the key was deleted between the load and the fill) and
`missed` (a deletion failed, or its request died) are history. A name, a date of
archiving and an email's status are values of one small set.

### Listing

`key` is the column that is sorted by, for the rows that the filters let through;
`CountRows` and `SelectPage` are the two statements of `paginate`, and the client
asks for the next page while `has_more`. Rows with equal keys come in any order.
`AddRow`, `RemoveRow` and `MoveRow` are everything that other requests do to the
listing; `seen` is history and says what they have done.

## 3. What is checked

All configurations check deadlock, except those of `EmailOutbox`, where the
system really may stop (every email is dealt with and nobody asks for a retry),
and of `Listing`, where a walk ends.

| Run | Instance | Properties that hold | Fault that breaks it |
|---|---|---|---|
| `contact_share` | 3 students, 2 values, limit 2, 2 transactions | `TypeOK`; `StudentContactLimit`: never more students than the limit; `CountStillValid`: a count under the lock holds until the commit; `NoDeadlock` | record not cleared; confirmation without check; update without lock; both kinds in one lock namespace |
| `contact_staff` | 1 student, 2 staff, limit 1, 2 transactions | `RegistrySpec`: refinement of `ContactRegistry` | no unique indexes |
| `contact_live` | 2 students, all keys collide | `RequestsEnd`: every request ends | locks not freed by the end of a transaction |
| `auth_session` | 2 requests, versions up to 3, 2 refresh tokens, Redis fails at will | `TypeOK`; `RefreshColumnsAgree`; `CachedVersionFresh`: what a hit in Redis says is true of the row unless `gap` or a pending deletion explains it; `SecretSpec`: refinement of `OneTimeSecret`; `RevokedEventuallyRejected`; `DeactivatedEventuallyRejected` | record not cleared; family left behind; deactivation without deletion of the key; update of all columns; entry without time to live; `is_active` not looked at |
| `outbox_safe` | 2 emails, batch of 2, 2 overlapping retries, 1 fault | `TypeOK`; `WorkerInv`; `NoneStranded`: an email that is not `crossed` is not PENDING with its attempts used up; `DeliverySpec`: refinement of `EmailDelivery` | poll without a filter (first two); attempts not reset by a retry; error of an attempt swallowed |
| `outbox_live` | 2 emails, batch of 1, 2 overlapping retries, 1 fault | `EveryEmailResolved`: PENDING leads to SENT, FAILED or `crossed` | limit of attempts off by one |
| `account` | 3 requests, lock after 2 failures, 3 wrong passwords, 3 tokens | `TypeOK`; `StatusAgrees`; `TokenColumnsAgree`; `PasswordOrInvite`; `InviteEndsWithPending`; `LockNeedsFailures`; `SecretsSpec`: two refinements of `OneTimeSecret` | counter counts down; status left; expiry left; invite cleared by an administrator's activation; invite not cleared by its use; lock one failure early; commit of all tokens |
| `email_change` | 3 requests, 3 addresses, 3 codes | `TypeOK`; `CodeColumnsAgree`; `EmailProven`: the address of a confirmed change has received the code, unless `crossed`; `ChangeEnds`: a code that survives an override was issued after it had read the row; `SecretSpec`: refinement of `OneTimeSecret` | address and code swapped; expiry left; code kept for another address; override of the name lets the change go on, or writes it back |
| `entity_cache` | every kind of row and audience, 1 read and 2 changes at a time, 2 values, Redis fails at will | `TypeOK`; `ArchiveColumnsAgree`; `CoveredColumnsFresh`: columns whose every change deletes the key are stale only between commit and deletion, after a failed deletion, or when a deletion overtook the fill; `StaleEntriesGo`: when changes stop every entry is right in the end | entry not validated; date left by a restore; staff's key not deleted; entry without time to live |
| `listing` | 4 rows, 4 keys, pages of 2, 3 changes | `TypeOK`; `NothingMissed`; `NothingTwice` | rows counted twice; `has_more` one row late; pages overlap |

Why the bounds are enough. A race on a contact needs two transactions and as many
other students as fill the contact but one place; two values let a student move
away and back, and the limit of 2 makes "one place left" differ from "none taken".
A third transaction adds only a further waiter, and the theorems cover any number.
Two requests on a session row exhibit every pairwise overlap of two handlers, any
number of them one after the other. `MaxVersion` and `MaxToken` stop increments
and new tokens only, by disabling the commit that would exceed them. An email
needs three failed attempts to be FAILED, so `MaxAttempts` is the code's 3;
two emails are what a batch needs to hold a stale row while another is sent.
Three versions let a stale increment set the version back. In `Account` and
`EmailChange` three requests are needed: a stale one, one that overtakes it, and a
third between the two; three tokens or codes are an old, a replaced and a fresh one.
An entry needs one read and one change to go stale; the second change overlaps
both. Four rows make two full pages, so that a row can cross a page boundary in
either direction; each condition in `NothingMissed` and `NothingTwice` is
necessary: TLC finds a counterexample without it.

Fairness. `ContactLimit`: statements return (weak), and a lock that is free again
and again is granted, since PostgreSQL grants from a queue (strong).
`AuthSession`: the next step of a request happens, and Redis expires keys that
were set with `ex=`. Nothing makes a request arrive or fail. `EmailOutbox`: the worker,
which polls for ever and whose provider call has a timeout, takes its steps;
crashes are finitely many (`MaxFaults`), retries too (`MaxRetries`).
`EntityCache`: the next step of a read or change happens, and Redis expires keys
that were set with `ex=`. `Account`, `EmailChange` and `Listing` assume nothing.

What `NoneStranded` and `EveryEmailResolved` except does happen: two overlapping
retries of a SENT email, one of which stays between its read and its commit for three
polls of the worker, leave the email PENDING with `retry_count` 3, where no poll finds
it until an administrator retries it once more.

### Where code and documentation differ

Each of these runs checks one claim, and TLC shows how the code breaks it.

| Run | Claim | What happens |
|---|---|---|
| `auth_consumed` | tests/auth/refresh_token/test_unit_tests.py:140, use of a consumed token invalidates everything | two `refresh_token` requests with the same token both read the row before either commits, and both are answered with new tokens; the client that was answered first holds a dead one |
| `cache_role` | tests/users/shared/get_my_profile/test_integration_tests.py:55, a student gets 404 on `me` | `students/me` fills `user:<id>:self`, which `me` answers from before it looks at the role |

Seen, and not the subject of a run of their own:

* README.md:296 says tokens become invalid immediately. A request reads the row, a
  logout commits and deletes the cache entry, the request fills it with the old
  version: revoked tokens work until the entry expires (300 s). What holds is
  `RevokedEventuallyRejected`.
* README.md:294, the version is incremented. A handler writes the version it read
  plus one after two others have incremented it: the version goes back, and tokens
  that they revoked match again.
* README.md:276, the family is invalidated and the user must authenticate again. A
  rotation in flight installs its token over the cleared columns.
* tests/emails/system_admin/retry_failed_email/test_unit_tests.py:44, an email is
  PENDING after a retry. A retry that read PENDING writes only `retry_count`; the
  worker has meanwhile written FAILED. Conversely, see `EveryEmailResolved` above.
* README.md:306, the outbox prevents silent loss. Seven operations send their email
  from a task; one failed attempt or a restart loses it (`notice` in `EmailOutbox`).
* An invite survives `activate_user`, and activates the account again after a later
  deactivation (`bypassed` in `Account`).
* A code can stand next to an address that it was not mailed to (`crossed` in
  `EmailChange`): a request for one address lapses, is repeated, and the repetition
  overlaps a request for another.
* A lock that has run out leaves the counter at its limit, so the next wrong
  password locks again; concurrent wrong passwords count once.
* `/health/ready` always fails: `api/health.py:119` looks "status" up one level above
  the dictionary that holds it.
* README.md:274 speaks of a family that rotation preserves, while
  `auth/service.py:396-397` makes a new one each time (so reuse detection compares
  with the current family only); README.md:104 says bcrypt, while refresh tokens are
  hashed with SHA-256 (`core/security.py`); an in-flight login or rotation also
  leaves a refresh token on an account that has just been deactivated, although
  `DeactivatedEventuallyRejected` shows that it gets nowhere.

## 4. What is proved

`ContactLimitProofs` (assuming finitely many users, `MaxShared` positive, `None`
no value and no transaction):

* `TypeCorrect`, `LocksCorrect`: `[](TypeOK /\ LockInv)`. `LockInv` says that a
  student's transaction holds the lock of every contact it counts or has
  counted, and that one that still waits holds at most a phone lock and waits for
  an email lock.
* `DeadlockFree`: `[]NoDeadlock`. In a set of waiting transactions whoever is
  waited for holds a phone lock and waits for an email lock, which is held by one
  that waits for nothing.
* `CountsStayValid`: `[]CountStillValid`. Not inductive without `LockInv`: the step that could spoil a
  count is the `Save` of another student with the same value, which would hold the
  same lock.
* `ContactLimitHolds`: `[]StudentContactLimit`, from the count at `Save`.
* `RefinesRegistry`: `Spec => RegistrySpec`; students by the count under the
  lock, staff by the unique index.

`AuthSessionProofs` (`None` no number and no row): `TypeCorrect`, `ColumnsAgree`,
`RefinesSecret`, `CacheIsFresh`. The invariant says that each snapshot has hash and
family equal, as the row has; a column is written by a flush only if it changed, both
columns change together, and what they change to is the token that is issued with the
commit, or nothing (`FlushAgrees`). `CachedVersionFresh` needs `FillsFresh`: what a request is about
to store is true of the row, with the same exceptions. A commit that is not
followed by a deletion neither increments the version nor deactivates, however
stale the request (`CommitWithoutPurge`).

`EmailOutboxProofs` (`Mail` numbers, positive `BatchSize` and `MaxAttempts`):
`TypeCorrect`, `WorkerCorrect`, `RefinesDelivery`, `NobodyStranded`. `WorkerInv` is
the point: whatever retries commit meanwhile, a row in the worker's hands stays
PENDING and its loaded copy has attempts left. `NoneStranded` needs `RetryInv`
besides: while no other retry commits, a row that was read as SENT or FAILED is still
that row, as the worker takes none that is not PENDING; so the columns that the flush
leaves out are those of the row there is.

`AccountProofs` (`None`, `Same`, `Fresh` differ from each other and from all data):
`TypeCorrect`, `StatusStaysPaired`, `TokensStayPaired`, `NobodyLockedOut`, `InvitesEnd`,
`LocksAreEarned`, `RefinesSecrets`, for any number of requests and any limit. None
of these is inductive: the invariant says for each request in progress what its
UPDATE can be (columns of a pair are set together or were equal when it was read),
and what is known of the row since it was read (a counter that a request
loaded does not exceed the failures there have been).

`EmailChangeProofs`: `TypeCorrect`, `CodesStayPaired`, `AddressesAreProven`,
`ChangesEnd`, `RefinesSecret`. The invariant relates each request's UPDATE to
the codes issued when it read the row, and says that a code that stands next to a
pending address was mailed to it unless requests crossed.

`EntityCacheProofs`: `TypeCorrect`, `ArchiveColumnsStayPaired`,
`CoveredColumnsStayFresh`. The invariant says of each read that has loaded
and is not overtaken, as of the entry, that its covered columns are the row's
unless a deletion is pending or missed; and of each change that it sets the archive
columns together or not at all.

`SharedProofs`: `KeyInRange`, `KeyIsInjective`, for integers of any width,
`AgeCountsBirthdays`, `AcceptedFromSixToTwentyOne`, for any dates, and `DeadForever`
about `OneTimeSecret`: a secret that was issued and is not live is never live again. The
refinements above carry it over to the four secrets of the code. What each needs is
that a commit sets the column to the very token it issues, or to NULL and then issues
none; an UPDATE that wrote back what it had loaded would break it.

`ListingProofs` (finitely many rows, positive `Limit`): `TypeCorrect`,
`NothingIsMissed`, `NothingComesTwice`, for walks of any length. The place of a row is
one more than the number of rows the order puts ahead of it; with distinct keys a
select has each row at its place (`PlaceIsRank`, by counting the rows before it), so a
page holds exactly the rows of an interval of places (`PageIsInterval`). The invariant
says that a row from the start whose place is behind the client has been got, and that
`total` reaches all of them; and that what has been got stays behind the client.
`NewRowPlaces` is why: a new highest key shifts no place in ascending order and all of
them by one in descending order.

Only model-checked: the liveness properties (TLAPS has no rule for fairness here) and
the claims that fail. `ENABLED` and induction over data are not used in proofs.

## 5. Plan

Done: every component that keeps state, and a theorem for each safety property that
a run checks. What could follow: an abstract specification of `EntityCache` (a
register with bounded staleness) with real time instead of "may expire", a bound in
`AuthSession` on how far versions may regress, and a composition of `EmailChange`
with `ContactLimit`, which now share `pending_new_email` as two aspects of the same
handlers.

## 6. Not modelled

Routers, settings, logging, rate limiting and migrations are declarations or belong to
libraries. Health checks have no state; their fault is named above. Texts of emails,
hashing, JWT encoding, password rules and the validators' regular expressions are
data that no property here depends on. Unique names of users, groups and
subjects are an outcome of a request (it ends). The order of the columns of a
listing's answer and its search patterns are left out; a filter lets a row through
or not. Time appears as "may expire" only.

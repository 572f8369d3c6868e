# Formal model of the quiz application

This directory holds TLA+ specifications of the Rust services and of the Flutter
client of this repository, configurations that check them with TLC on small
instances, and proofs of their main invariants for TLAPS.  Paths below are
relative to the repository; `quiz_core` stands for `backend/quiz_core_service`,
`auth` for `backend/auth_service`, `gateway` for `backend/api_gateway`.

## 1. The system and its parts

A Flutter client talks HTTP to an API gateway (authentication, rate limiting, a
circuit breaker in front of a proxy), which forwards to `quiz_core` (quizzes,
questions, sessions, scores) and to `auth` (accounts, tokens, quotas, guest
devices).  Each service keeps its state in PostgreSQL; the gateway keeps a log of
admitted requests and the breaker in memory.  The handlers of a service are
axum futures: they run concurrently, share nothing but the database, and are
dropped in mid-flight when the client hangs up.

| Component | State | Operations | What is hard | What must hold |
|---|---|---|---|---|
| Quiz sessions (`quiz_core/src/services/session_service.rs`, `repositories/session_repo.rs`) | `sessions_quiz`, `reponses_utilisateur` | `start_session`, `submit_answer`, `finalize_session` | no transaction: six statements per answer interleave with each other, with finalization and with edits of the questions; a dropped request stops between two of them | the score is the sum of what was credited, nothing is credited twice, a finished session settles |
| Scoring (`plugins/geography`, `plugin_trait.rs`) | none | `calculate_score` | speed classes with limits of zero or below, streak bonus, rounding | never rewards waiting, never punishes a streak, at most doubles the points |
| Plugin registry (`plugins/registry.rs`) | a map, filled at start-up | `register`, `get` | nothing concurrent | - |
| Question authoring (`question_service.rs`, `question_repo.rs`, `quiz_*`) | `quizzes`, `questions` | create, update, delete | edits under running sessions, and between an answer's validation and its insert | sessions' scores stay consistent, stored answers stay explained |
| Answer-option authoring (`reponse_service.rs`, `reponse_repo.rs`) | `reponses` | create, update, delete, `create_bulk` | the limit of six is counted before the insert; the bulk insert has neither limit nor transaction | six options and those counted at the same time, of those created singly |
| Quotas (`auth/src/application/services/quota_service.rs`, `quota_repository.rs`) | `user_quotas`, `quota_consumptions` | `consume`, `renew`, `update_limit`, `reset`, `cleanup` | retries with idempotency keys, row locks, period resets, renewal checked outside its transaction | usage within the limit, a key consumed once |
| Tokens and auth sessions (`auth_service.rs`, `jwt_service.rs`, `session_repository.rs`, `middleware/auth.rs`) | `sessions`, tokens held by clients | login, refresh, logout, `logout_all`, `create_guest`, access check | refresh races, revocation against logins in flight, failure after the old token is consumed | a refresh token is used once; a revoked session gives no new token |
| Login protection (`security_service.rs`) | failed attempts | rate limit, lock, captcha, record | counters read long before they are written, a lock whose rule is in a missing file | bounded number of tries, and every block lifts |
| Guest devices (`security_service.rs`) | guests per device | limit check, registration | check-then-act, guests whose device is never registered | three guests and those checked at the same time |
| User accounts (`user_service.rs`, `user_repository.rs`) | `users` | profile, password, deletion, status | revocation of sessions with concurrent logins | no session of an old password but the late ones |
| Roles and permissions (`admin_routes.rs`, `user_service.rs`, `permission_repository.rs`) | `roles`, `permissions`, `role_permissions`, `user_roles` | 16 administration routes, each a check and a statement | the check is stale when the statement runs; expiry; cascades; the last administrator can leave | what is listed is what is conferred, who loses the right gets no more than the requests past their check |
| Auth rate limiting (`middleware/rate_limit.rs`) | inside the governor crate | check | external algorithm | - |
| Gateway authentication (`gateway/src/middleware/auth.rs`) | none | token check | stateless | who is not known uses up nobody's limit |
| Gateway rate limiter (`gateway/src/middleware/rate_limit.rs`) | a log of admissions per user, under one mutex | `check` | window boundary; entries of users are never removed | bounded requests per sliding window, and a limited user is let in again |
| Circuit breaker and proxy (`circuit_breaker.rs`, `service_proxy.rs`) | failures, time of the last one, open flag | `is_open`, `record_success`, `record_failure` | separate locks; late results; one breaker for five services | opens after the threshold, closes again |
| Client session (`quiz_session_bloc.dart`, `quiz_session_page.dart`) | bloc state, page timers | start, submit, next, finalize, time out | state used after an await, timers racing the user, lost replies | each question answered once, what is shown is on record, the quiz goes on |
| Client list (`quiz_list_bloc.dart`) | list state | load, filter | overlapping loads | nothing is promised: the answer that arrives last is shown |
| Client data access, user interface, HTTP wiring, gateway routes | - | - | pure I/O, layout, declarations | - |
| Subscription, ads, offline services | database scripts only | - | no code in the repository | - |

`PROJECT.json` lists the same components with their status, and the hazards,
each at its line with the properties that cover it.

## 2. Plan

Modules, most important behaviour first; those on disk are described in section 3.

1. `Scoring`, `QuizSession`, `AnswerLedger`, `QuizSessionProofs` - done.
2. `Quota`, `QuotaCounter` (the counter it refines), `QuotaProofs` - done.
3. `TokenSession`, `TokenSessionProofs` - done.
4. `CircuitBreaker`, around it `Gateway` (authentication, limiter, routes and
   proxy), and `GatewayProofs` about both - done.
5. `CheckedCount` (a limit that is checked first and counted later), and the
   places that implement it: `LoginProtection`, three times, with
   `LoginProtectionProofs`, and `Authoring` - done.
6. `Access`, `AccessProofs`: roles, permissions, administration - done.
7. `Authoring`, `AuthoringProofs`: questions, options, validated answers - done.
8. `QuizClient`, `QuizClientProofs`: the page and the bloc across its awaits -
   done, with the server as a client sees it.

Left: the composition of `QuizClient` with `QuizSession`, in which the external
server of the first is the second; the creation of quizzes, the list of quizzes
in the client, and the cookies of `auth`'s routes.

## 3. What is modelled

### Scoring

`calculate_score` of the geography plugin (its body is also the trait's
default) as a function on integers.  The code computes in f32: `points` is
multiplied by 1.5, 1.25 or 0.75, a multiple of a tenth of the base is added, and
the sum is rounded half away from zero.  `CalculateScore` adds the percentages
and rounds hundredths instead.  The two were compared with an exact emulation of
the f32 operations for base points from -200 to 1000, every speed class, streaks
0 to 9, limits -60 to 199 and times -5 to 399, and are equal on all of them.
`partial_score` is never set by this plugin's validations and is left out; the
ratio is compared by cross-multiplication, with the f32 results for limits of
zero (infinite or NaN) and below kept.

### QuizSession

| TLA+ | code |
|---|---|
| `live`, `question` | rows of `questions`: `points`, `temps_limite_sec` |
| `status`, `score`, `scoreMax` | columns of `sessions_quiz` ("absent" before the INSERT) |
| `answers` | rows of `reponses_utilisateur`; `at` is the order of `created_at` |
| `pc`, `call` | the statement a handler of `submit_answer` is at, and its locals |
| `credited`, `lost` | history variables: pairs whose `update_score` ran; pairs recorded by a handler that died before it |
| `StartSession` | `start_session`: quiz, sum of points, INSERT |
| `SubmitAnswer`, `ReadQuestion`, `RejectQuestion`, `ReadStreak`, `InsertAnswer`, `RejectInsert`, `UpdateScore` | the statements of `submit_answer` |
| `Abort` | an error return, or axum dropping the future, at any point |
| `FinalizeSession` | the conditional UPDATE of `finalize_session` |
| `UpdateQuestion`, `DeleteQuestion` | the authoring endpoints, under the foreign key |

`start_session` is one step although it has three statements: the first two only
read, the new id is unknown to everyone until the reply, and so the INSERT can
be moved back to the reads.  In the same way `ReadQuestion` joins the reads of
the question, of the quiz and of the options: whether the answer is right is any
verdict.  Points are natural numbers (the schema does not forbid negative ones,
no seed or test uses them), and sums stay inside 32 bits.  `created_at` is
`NOW()` of single-statement transactions and is taken to follow the order of the
inserts.  The percentage the trigger derives from score and score_max is not a
variable.  The ids of quizzes never change in a row and are constants.  Creation
of questions is `Authoring`'s: a question created under a running session is one
more question that nobody has answered.

### AnswerLedger

The abstract promise: an account per session, to which each recorded answer is
posted at most once and with the points of its row.  `QuizSession` implements it
with `entries` read off the rows and `closed` off the status.

### Quota

| TLA+ | code |
|---|---|
| `made`, `usage`, `limit`, `periodEnd` | rows of `user_quotas`, as committed |
| `consumptions` | rows of `quota_consumptions`, as committed |
| `owner` | who holds a row locked (`SELECT ... FOR UPDATE`) |
| `pc`, `tx` | the statement `consume` is at, and what its transaction has read and written |
| `Consume`, `CheckKey`, `LockQuota`, `CountUse`, `RecordKey`, `Commit` and the `Refuse...` actions | `QuotaRepository::consume`, statement by statement |
| `Abort` | an error, or the future dropped: the transaction rolls back |
| `Renew`, `Reset`, `UpdateLimit`, `CreateQuota`, `CleanUp` | the other operations |

`renew` locks the one row it writes and `reset`, `update_limit` and the cleanup
are single statements, so each is one step that waits for the row.  A
transaction's `NOW()` is its begin while `Utc::now()` is the moment of the call;
both are kept, which is why `PeriodsMoveForward` has something to say.  No
transaction lasts longer than the shortest period (a day): this is
`QuotaAssumption`, and the property needs it.  `reset`, `update_limit` and the
cleanup have no caller in the repository, and the only quota it creates itself
is a guest's; they are public operations of the service and are modelled as
callable at any time.  The proof of a renewal is accepted as it is, as the code does.
The audit log, whose repository module is missing, is left out.

### QuotaCounter

The abstract promise: a counter per quota and a set of used keys, with every
call one step.  When a period is over the next charge begins a new one, whatever was
used of the last, as the readme of `auth` promises.  `Quota` implements it by its
committed rows: what it charges, the counter may charge.  It does not charge all
that the counter may; a refusal is no step of the counter, and that a
used-up quota is refused in its next period is what the run `quota_auto_reset` shows.

### TokenSession

| TLA+ | code |
|---|---|
| `account`, `password` | `users.status` with `deleted_at`; how often `password_hash` changed |
| `sessions`, `revoked` | rows of `jwt_sessions`, and the ids of those with `revoked_at` |
| `closing`, `locked` | the open transaction of `update_password` or `soft_delete` and the session rows it holds |
| `pc`, `call` | where a login or refresh is between its statements, and its locals |
| `family`, `opened`, `late`, `loggedOut` | history: the login a session descends from, the password it was opened under, whether a revocation overlapped it, the tokens logged out |
| `CreateAccount`, `Login`, `GenerateTokens` | `register`, `create_guest`, `login` |
| `ConsumeRefreshToken`, `FindUser`, `RejectDeleted`, `GenerateTokens` | `refresh_token` |
| `Logout`, `LogoutAll`, `RevokeSession` | `logout`, `logout_all`, `revoke_session` |
| `UpdatePassword`, `SoftDelete`, `Commit`, `Rollback` | the two transactions |

Uuids are drawn in order: only their being fresh matters.  Hashes and signatures
are taken to be perfect, and so the comparison of the token's user with the
row's can never fail.  `consume_refresh_token` locks and writes one row and is
one step; it waits for the rows a transaction holds.  `logout_all` that meets
locked rows waits and then revokes them as well, and takes effect where it
starts.  A suspension leaves the sessions alone, and a refresh does not look at
the status, as in the code.  `cleanup_expired` has no caller; it may run at any time.

### CircuitBreaker and Gateway

| TLA+ | code |
|---|---|
| `failures`, `isOpen`, `age` | `CircuitState`; `age` is the time since `last_failure` |
| `pc` | what a request does: nothing, waiting in `reset`, sent and unanswered |
| `Pass`, `Refuse`, `Retry`, `Reset` | the ways out of `is_open`; between the last two the read lock is gone and the write lock not yet taken |
| `RecordSuccess`, `RecordFailure`, `Abort` | the outcomes of `proxy_request` |
| `log` | the limiter's admissions per user, by age |
| `admitted` | history: the same, whatever the log forgets |
| `inside` | the requests that are past the limiter and in the proxy |
| `ServePublic`, `Serve` | `auth_middleware`, `RateLimiter::check` and the choice of a service in `proxy_handler` |
| `Admit`, `Deny`, `Retain` | `RateLimiter::check` under its mutex |
| `Proxy`, `CloseAgain`, `Answer`, `Drop` | `proxy_request` around the breaker |
| `Tick`, `Clock` | time |

One breaker serves all five services, and an answer of any HTTP status is a
success, as in the code.  Time beyond the timeout makes no difference, so `age`
stops there; an admission that has left the window keeps the age `Window` until
the log is cleaned, which happens only when its user asks.  `Gateway` extends
`CircuitBreaker`: each of its steps is one of the breaker or leaves it alone,
which `GatewayProofs` proves.  The file that puts the layers together is not in
the repository; their order, authentication before the limiter, is what
`rate_limit.rs` says of itself, and it needs the claims to tell users apart.
Reading the token, the log and the route have no await between them and are one
step.  A request to a path of no service is counted by the limiter and then
answered 404, and a request refused by the breaker has been counted as well.

### Access

| TLA+ | code |
|---|---|
| `account`, `roles`, `permissions`, `grants`, `expiry` | `users` (status and `deleted_at`), `roles`, `permissions`, `role_permissions`, `user_roles.expires_at` |
| `retired` | ids of deleted roles: an id is never used again |
| `checked` | what each request has been found to be allowed |
| `late` | history: how many requests a caller got served since it lost the right to manage |
| `EffectivePermissions` | the view `user_effective_permissions` |
| `Require` | `auth_middleware` and `check_admin_permission` or `has_permission` |
| `CreateRole`, `DeleteRole`, `AssignRoleToUser`, ... | the routes: `Leave`, the end of a request that was checked, with the statement of the repository (`InsertRole`, `DropRole`, `AssignToUser`, ...) |
| `DeleteAccount`, `Register` | the owner's own deletion, and registration |
| `Tick` | `NOW()`, by which roles expire |

Each route is two steps, the check and the statement, as it is two queries in the
code, and anything may happen between them.  Routes that only read are actions
too, for they take a slot and, in `ListUsers`, fail: see section 6.  The rows of
the audit log are written by further statements outside any transaction and are
left out, as are the sessions: an account asks whether or not it is logged in.
Seeded are the system roles with their permissions, as the migration has them;
the first administrator is the row somebody adds by hand.

### LoginProtection, and CheckedCount

| TLA+ | code |
|---|---|
| `failed` | failed rows of `login_attempts`, per address, e-mail and age |
| `streak` | those of them that came after the e-mail's last successful row |
| `guests` | guests per fingerprint |
| `Login`, `AskLock`, `AskCaptcha`, `VerifyCaptcha`, `FindAccount`, `VerifyPassword`, `RecordFailure`, `SignIn` | the awaits of `AuthService::login` |
| `CreateGuest`, `InsertGuest`, `RegisterDevice` | those of `create_guest` |
| `Abort` | an error, or the client hangs up |
| `Tick` | time: failures age out of the windows |

The two repositories that count are not in the source tree; they are taken to count
what their names say, and every definition that stands for them is marked external.
For the lock of an account the name does not say enough. `is_account_locked` is
called with a limit and "60 minutes de lockout", the readme speaks of ten
consecutive failures, and its sisters count failures in a window.
`CheckAccountLock` is therefore the set of answers that some reading gives: if as
many failures as the limit came in a row within the window the account is locked, if
none is in the window it is not, and in between either answer may come, anew each
time.  `LockKept` is about the failures in a row, which every reading counts; a lock
that counts through successes only locks sooner.  hCaptcha, a wrong password and a
suspended account are nondeterministic outcomes.  What the code guarantees of each
of its three limits is the same thing, so it is stated once: `CheckedCount` admits
below the limit and counts later, and the limits of an address, of an account and of
a device, as well as that of the options of a question, are shown to implement it.
A count may fall, with time or by a success, which ends a request and the row of
failures in one step.  It counts for any number of keys, each by itself, and what
happens to several in one step (a tick ages the failures of all addresses) is a step
of each.  Its `Overshoot` says by how much a count can pass the limit: the requests
under way at once, less one; section 5 carries it over to each of the four.

### Authoring

| TLA+ | code |
|---|---|
| `kind` | `questions.type_question`, or that the row is not there yet or gone |
| `options` | rows of `reponses`; `bulk` and `been` are history: how the row came about, and the values `is_correct` has had |
| `answers` | rows of `reponses_utilisateur` with the type they were validated as |
| `CreateReponse`, `CountReponses`, `InsertReponse` | the three statements of `create` |
| `CreateBulk`, `BulkRow`, `BulkEnd` | `create_bulk`, row by row |
| `UpdateReponse`, `DeleteReponse`, `CreateQuestion`, `UpdateQuestion`, `DeleteQuestion` | the other operations, under the foreign keys |
| `SubmitAnswer`, `ValidateAnswer`, `StoreAnswer` | `submit_answer` as far as options go: the question is read, the plugin reads the options and judges, the row is inserted |

The type is the one read with the question, which `UpdateQuestion` may have
changed by the time the answer is judged.  How a typed text is compared with the
options is a nondeterministic verdict that can be "right" only if there is a right
option.  The rest of `submit_answer`, its session and its points, is `QuizSession`'s.

### QuizClient

| TLA+ | code |
|---|---|
| `bloc` | the state of `QuizSessionBloc` |
| `page` | `_QuizSessionPageState`: `_lastQuestionIndex`, `_isSubmitting`, `_selectedAnswerId`, the timer and `_remainingSeconds` |
| `net` | the requests under way; each with the state its handler read before its await |
| `recorded`, `finalized` | the server's rows, as far as a client can tell |
| `sent` | history: how many answers were sent for each question |
| `Select`, `SubmitAnswer`, `NextQuestion`, `Leave` | what the player does |
| `CountDown`, `Timeout` | the countdown's callback, each second |
| `GetQuestions`, `ShowFirst`, `ShowAnswer`, `ShowResult`, `Fail` | what a handler does after its await |
| `Listener` | the `BlocConsumer`'s listener, which runs after every emit |
| `Serve` | the server (external): it records an answer once and none after completion, and may refuse anything |

The bloc package runs the handlers of different events side by side: a handler
that awaits goes on with the state it read, whatever was emitted since.  Dart
runs on one thread, so code up to an await is one step.  A request that fails
may or may not have reached the server, and one that its client has given up may
still reach it.  Nothing retries: a failure leads to the error page, from which only
the way back is open (`Leave`).  The index counts from 1.  `LoadSessionEvent` is
dispatched by nothing and left out.

## 4. Runs

| Run | Instance | Shows |
|---|---|---|
| `quiz_edits` | 1 session, 2 questions, 2 handlers, points 2 or 10, edits and deletions on | `TypeOK`, `ScoreIsSumOfCredits`, `AnswerSettledOnce`, `LedgerInv` (the inductive invariant of the proofs) |
| `quiz_streaks` | 1 session, 4 questions, 2 handlers, fast answers | `StreakWasReal`, `ScoreWithinTwiceMax` |
| `quiz_settling` | 2 sessions, 2 quizzes with one question each, 2 handlers, fairness | `SettledIsFinal`, `ImplementsLedger`, `FinalizedSettles`, `RecordedIsSettled` |
| `quota_consume` | a daily and an endless quota, 2 keys, 2 handlers, limits 1 and 2, a period of two ticks, 4 ticks | `TypeOK`, `UsageWithinLimit`, `LockedRowIsCurrent`, `KeyChargedOnce`, `NoDeadlock`, `ImplementsCounter`, `PeriodsMoveForward` |
| `quota_auto_reset` | a daily quota, 2 keys, 1 handler, limit 1 | a disagreement of section 6 |
| `token_rotation` | 1 user, 2 handlers, 3 sessions, 1 password change, 1 logout, 1 tick | `TypeOK`, `OneTokenPerFamily`, `OnlyLateSessionsAreOutdated`, `OverStaysOver` |
| `token_logout` | a user and a guest, 2 sessions | a disagreement of section 6 |
| `breaker_recovery` | `Gateway`: 3 requests under way, threshold 2, timeout 2, one user with 2 requests per window of 2 ticks, a public path, a protected one and one of no service, fairness | `FailuresBounded`, `WindowKept`, `Recovers`, `LimitLifts` |
| `access` | 2 accounts, a seeded and a new role, 3 permissions, 2 requests, 1 tick | `ListingsAgree`, `LateActsBounded`, `LockoutIsFinal` |
| `login_protection` | 2 addresses, an account and an unknown e-mail, a device, 2 requests; limits 1, 3 and 2, windows of 2 and 3 ticks; time passes | `IpLimitKept`, `LockKept`, `GuestLimitKept` (each a refinement of `CheckedCount`), `BlocksLift` |
| `authoring` | 2 questions, 2 requests, 3 options, bulks of 2, limit 1, one answer | `AnswersExplained`, `OptionLimitKept` (a refinement of `CheckedCount`) |
| `quiz_client` | 4 questions, with limits of 2, 0, none and 1 second, fairness | `AnswerSentOnce`, `ShownIsRecorded`, `FinalizedWhole`, `GoesOn` |

Two handlers are enough for every conflict of `QuizSession`, whose statements
conflict in pairs (same session and question, submission against finalization,
edit or deletion); four questions are the fewest for which a streak of three is
counted for a further answer, so a bonus is awarded.  The time and the limit are
fixed in these runs, at the class that earns most: how points depend on them is
proved for all inputs (section 5).  Handlers
and questions are interchangeable where the cfg declares symmetry; the runs with
liveness properties declare none.  Deadlock is not checked in these runs: a session id is
used once and a finalized session takes nothing more, so the small instance
comes to rest when its sessions are finalized.

Calls of `consume` conflict on one row or on one key, and a limit of 1 or 2 is reached by the
two handlers together; four ticks are two periods, so a count started in one
period ends in the next.  Three sessions are a login, its refresh and a
refresh of that, or two logins of which one is refreshed; the retry of a
consumed token needs two handlers.  A session draws two uuids, hence
`MaxUuids` of 4 or 6.  One tick is a refresh token's life; the cleanup, which
deletes what expired earlier still, then finds nothing, and what it may do is
left to the proofs.  A guest is a user who neither logs in again nor changes a
password, so the user of `token_rotation` does all that a guest does.  The
clock's bound, `EndOfTime`, ends a behaviour, never an action: all handlers go on
after the last tick.

Three requests with a threshold of 2 leave one to record a failure, or to reset,
after the breaker has opened; a limit of 2 is used up while the breaker is open, so
that the only request that could close it has to wait for the window.  Two users,
or four requests, take liveness beyond five minutes.

Two accounts are the one that loses the right and the one that takes it away, and
two requests the one past its check and the one that comes between; the third
permission is a right of its own that a suspension needs.  `Bounded` keeps the
lesser rights with the seeded role.  Once nobody
holds a right, every account exists or is gone for good and time has ended,
nothing is left to do, so `access` does not check deadlock.

In `login_protection` the limit of an address is the least, which two requests pass
together, the account's lock is above it and needs failures of several moments or
from both addresses, and its window is longer, as in the code; a limit of 2 for the
address takes liveness past five minutes.

In `authoring` a limit of 1 and three options let two single insertions pass the
limit and a bulk pass it by itself.  `Bounded` gives the second question one
option, there to be mistaken for another's, lets one option change, and keeps
answers from meeting each other, which they do in `QuizSession`.  The proofs have no such
bounds.

In `quiz_client` the questions differ by their limit alone: one that counts down,
one that is over at once, one that waits for the player, and a last one.  A
player may leave or a request fail at any time, after which nothing happens, so deadlock is not
checked.

Deadlock is checked in the quota, token, gateway, login and authoring runs.

Every property has a mutant, a definition next to the one it replaces, whose
comment says which slip of a programmer it stands for.

### Fairness

`FairSpec` assumes weak fairness of each handler's own steps: the runtime polls
every future that is not dropped, and PostgreSQL answers every statement.
Nothing makes a client start, submit or finalize, and nothing makes a handler
abort or keeps it from aborting.

`Quota` needs none: that its transactions do not block each other is the
invariant `NoDeadlock`.  In `Gateway` time passes (weak), each request in the proxy is answered
or times out (strong, as tokio's lock is handed on in turn, and clients do not
all hang up each time just while their reset waits for it), and clients go on
asking and now and then get past the limiter (strong, as a user's limit comes and
goes): without the last the breaker stays open for
ever, because only a request looks at the timeout.  `LoginProtection` assumes that
time passes and nothing else: `BlocksLift` holds against clients who never stop
trying.  `QuizClient` assumes that the countdown's timer fires and that each
request gets its reply or fails, which dio's timeouts see to; nothing is
assumed of the player or the server.

## 5. Proofs

`QuizSessionProofs` is checked by tlapm for every set of sessions, questions,
handlers, points and limits allowed by `QuizSessionAssumption` (points natural,
questions finite) and `NoLimitAssumption`.

- `TypeCorrect`: `TypeOK`.  Its one arithmetic fact is `CalculateScoreBound`: a
  score lies between 0 and twice the points, for every time, limit and streak.
- `LedgerCorrect`: `LedgerInv`, the inductive invariant.  `AnswerSettledOnce` is
  not inductive by itself: to see that crediting a pair is safe one must know
  that the handler's pair is recorded with the handler's points (so its row
  exists), that no other handler holds it, and that rows are unique per pair.
  `LedgerInv` says these, and `SettledOnce` derives `AnswerSettledOnce`.
- `ScoreCorrect`: `ScoreIsSumOfCredits`.  The sum is the cardinality of a set of
  single points; adding a row to it is proved by disjoint union and bijections
  (`FiniteSetTheorems`, `FunctionTheorems`).
- `Implementation`: every step of `QuizSession` is a step of the ledger or a
  stutter under the mapping.
- `SettledStaysFinal`: the action property `SettledIsFinal`.  A submission is
  admitted to open sessions only, so a settled one gets no handler back
  (`SettledStep`).
- `StreaksWereReal`: `StreakWasReal`.  A handler reads its streak long before it
  inserts, so the inductive `StreakInv` says the same of the streak it holds
  (`HeldStreakWasReal`), and that rows are numbered within their session
  (`RowsInOrder`): a new row is then later than all that the streak was read from.
- `WithinTwiceMax`: `ScoreWithinTwiceMax`.  The score is the sum of the credited
  rows (`ScoreIsSumOfCredits`), there is one row per question (`LedgerInv`), and
  `WithinInv` adds that without edits a row has at most twice the points
  that `score_max` was summed from.  That the one sum is at most twice the other is
  `TotalTwice`, an injection of single points.
- `SlowerEarnsNoMore` and `LongerStreakEarnsNoLess`, about `CalculateScore` itself.

`QuotaProofs`, for every set of quotas, keys, handlers and limits under
`QuotaAssumption`:

- `QuotaTypeCorrect`, `LimitKept`, `LockKeepsRow`, `KeyOnce`, all from the
  inductive `IInv`.  `UsageWithinLimit` is not inductive: a commit writes the
  transaction's own copy, so one must know that the copy is the committed row
  plus one (`LockedRowIsCurrent`, which needs the lock) and that its key is not
  remembered yet (`KeyChargedOnce`).
- `PeriodsForward`: an end of period is replaced by a later one only, because
  the transaction that computes it began less than a period ago (`TxInTime`).
- `DeadlockFree`: `NoDeadlock`.  A row that is locked is locked by a call at work on
  it (`LocksHeld`), and locks are taken in one order, row before key; so of any
  set of calls the one that has come furthest waits for none of the others.
- `QuotaImplementation`: every step is a step of `QuotaCounter` or a stutter.

`TokenSessionProofs`, under `TokenSessionAssumption`:

- `TokenTypeCorrect`: `TypeOK`.
- `OneToken` and `OnlyLate`, from the inductive `TokenInv`.  That a family does
  not fork needs that a new family's name was never used (`FamiliesDrawn`); that
  outdated sessions are late ones needs what holds while the revoking
  transaction is open: every active session and every call of its user is either
  locked by it or marked (`SessionsMarked`, `CallsMarked`).
- `StaysOverForever`: the action property `OverStaysOver`, from the same invariant.

`GatewayProofs`, under `BreakerAssumption` and `GatewayAssumption`:

- `BreakerTypeCorrect` and `BreakerBound`, of the breaker alone.  The bound is
  inductive because a request leaves the set of those sent in the very step that
  records its failure.
- `GatewayHasBreaker`, that the gateway implements the breaker's specification,
  and `GatewayBound`, which carries its bound over.
- `LimiterKeepsWindow`: `WindowKept`, for any set of users.  It is not inductive
  by itself, because the decision is taken on the log and the property is about
  the admissions: `LogKnowsWindow` says that the log without its old entries is
  exactly what the window has seen.  Admissions are counted as the elements of
  `Entries`, and ageing them is an injection, except for those that leave.

`AccessProofs`, under `AccessAssumption`: `AccessTypeCorrect` and `TablesSound`,
that no row outlives the role, account or permission it names (the cascades and
the foreign keys); `ListingsAlwaysAgree` follows from it, since the view joins
rows and the listings join roles.  `LateActsAreBounded` counts: a request leaves
its slot when it is served, so what was served late and what is still under way
together never exceed the slots.  `LockoutFinal` goes through every statement that
could give the right back.

`AuthoringProofs`, under `AuthoringAssumption`: `AuthoringTypeCorrect` and
`StaysExplained`.  That a stored answer is explained needs what holds while its
verdict waits to be stored (`VerdictsHold`), and that no id is drawn twice
(`OptionIdsDrawn`), or an option deleted and another created between the validation and
the insert could be taken for it.  All of an author's steps are treated alike: they let the
options grow on (`OptionsGrowOn`) and leave what an answer holds (`HeldStays`).

`OptionsCounted` is `OptionLimitKept`, the refinement of `CheckedCount`: each step,
of whatever action, admits, settles or lets decay the count of each question.
The requests past their check are few because the handlers are finite; the
options are finite in number because they are added one by one (`FiniteTable`).
`OptionOvershoot` follows: its invariant is the bound that `CheckedCount` names.

`QuizClientProofs`, under `QuizClientAssumption`: `OneAnswerEach`, `RecordShown` and
`CompletedWhole`, all from `ClientInvariant`, the inductive `ClientInv`.  None of
the three is inductive: handlers go on after their awaits with what they read before.
`NetInv` says that the bloc waits for one request at a time, that what its
handler read is what the bloc still shows, and that a request given up has not
been served and can only be followed by the end of the quiz; `BlocInv`
ties the bloc to the page and to the server's rows; `SentInv` says that the
question on show has not been sent while the page is not submitting, which is
what keeps a tap and the countdown from sending it twice.

`LoginProtectionProofs`, under `LoginAssumption`: `AddressCounted`, `AccountCounted`
and `DeviceCounted`, that the three limits implement `CheckedCount`, and
`AddressOvershoot`, `AccountOvershoot` and `DeviceOvershoot`, that none is passed by
more than the other requests under way.  For an account these are the failures in a
row, and the proof uses of `CheckAccountLock` only that it admits nobody when the
row of failures has reached the limit (`PassLockStep`), which every reading does.
The invariant `LoginInv` is little more than types; what is hard is the counting.  A
recorded failure counts once in every window that starts now (`RecordCounts`), a
tick moves no failure into a window (`OlderCounts`: the failures of a window are
injected into the earlier ones), a success removes failures and adds none
(`FewerCounts`), and each request that is past a check leaves the set of those in
the step that records it, or uncounted.

Only model-checked are the liveness properties, which with fairness are out of the
prover's reach (`FinalizedSettles`, `RecordedIsSettled`, `Recovers`, `LimitLifts`,
`BlocksLift`, `GoesOn`).  Only proved is what `Scoring` computes: its runs would say
of a few inputs what `SlowerEarnsNoMore`, `LongerStreakEarnsNoLess` and
`CalculateScoreBound` say of all.  The theorem about time leaves out times and limits
that are both negative: a lower ratio is then a later answer.

## 6. Where the code disagrees with what is said of it

Two disagreements have runs that end in a counterexample.

- `token_logout`: `logout` revokes the row whose id is the `jti` of the token, but
  `SessionRepository::create` lets the database draw the id.  The UPDATE matches no
  row, and the session stays active.
- `quota_auto_reset`: the readme of `auth` promises "Auto-reset : Quotas
  périodiques", and `consume` has the code for it, after the comparison with the
  limit.  A quota used up in one period is refused in all later ones
  (`PeriodResets`), until it is renewed, reset by hand or given a higher limit.

The others were met while modelling.  The models have the behaviour as it is, and
the properties say what does hold.

- `submit_answer` says it verifies that the session is "en cours".  It does so
  once, before five more statements: a session finalized meanwhile still receives
  the answer and its points.  Only submissions admitted before the end do so
  (`SettledIsFinal`), and they drain (`FinalizedSettles`).
- `update_password` says it invalidates all sessions.  A login that checked the
  old password before it, or a refresh that consumed its token before it, inserts
  its session after it; `OnlyLateSessionsAreOutdated` says that no other escapes.
- "5 failures, 30s timeout": `is_open` finds the timeout over, drops its lock and
  resets without looking again; a failure recorded in between starts a new
  timeout, which the reset ignores.  `FailuresBounded` says nothing of that failure.
- The lock of an account: the readme has "Après 10 échecs consécutifs", the call
  passes "60 minutes de lockout", a length of time, and the repository that decides
  is missing.  `login` records successes, so a success may well end the row of failures;
  then nine failures, a success and nine more lock nobody.  The properties are
  about failures in a row and bound no others.
- `list_users` names `$999` and `$998` in its SQL and binds two values: the route
  passes its check and ends in a database error (`ListUsers`).
- A suspended user keeps permissions and sessions: neither the view nor
  `refresh_token` looks at the status.
- Granting a role again overwrites its expiry, so an administrator for a limited
  time can extend the limit.  Nothing keeps the last one from leaving, and then
  only a row added by hand helps (`LockoutIsFinal`).
- `list_user_roles` lists the roles of deleted accounts, which confer nothing
  (`ListingsAgree` speaks of accounts that exist).
- `register` announces a role for new accounts and assigns none;
  `require_permission` is used by no route.
- Failures against unknown e-mails, and answers the captcha rejects, are not
  recorded and count against nobody; a guest without a fingerprint is not
  limited; a guest creation that ends halfway leaves an account no device counts.
- `create_bulk` ignores the limit of six and leaves its first rows when a later
  one fails.
- An answer typed as text stores whatever option id comes with it, unchecked but for
  the foreign key; `carte_cliquable` is a type in the schema that the plugin
  rejects.
- The gateway decodes tokens with the default algorithm and a mandatory
  `analytics_consent` claim, while `auth` signs HS512 without that claim: taken
  together no token of `auth` would pass.  `Gateway` takes tokens the gateway accepts.

## 7. Not modelled

- The list of quizzes in the client: three handlers that read; of two overlapping
  loads the later answer is shown, and nothing in the repository promises more.
- The creation of quizzes and the profile of an account: one statement each, on
  which nothing else depends.
- The rate limiting of `auth`, which is the governor crate's; the cookies of its
  routes; the audit log, whose repository is missing from the tree.
- The plugin registry, filled once at start-up; a missing plugin is one of the ways
  a submission stops.
- Layout and navigation of the client, HTTP and JSON wiring, route tables,
  logging, deployment files, and the subscription, ads and offline services, of
  which only database scripts exist.

# Dream Wheels AI: a TLA+ development

Specifications, TLC runs and TLAPS proofs of the parts of Dream Wheels AI in which credits, jobs,
payments and logins can go wrong: the credit ledger and the row locks under it, top-ups from the
price to Robokassa's callback, the render pipeline from the HTTP handlers over Redis to the worker,
the photo dialogue of the bot, the login on the website, and the rate limiter. Line numbers refer
to this repository; `PROJECT.json` maps every definition to the lines it stands for and lists the
hazards, runs, mutants, findings and theorems.

## The system

| Part | Code | State it keeps | Operations |
| --- | --- | --- | --- |
| Credit accounts and ledger | `src/credits_service.py` | `user_credit_accounts` (balance, `trial_used_at`), `credit_ledger` (append-only, unique `idempotency_key`), `jobs.credit_status` | `ensure_credit_account` (starter grant, expiry), `get_balance`, `reserve_/finalize_/refund_job_credit` |
| Payments | `src/payments_api.py`, `src/payments_service.py`, `src/payments/` | `payments` (pending, paid), the mode it was deployed in | cabinet, status, `create_topup`, Robokassa's result callback -> `mark_payment_paid` |
| Job creation | `src/jobs_api.py`, `src/users_service.py` | `jobs.status`, the idempotency key of an upload | `create_job` (bot), `upload_job` (webapp), compensation of a failed publication, status, download, feedback |
| Redis | `src/redis_client.py` and its callers | `job_queue` list, `idem:*`, `rl:*` and `session:*` keys | RPUSH, BLPOP, SET NX, GET, DEL, INCR, EXPIRE, TTL |
| Worker | `src/main.py`, `src/reve_client.py` | the job it has | `process_jobs_loop`: pop, mark, load, remix, save, complete or fail |
| Lifecycle | `src/main.py`, `src/db.py`, `start.sh` | connection pool, worker task | startup, shutdown, container restart |
| Rate limiter | `src/rate_limit.py` | a counter per scope and client | `enforce_rate_limit` |
| Auth | `src/auth.py`, `src/auth_api.py`, `src/users_service.py` | JWKS cache, rows of `users`; the browser keeps the tokens and nonces it signs | nonce, `verify_telegram_login_id_token`, `ensure_user`, `resolve_telegram_auth` |
| Bot | `src/bot.py` | the session (first photo) in Redis | two photos -> job, poll, feedback |
| Webapp | `webapp/app.js` | files, drafts in IndexedDB, wallet, last payment | submit and poll, cabinet refresh, top-up and return |
| Share pages, Storage, admin, migrations, fitment experiments | `src/share_api.py`, `src/storage.py`, `admin/`, `migrations/`, `wheel_fitment_test_v2/` | objects, schema; otherwise read-only | |

How they interact. The bot and the webapp call the API. A handler that creates a job claims an
idempotency key (webapp only), uploads the files, inserts the job and reserves a credit in one
transaction, and publishes the job on the Redis list; when that fails it refunds the credit and
marks the job failed. The worker, a task in the same process, pops a job, marks it processing,
renders, and completes and finalizes it in one transaction, or fails and refunds it in another.
Clients poll `jobs`. Payments raise the same balance by callbacks from Robokassa, which knows
invoices by number and signs for one of two modes. A browser on the website exchanges Telegram's
id_token for an access token; the Mini App sends its initData with every request. PostgreSQL and
Redis are the shared state; no transaction spans both.

What is hard here: concurrent transactions on one account; two stores that cannot commit
together; calls that took effect although the caller saw an error; a process that stops between
two steps; retries with and without a key; a ledger replayed in an order that its rows do not
determine; row locks that are right only because every transaction takes them in one order; links
and notifications older than the deployment that meets them; a key set cached across logins while
Telegram changes its keys. What makes each part correct:

- **Ledger and payments**: a job is charged once and then finalized or refunded once; an invoice
  grants once, exactly when it is paid; balance, ledger and statuses explain each other; the grant
  is given once and expires once; no balance is negative.
- **Row locks**: no circle of transactions that wait for each other; a body leaves what it would
  have left alone, however its statements were overtaken.
- **Top-ups**: an invoice grants once, what it names, for its own money and in the mode that money
  was paid in; old links stay true; every notification gets an answer Robokassa understands; what
  was paid is credited in the end; prices are monotone and splitting never pays.
- **Auth**: a login is that of its own popup; who holds a token has a row; a request acts for the
  user its proof is about; logins are decided on current keys; every login ends.
- **Pipeline**: one place has a job at a time; status and credit status agree; ends are final;
  retries with a key are free; every reservation is settled in the end.
- **Rate limiter**: bounded bursts, no early refusal, no client locked out.
- **Bot**: a job is made of a car and the wheel its sender sent next; a photo is used for one job;
  a render is sent once; everybody is answered, although one user's render holds up all others.
- **Webapp** (not modelled): one submission is one job; a wallet is never refreshed to an older
  balance.

## The modules

| Module | Models | Kind |
| --- | --- | --- |
| `CreditAccount` | what an account promises: events that count once | abstract |
| `CreditLedger` | credits_service and payments_service as transactions on pooled connections | detailed; implements `CreditAccount` |
| `MCCreditLedger` | instances for TLC | |
| `CreditLedgerProofs`, `CreditRefinementProofs` | invariants; the refinement | proofs |
| `RowLocks`, `MCRowLocks` | the statements of every transaction on one user's credits, with PostgreSQL's row locks | detailed, refines `CreditAccount`; justifies a step of `CreditLedger` |
| `RowLocksProofs` | lock order, absence of deadlock, atomic bodies, the refinement | proofs |
| `TopupPricing` | what a top-up costs, grants and is quoted | pure operators |
| `TopupFlow`, `MCTopupFlow` | invoices, links, charges and callbacks across deployments | detailed; extends `TopupPricing` |
| `TopupFlowProofs` | prices for all amounts; invariants of invoices, links and charges | proofs |
| `JobPromise` | one credit is one attempt: charged, then delivered or returned | abstract |
| `RenderPipeline` | jobs_api's handlers, the list and the keys, the worker, faults | detailed; implements `JobPromise` |
| `MCRenderPipeline` | instances for TLC | |
| `RenderPipelineProofs` | invariants, the refinement, ends | proofs |
| `RateLimit`, `MCRateLimit` | the rate limiter with its separate Redis calls | detailed |
| `RateLimitProofs` | bounded bursts and earned refusals | proofs |
| `BotSession`, `MCBotSession` | handle_photo and poll_job_status, the session in Redis | detailed |
| `BotSessionProofs` | invariants of the dialogue | proofs |
| `WebsiteLogin`, `MCWebsiteLogin` | auth and auth_api, the tab that logs in, Telegram's keys | detailed |
| `WebsiteLoginProofs` | invariants of the login and of the key cache | proofs |

**CreditLedger.** `account[u]` joins the account row with the user's ledger rows; `jobCredit` and
`payment` are the status columns. A transaction is two steps. `Begin...` is BEGIN on a connection
and fixes `start`, the CURRENT_TIMESTAMP that every row of the transaction gets as `created_at`.
The body takes effect at its COMMIT, as one step: it holds row locks (`FOR UPDATE` on the job or
payment, then on the account), so bodies on one account are serial. What is left of the
concurrency is what matters: the body sees everything committed before it and stamps its rows with
an older time. `EnsureOutcomes` is `ensure_credit_account_state`, the start of every body: first
use grants, a due grant expires. `Post` is the pair UPDATE balance / INSERT ... ON CONFLICT DO
NOTHING. `RemainingStarterCredits` replays the rows in the order of the SQL. `Rollback` is every
exception that leaves the transaction block, and a lost connection. How often transactions begin
is limited by nothing but the existence of the row they work on.

**RowLocks.** CreditLedger's one-step bodies are an assumption about locks, and this module is where
it is examined. `Script` lists, for each transaction of the service, the statements that touch the
user's row, the account, the job or the payment, in the order of the code; the foreign keys that an
INSERT checks are among them (`NameRow`, `NameUser`). A statement is a step. It waits while another
connection holds a conflicting lock (`Waits`), keeps its own to the end (`Taken`), and what it read
(`seen`, `read`) may be older than what is committed when it writes; `Commit` writes what the code
computes from that. Each script is the longest way through its transaction. `Conflict` has the row
lock modes of PostgreSQL that occur, and `Settled` is INSERT ... ON CONFLICT DO NOTHING, which
waits for the transaction that is inserting the row and for nobody once the row is there. `Ensured`
has the grant and, at any time after it, one expiry of any part of it: when it is due and how much is
left is CreditLedger's subject. `EventsOf` reads off the tables what has happened to the account, and
with it RowLocks implements the same `CreditAccount` as CreditLedger does.

**TopupPricing and TopupFlow.** Amounts are kopecks; what a client sends is in tenths, so that
ROUND_HALF_UP is a step of its own. The code divides by the price of one credit in decimals whose
precision no amount in the range exhausts; `TopupCredits` is the exact quotient. In `TopupFlow` a
row of `payments` has `granted` and `paidIn` added, what it has put on the account and in which
mode. `links` keeps every URL a customer ever got: `create_topup` makes one, and the cabinet makes
another of the present mode for each pending invoice it lists. `charges` is what Robokassa was
paid, with our last answer to it; a notification that was not answered with OK may come again at
any time, with `IsTest` or without. `Deploy` starts the service in the other mode. `Elsewhere` is
the other deployment of the same shop, whose invoices carry the same numbers and whose
notifications come here too; its payments lack this one's `Shp_payment_id` (`own`).
`SignatureValid` and `Checked` are the checks of `robokassa_result` and `mark_payment_paid` in
their order.

**WebsiteLogin.** `tab[t]` follows one login from the popup over the tab and the server to the
access token: `out -> popup -> confirmed -> (fetching -> served) -> saving -> (inserting) ->
issued -> in`. `cache` is `_JWKS_CACHE` with the time left to it; `asked` counts from the moment
the code reads the clock, before it sends the request, so several logins may fetch at once and
the last answer stored need not be the last one asked for. `ChangeKeys` lets Telegram change the
list and its signing key at any moment. `mine` tells whether the id_token carries the nonce of
this login, for a popup may confirm that an earlier login left open. `ensure_user` is two steps, a
SELECT and an INSERT that fails when another first contact got there before it.
`resolve_telegram_auth` is an operator over the kinds of proof a request may carry. Signatures are
data here: a hash is right or not, a key is listed or not.

**RenderPipeline.** A step goes from one `await` to the next. `handler[r]` is where a request's
handler is: `idle -> storing -> reserving -> publishing -> answered` for an upload,
`idle -> reserving -> publishing -> answered` for the bot, with `replaying` for a retry whose key
is taken, `compensating` after a failed RPUSH and `dropping` where the key is deleted before an
error is answered. `worker.at` follows the loop; `dead` is a task ended by an exception from its
own except block. The job id of a request is the request, as each handler draws a fresh uuid4.
`status`, `charge` and `credits` are the job's columns and the balance, with each transaction one
step (what happens inside is CreditLedger's subject). Failures without an effect are always
possible: Storage fails or times out, RPUSH fails, the renderer fails. The rest are named:

| Fault | What happens |
| --- | --- |
| `database` | a transaction is rolled back |
| `commit_reply` | a transaction is committed, its client sees an error |
| `redis` | a DEL is not executed |
| `publish_reply` | RPUSH is executed, the handler sees an error |
| `pop_reply` | BLPOP is executed, its reply is lost |
| `expiry` | the hour of an idempotency key is over |
| `stop` | the process stops and starts again |

A run names the kinds that may happen; each may then happen at any time and any number of times.
`faults` remembers the kinds that did, and the properties say what each of them can do.

**RateLimit.** `count` and `ttl` are what INCR and TTL answer, -1 and -2 included; `life` counts
the counters there have been; `age` is the time since a request was counted. INCR, EXPIRE and TTL
are separate steps, so other requests and the clock get between them.

**BotSession.** The bot is a second process (`start.sh`). Its `Application` is built without
`concurrent_updates`, so python-telegram-bot (21.0.1) awaits one handler before it takes the next
update: `bot` is the one handler there is, and what it waits for holds up every user. A photo is
the number of its update. `at` follows the awaits of `handle_photo`, `idle -> remembering ->
asking` for the first photo of a pair and `claiming -> posting -> (refusing) -> sleeping <-> awake
-> late` for the second; `car` is the URL it read from the session before it deleted the key.
`session` and `left` are the key and its time to live, counted in polling intervals; `told`,
`copies` and `kept` record what users saw and how long a photo was in the session. The job is
named by its wheel; of the API and its worker the module keeps only that a job may end at any time
or never. Faults are a call to Telegram, Redis or the API that raises, a lost reply of POST /jobs,
and a restart, which may drop updates that were fetched and not handled. A call whose reply is
lost elsewhere equals two of these steps: a SETEX that was executed and raised is `Remember` and
then `Abandon`, a DEL is `Claim` and then `Abandon`.

## Runs

| Run | Checks | Bounds |
| --- | --- | --- |
| `credit_ledger` | `TypeOK`, `AuditChain`, `ChargeMatchesJob`, `PurchaseMatchesPayment`, `BalanceExplained`, `ImplementsAccount` | one user, two jobs, one invoice of two credits, a grant of two, two connections, clock 0..1 with the grant due after one tick; the row of a grant may be refused |
| `spent_grant` | finds `SpentGrantLeavesNothing` violated | the same with a grant of one |
| `render_safety` | `TypeOK`, `ChargeFitsStatus`, `OneHolder`, `NothingStranded`, `OneChargePerKey`, `KnownEndsAreFinal`, `KeepsPromise` | two uploads with one key and a request of the bot, two credits, at most three of the seven kinds of fault in one behaviour |
| `render_liveness` | `ReservationsSettle` | the same, lost replies of RPUSH, DELs that fail and keys that expire, at most two of them in one behaviour |
| `render_replay`, `render_stop`, `render_dead` | find `ToldJobExists`, `ReservationsSettle`, `FailuresAreRefunded` violated | the same, with the one fault that does it (none for `render_replay`) |
| `rate_limit` | `TypeOK`, `BurstIsBounded`, `RefusedAtLimit`, `CountersExpire` | five requests, limit two, window two ticks, calls may fail |
| `bot_session` | `TypeOK`, `JobsPairPhotos`, `PhotoUsedOnce`, `SentOnce`, `CarPhotosAreKept`, `EveryPhotoIsAnswered` | two users, four photos, two polls, a session of three polling intervals, one of the five kinds of fault in a behaviour, any number of times |
| `website_login` | `TypeOK`, `LoginIsThisOne`, `WhoIsInHasARow`, `ActsForItsOwner`, `DecisionsAreCurrent`, `EveryLoginEnds` | two tabs, two users of whom one logs in, two keys, a cache and a token of one tick, initData of no tick, the development fallback enabled |
| `topup` | `TypeOK`, `GrantIsWhatWasPaid`, `LinksAreHonest`, `NotificationsAreUnderstood`, `PricesAreFair`, `ModesAreSeparate`, `PaidIsCredited` | two invoices; 99.994, 199.994, 199.995 and 3000.005 rubles asked for; the other deployment's 50 and 200 rubles for invoice 1, live; both modes configured; one invoice listed |
| `row_locks` | `TypeOK`, `NobodyWaitsInACircle`, `ImplementsAccount` | three connections, two jobs, one invoice of one credit, a grant of two |

Why the bounds are enough. Accounts share nothing, so one user is the general case; two jobs and
two connections give every pair of racing transactions, including both on one job, and the grant
is as large as the jobs cost together, so it can be spent, partly spent or whole when it expires.
In the pipeline the interactions are between a handler and the worker over one job, between two
requests over one key, and between two requests over the last credit; two credits for three
requests leave one to be refused. Five requests with a limit of two fill two windows and overflow
them. Four photos of two users are two pairs, or a pair with another user's photos on either side.
The code waits 60 polls of 3 s and keeps a session 600 s; in the model, too, a session outlives one
handler and not the two handlers that may be in front of its owner's next photo, so that it can
expire before the wheel, between GET and DEL, or not at all. Two tabs race for the cache and for
the row of one user; one who logs in is enough, since nothing compares visitors, and the other
user is there for requests that name or prove someone else; two keys let Telegram change its list
before or with the key it signs with; a cache of one tick can be fresh, over, or over while its
answer is on the way.
With the development fallback disabled `ActsForItsOwner` says less, so it is enabled. The four
amounts are just below the range, on either side of a tier's edge and just above the range, before
ROUND_HALF_UP: the first is refused, the second and third are not of one tier, the last is rounded
out of the range. Invoice 1 is the one whose number the other deployment has used as well, once for
a sum outside the range and once for the same sum; invoice 2 has only its own money, and listing
one invoice leaves the older one without a new link. Three connections let a third transaction get
between two that race, and close a circle of three. Every property of a passing run has a mutant in
`PROJECT.json`: a definition spoilt as a plausible bug would spoil it, which the run then catches.

`CHECK_DEADLOCK FALSE` is set for the pipeline, the limiter, the bot, the login and the top-ups, whose
runs end, or may end, when every request, photo or notification has been answered and nobody asks
for more. It is not set for CreditLedger and RowLocks: there, somebody can always go on.

**Fairness.** In the pipeline: `WF(Work)` and `WF(Handle(r))` for each request. The event loop runs
every ready task and every awaited call returns or raises (httpx has timeouts; redis-py and asyncpg
are assumed to notice a broken connection). Nobody has to send a request, no fault has to happen,
and a restart is not fair. In the limiter: time passes, and a call that was sent is answered or
fails. In the bot: the handler's calls return or raise (aiohttp and python-telegram-bot have
timeouts), and time passes; no job has to end. In the login: handlers run on, Telegram answers or
httpx gives up after 10 s, the database answers, replies arrive and time passes; nobody has to log
in, confirm or log out. In the top-ups: Robokassa repeats a notification until it is answered with
OK, and the database does not fail for ever; nobody has to pay, deploy or look, and `PaidIsCredited`
promises nothing for a mode the service does not stay in. CreditLedger and RowLocks have no liveness
properties: their transactions are started by others.

### What the violations show

- `spent_grant`: the first render of a new user inserts grant and reservation with one
  `created_at`; sorted by key the reservation comes first and is not counted as spent, so when the
  grant expires a credit that was used already is taken again, from what the user bought
  (`credits_service.py:199`).
- `render_replay`: without any fault, a retry is told a job id whose upload then fails.
- `render_stop`: after a stop at the wrong moment nobody has the job and its credit stays reserved.
- `render_dead`: the except block of the worker meets a database error; the worker is gone while
  the API keeps taking jobs.

What the passing runs say of faults. A property does not stop at a fault that the code does not
survive; it says what the fault can do and that nothing else can:

- `ChargeFitsStatus`, `OneHolder`, `KnownEndsAreFinal`: handlers and the worker overwrite statuses
  without looking at them. When RPUSH took effect and its reply was lost, handler and worker both
  have the job, and its status may leave an end; when the reply of the completing COMMIT was lost, the
  worker writes `failed` over `completed`. Under all faults no ended job keeps a reservation, and a
  job is settled once (`KeepsPromise`).
- `NothingStranded`: a reserved credit that nobody will settle was taken by a stop, a lost reply of
  BLPOP or the end of the worker, or its client was told of an error after a transaction failed
  or its COMMIT was not acknowledged.
- `OneChargePerKey`: two jobs of one remembered key are both charged only after a write took effect
  and raised, or a compensation failed, and one of the two clients was told of an error. It says
  nothing of a key whose hour is over.
- `ReservationsSettle` in `render_liveness` holds without stops, database errors and lost replies
  of COMMIT and BLPOP; `render_stop` and `render_dead` show what a stop and a database error do.
- `AuditChain`: a refused row of the starter grant leaves its amount missing before the first row, and
  nothing else.
- `CountersExpire`: a counter stays for ever only when its first request ended between INCR and
  EXPIRE. The client is then refused for ever.
- `CarPhotosAreKept`: a car is lost only with the wheel that came for it, after DEL and before a job,
  and the sender of that wheel was refused, or not answered because of Telegram or a restart.
- `SentOnce` and `EveryPhotoIsAnswered` are about a Telegram that does what it is asked. With its
  faults a render may be sent at each poll (`TypeOK` bounds the copies).

## Proofs

TLAPS proves these for all values of the constants (any users, jobs, requests, connections, tabs,
amounts and faults), from the named assumptions only: owners and keys are functions into the right
sets, amounts are positive naturals, the values that stand for nothing (`NoKey`, `NoJob`, `NoUser`,
`NoRow`) are none of the real ones, and the limiter is sent finitely many requests.

- `CreditLedgerProofs!TypeCorrect`. Balances are naturals: the reserve checks the balance it then
  lowers, and the expiry takes at most the balance (`EnsureType`).
- `ChargesMatchJobs` and `PurchasesMatchPayments`, from `LedgerInvariant`. Statuses and rows alone
  are not inductive: a second transaction creating the same job would debit it again. `TxInv` adds
  what open transactions know: ids that are being created are not there yet and belong to one
  transaction; ids that are settled or paid exist. Each commit then adds the row of its event and
  the matching status (`CommitGains`, `ChargeKept`, `PurchaseKept`), by the effect of `Post` on
  rows (`PostRows`) and of `EnsureOutcomes` (`EnsureRows`).
- `BalancesAreExplained`. `BalanceInv` is the inductive form: for each user, balance plus what
  expired equals what was granted and paid for less what is charged (`Explained`), there is at most
  one expiration row (`LoneExpiry`), and a ledger that has one has its grant. Each commit moves both
  sides by the same amount: one job more is charged (`CostOfOneMore`), one invoice more is paid
  (`WorthOfOneMore`), and a body that ensures the account first adds the grant or the expiration as
  well (`EnsuredExplained`). `GrantExpiresAlone` follows from it and from `RemainingType`: the expiry
  takes at most the grant, so a balance is never below what the user bought less what is charged.
- The sums and the replay of the ledger in these two are folds over finite sets, which the library
  defines by a CHOOSE of a function that satisfies a recursive equation. That such a function exists,
  that two of them agree, and that the result stays in its type is shown by taking a smallest set
  for which it fails (`SmallestSubset`, from the well-founded order of strict subsets) and unfolding
  the equation once (`SumsExist`, `SumsAgree`, `SpendsExist`, `SpendsAgree`). `TotalOfOneMore` is the
  law of sums the invariant uses, `LastListedIn` shows that the order of the SQL has a last row.
- `LedgerIsAuditable`: the row a body posts is new, by the invariant above, so ON CONFLICT never
  swallows it and the chain grows by one link (`PostAudited`). A grant whose row is refused opens a
  chain that was empty (`GrantAudited`), which is why `Sound` has it that nothing comes before the
  grant.
- `CreditRefinementProofs!LedgerImplementsAccount`: `EnsureOutcomes` maps to `Housekeeping`, the
  event of a body to `Requests` (it is new and its user's own), everything else to a stutter.
- `RenderPipelineProofs!TypeCorrect` and `PipelineKeepsPromise`, under all faults. `EarlyInv` is
  the strengthening: a handler before its transaction has charged nothing, and the worker has a
  job exactly when it is not waiting.
- `RenderPipelineProofs!NoCreditIsLost`, under all faults: credits and the jobs that are charged are
  together what the user had. Every step of the pipeline is one of the promise or moves nothing
  (`PromiseStep`), and each step of the promise moves one credit between the two
  (`MovesConserve`); the rest is cardinalities.
- `RenderPipelineProofs!PipelineUsesTheAccount` joins the pipeline to the accounts. A user who has
  his grant is in a state of `CreditAccount`; from there each step of the pipeline is one `Serve` or a
  stutter (`MoveIsARequest`, from the columns behind a step of the promise, `PromiseColumns`). So the
  ledger at the grain of transactions, the same at the grain of locks, and the pipeline that calls it
  agree on one abstract account. It says nothing of the initial state: the pipeline starts after the
  grant.
- `ChargesFitStatus` and `KnownEndsStay`. Handlers and the worker overwrite the status without
  reading it, so the invariant is about who may: `PlaceInv` says which status goes with each place
  a job can be in, and that a job on the list or with the worker is nowhere else, as long as RPUSH
  tells the truth (`Truthful`). What is left when it does not is `SettledInv`: whoever has a job
  has one that was charged, so whatever ends it settles its credit too.
- `JobsHaveOneHolder`, from `HolderInvariant`, under all faults: a job on the list is there once,
  and whoever had it before has handed it on (`HandedOn`), or is a handler that does not know that
  its RPUSH took effect.
- `NothingIsStranded` needs the converse: `StrandInv` follows each reservation from the handler to the
  list to the worker (`Stays`), and lists, fault by fault, what can take it from there (`Excused`).
- `KeysChargeOnce`, from `KeyHeld`: from the SET to the DEL, and as long as its credit is spent, the
  key of a request holds its job, and only a handler that answers an error takes it away; a key
  holds one job. `NoRegret` adds that such a handler has spent nothing, as long as writes do what
  they answer.
- `RowLocksProofs!NoDeadlock`. `ScriptsAreOrdered` checks each script once: the user's row is updated
  first, and a job or payment that others can see is locked before the account. So whoever holds the
  account goes on (`HoldersOfTheAccountGoOn`), whoever holds a job or payment waits at most for the
  account (`HoldersOfARowWaitForTheAccount`), and every circle would have to contain one who waits
  for nobody. This holds for any number of connections, jobs and invoices.
- `RowLocksProofs!AtomicBodies` and `TypesCorrect`, from `LockInvariant`: what a transaction has
  read under a lock that excludes writers is still what is committed when it ends. With it, the
  one-step bodies of CreditLedger are what their statements come to (`BodiesAreAtomic`, stated with
  the theorem).
- `RowLocksProofs!LocksImplementAccount`: the abstract account again, now at the grain of statements.
  `Ensured` maps to `Housekeeping` (`EnsuredIsHousekeeping`), the rest of a body to `Requests`
  (`BodyIsARequest`: the column it read tells which events are there, `ColumnTells`, and the one it
  writes adds one, `ColumnAdds`), a `COMMIT` to one `Serve`, every other statement to a stutter.
- `TopupFlowProofs`: `CreditsGrow`, `SplittingNeverPays` and `QuoteIsGrant` for every amount in the
  range, by cases on the tiers; then `TopupInvariant`, from which all of the run's invariants and
  `ModesStaySeparate` follow. It says that rows keep their amounts, that links and own charges agree
  with their rows, and that a paid row has granted once and has its charge.
- `WebsiteLoginProofs`: all the login's safety properties from `LoginInvariant`. Its core is
  `CacheStaysHonest`: a list that is no longer published was asked for before the change, so the
  time it has left and the time since the change never exceed `JwksTtl` together, for a list in the
  cache and for one still on its way to a tab. `DecisionsStayCurrent` follows.
- `RateLimitProofs`: `BurstsAreBounded`, `RefusalsAreEarned` and `TypesCorrect` from `RateInvariant`.
  The counter counts exactly the requests of its life; the first of a life that ends was admitted, and
  the time to live started after it; so when a life is over, its first and everything of earlier lives is
  `Window` old, and what is younger was counted in two lives, without the first of one of them.
- `BotSessionProofs`: all the bot's invariants, under all faults, from `BotInvariant`. Pairing is
  not inductive alone. `SessionInv` says that a session holds an unused photo of its own user after
  which nothing of that user's was answered, and `PairInv` says the same of the photos the handler
  has in its hands; since nobody is answered but the photo taken last (`Answer`), every other step
  keeps them (`Quiet`). `CarInv` follows a car from the session over the handler to its job; a car
  that is lost stays lost with one wheel (`LostStays`), and only a handler that is given up after DEL
  loses one (`LostNow`, `GivesUp`). `CountInv` bounds the copies by the polls and ties the age of a session to
  its time to live.

Model-checked only: the properties that need fairness, which this prover does not do
(`ReservationsSettle`, `CountersExpire`, `EveryPhotoIsAnswered`,
`EveryLoginEnds`, `PaidIsCredited`).

## Not modelled

- The webapp apart from its login: the submit and poll loop, drafts, the wallet. Each submission
  draws a fresh key (`webapp/app.js:1795`), so to the server a repetition is a new request of
  RenderPipeline; what the user is shown is display.
- Share pages and the admin dashboard read; the migrations are run once, by hand; the fitment
  experiments are not called by the service; `src/robokassa_client.py` is called only by its tests.
- Wording, HTML, image data, prompts, URLs, receipts, the mathematics of signatures; reads that
  change nothing (status, download).
- Validation and rate limiting in front of the pipeline's handlers: they refuse before any of the
  pipeline's state changes. A `POST /payments/topups` outside 100..3000 rubles is refused before
  anything is written, by an exception no handler catches: the client sees a 500, and
  `docs/robokassa-test-prod-checklist.md:21` expects none in payment endpoints. To the model a
  refusal is a refusal: no such invoice exists afterwards.
- The fallbacks of credits_service for older `credit_ledger` columns, and the migrations that
  lead there. That the row of the starter grant is refused is a constant (`StarterRowMayFail`), on in
  `credit_ledger`; a refused expiration row is always possible.
- The bot's commands and feedback buttons, and updates that Telegram delivers again because the
  bot died before it acknowledged them.
- In RowLocks, the creation of the users row (WebsiteLogin's subject). In TopupFlow, concurrent callbacks
  (CreditLedger's and RowLocks' subject). In WebsiteLogin, how long id_token and nonce_token live:
  each may be over whenever it is checked.
- Lost replies of SET NX and failures of INCR's callers equal steps that are there: a request that
  was answered with an error and left its key (`Store`), or one that never happened (`idle`).

## Plan

1. Done: `CreditAccount`, `CreditLedger` and their proofs; `RowLocks` and its proofs; `TopupPricing`,
   `TopupFlow` and their proofs; `JobPromise`, `RenderPipeline` and its proofs; `RateLimit`,
   `BotSession`, `WebsiteLogin` and theirs.
2. `WebappSubmit`: keys, polling deadlines and late results, composed with the pipeline;
   `WalletRefresh`: refreshes out of order.
3. Composition of the pipeline with the ledger: each credit step of the pipeline a transaction of
   `CreditLedger`, with its own chance of failing (today they share `CreditAccount`).
4. The feedback buttons of the bot and the writes of `submit_feedback`.

# Verification of discovery-hub (Discuva API)

TLA+ models, TLC configurations and TLAPS proofs for the back end in `src/src/`:
a NestJS service that serves many churches from one Postgres database (one
schema per church, a shared `public` schema for the platform), with Redis for
caching, locks and Bull queues, and payment, mail and SMS vendors outside it.

Contents: 1 inventory, 2 modules and how they correspond to the code, 3 runs and
bounds, 4 fairness, 5 proofs, 6 disagreements with the documents, 7 what is
abstracted or left out, 8 plan.

## 1. Inventory

Every request passes `TenantMiddleware`, which finds the church by its
subdomain, refuses one that is not `ACTIVE` or is suspended, and runs the whole
request in one READ COMMITTED transaction on the church's schema, rolled back
when the answer is 400 or above. Three families of routes are left out of it:
the platform console, the public signup and the payment webhooks. They write
`public` rows statement by statement, with no transaction unless a handler opens
one. Three habits of the code matter for everything below:

- a handler reads an entity, awaits other things, and then calls
  `repository.save(entity)`, which writes back every column that differs from the
  row, and inserts a row that was deleted meanwhile. `repository.update` writes
  only the columns it names;
- a row lock is taken in few places (the two webhooks that complete a checkout
  session, the journal's posting and voiding, the tithe import); every other
  check is a read followed later by a write;
- the request's transaction is committed when the connection closes, so a client
  that hangs up commits what its handler has written so far (`HangUp` in every
  module of a church's own schema);
- Redis locks (`SET NX EX`, released by an unconditional `DEL`) keep a cron job
  from running twice; they do not serialise request handlers.

| Component (`src/src/...`) | State it keeps | Operations | What is hard | What would make it correct |
| --- | --- | --- | --- | --- |
| `tenant`, `provision-tenant.ts` | `public.tenants`, tenant schemas, the provisioning queue, onboarding events | signup, approval hold, provision (schema, migrations, admin, subscription, activate), job retry and failure | two runs for one subdomain, crash and resume, stale entity saves, a job left over from an earlier signup | whoever is served is complete and was let in by someone; a signup settles |
| `platform-admin` | the same rows, plans, platform settings, credentials | create, edit, suspend, approve, delete a church; change its plan; edit plans | races with the worker and with billing webhooks | a live church's records are never dropped; a grant takes effect |
| `branch` | invites, link requests, `tenants.parentTenantId`, sponsorship on the subscription | invite, revoke, accept; request, accept, decline, unlink, leave | an invite spent twice, revoke against accept, two churches linking at once | an invite makes one branch; no link and no sponsor without consent |
| `billing` | subscriptions, checkout sessions, feature-usage counters, plan cache | checkout, webhook, cancel, lapse cron, refund; plan guard, usage counting | vendor webhooks duplicated, late or out of order; stale saves; check-then-act on limits | a payment buys one period; no plan without funding; lapsed plans end; limits hold |
| `giving-checkout`, pledges of `finance` | giving sessions, a church's payment vendor settings, pledges, contributions | start a gift, webhook, choose the vendor; report, confirm, decline a payment; complete a pledge | failure between marking a gift paid and recording it; reviews that add up without each other | a gift is recorded once and not lost; a completed pledge was paid |
| `auth`, `member`, `admin` | members, admins, sessions, one-time codes, Redis counters | login, refresh rotation, logout, reset, code verification | two refreshes at once, replay window, rate limits | a rotated token is accepted at most within its grace; a code is used once |
| journal of `finance` | entries and their lines, account balances, accounting periods | record, approve, void, decline, resubmit, delete; edit an account; close a period | two postings over one account, unlocked saves over a posting, deadlock, a request cut off half-way | each approval moves each account once, by the entry's lines; a voided entry is reversed |
| documents of `finance`, `finance-request` | replenishments, requests for money, offerings, rows of a bank statement, recurring entries | decide, reconcile, post, generate | two decisions at once, colliding keys, a closed period, a late scheduler | an entry belongs to what was agreed, and what was agreed has one entry |
| `tithe` | batches, tithes, unmatched rows, disputes, the import queue | upload, process, match, approve, close | a job run twice or by two workers, crashes, two batches with one payment, two reviewers | a payment is recorded once; a file is imported whole or not at all |
| `service-programme` | live session, its slots and pause log in Postgres, its clock in Redis | start, advance, rewind, pause, resume, adjust, reorder, end | several devices, a clock set before the rows are committed, requests that fail | no slot is reported longer than the service; the report follows what was done |
| `service-headcount`, `service-rating` | counts, ratings | record, rate | mostly one row at a time | a member rates once |
| `attendance`, `event`, `classes`, `sunday-school`, `children-church` | registrations, capacities, check-ins | register, check in, check out | capacity check then insert | a capacity is not exceeded; a child leaves with a guardian |
| `facility-rental`, `asset-management`, `venue` | bookings, loans | book, approve, return | overlapping bookings | no two approved bookings overlap |
| `request-leave`, `volunteer`, `prayer`, `department*`, `group`, `small-group`, `follow-up`, `evangelism` | rosters, requests, assignments | create, approve, assign | approval races | a request is decided once |
| `utility` (cache, mail queue, audit), `communication-provider`, `sms`, `email-category-settings` | Redis, mail queue, vendor settings | get/set, lock, enqueue, send | retries, lost mail, stale cache | a message is sent at least once or reported |
| `forms`, `pages`, `announcement`, `social-media`, `integrations/youtube`, `push-notification`, `birthday`, `membership-anniversary`, `church-calendar`, `sermon`, `prayer-request`, `incident-report`, `pastor-feedback`, `member-directory`, `clergy-title`, `reminder-settings`, `church-settings`, `dashboard`, `games` | their own tables | CRUD, scheduled posts and reminders | mostly one row at a time | a reminder or a post goes out once |

How the parts interact: signup, the console, the script and the worker share
`public.tenants` and the queue; branch invites enter provisioning through the job;
the console, the checkout webhooks, the church, its parent and the lapse job all
save the same subscription row; the plan guard reads that row through a Redis
cache which those writers invalidate; the giving webhook enters a church's schema
to write what its finance team also writes.

## 2. Modules

One actor is one process of the program: an HTTP request, a webhook delivery, the
Bull worker, a cron job, the console. A step is what an actor does between two
awaits at which another actor's step can come in and be noticed. Reads that
nothing depends on later are merged with their neighbours; a write that commits
by itself is always a step of its own. History variables (`issued`, `cleared`,
`funded`, `credits`, `agreed`, `offered`, `created`, `counted`, `closed`,
`dropped`, `submits`, `posts`, `torn`, `clashed`, `deleted`, `taken`, `orderly`) record what happened for the properties, and no guard reads them, but
for `issued`, which stands for the database never issuing an id twice, and the
bound on `created`.

**`TenantOnboarding`** — a church's workspace from signup to its first request.

| Variable | In the code |
| --- | --- |
| `rows` | `public.tenants`: status, `isActive`, parent, whether `heldForApproval` was set |
| `schema` | the tenant schema: absent, migrated, with its first admin, or with the church's own records |
| `subs` | whether the church has a subscription and who pays for it |
| `invites`, `gate` | `tenant_branch_invites`; the `SELF_SERVE_REQUIRES_APPROVAL` setting |
| `queue`, `run` | the provisioning queue in Redis; where each request, the script and the worker stand, with the entity each holds |
| `edit` | the console's read of a tenant that it will save |

`EnsurePending`, `MigrateSchema`, `SeedAdmin`, `Subscribe`, `Activate` are the
statements of `provision()`, run by whoever called it: `TakeJob` (the processor),
`CreateTenant` (the console) or `CliProvision` (the script). `SignupResolve`,
`SignupEnsure`, `SignupHold`, `SignupEnqueue` and `SignupConflict` are the signup
controller; `CompleteJob`, `RecordCompleted`, `AcceptInvite` and `JobFails` the
rest of the processor; `ApproveTenant`, `DeleteTenant`, `EditRead` and `EditSave`
the console. `Crash` kills the process: Bull gives a stalled job back once and
then fails it. `OnboardingLifecycle` is the abstract specification, the promise of
the status page; `TenantOnboarding` maps a subdomain's row to its stage (`Stage`)
and states `FollowsLifecycle`.

**`Subscriptions`** — the subscription row of each church and its writers. A
handler `h` reads a row (`Hold`), and saves what it holds later (`Save`).
`ChargeRead`/`ChargeCommit`, `StoppedRead`/`StoppedSave` and
`CreatedRead`/`CreatedSave` are the three webhooks of `CheckoutService`,
`CancelRead`/`CancelAtVendor`/`CancelSave` is `cancelSubscription`, `Grant*` and
`Discount*` the console, `Cron*` the nightly `SubscriptionLapseScheduler`, which
goes through rows its query returned earlier. `vendor` is what the vendor has
reported about a session; nothing is ever removed from it, so a webhook may be
delivered at any time, twice, and in any order.

**`BranchLinks`** extends it with `tenants.parentTenantId` and the link requests:
`AcceptRead`, `AcceptLink`, `AcceptRespond`, `SponsorRead`, `SponsorSave` are the
five awaits of `acceptLinkRequest`; unlinking and leaving revoke the sponsorship
in two more; `EditRead`/`EditSave` are the whole-entity saves of a tenant by the
console and by the branch's own consent setting. Composing the two is the point:
accepting a link writes the same subscription row the webhooks and the cron save.

**`PlanAccess`** — one church and one metered feature. A request resolves its plan
(`Hit`, or `Miss` then `Fetch`, with the cache write landing later as
`FillLands`), is let through by `Decide`, runs its handler, resolves again in the
interceptor and spends a use in one conditional upsert (`Spend`). `ChangePlan`
is any save of a subscription followed by a `del` under the church's own key or,
from a webhook or the cron, under the key of no church. `EditPlan` and
`FindSubscribers` are `updatePlan`.

**`Giving`** — gifts paid online and the pledges of one church. `WebhookPaid` is
the first transaction of `handleWebhook`, which completes the session under a row
lock; `CreditTithe`, or `CreditPledge`, `AddUp` and `CreditCommit`, is the second,
in the church's schema. `ReviewRead`, `ReviewWrite`, `AddUp`, `ReviewCommit` and
`Decline` are finance's review of a reported payment. A transaction here is a
handler whose writes take effect when it commits: `AddUp` reads what is committed
and the handler's own write, as READ COMMITTED gives it. `Abort` rolls back.

**`Journal`** — one church's books. `entries` is the status of each journal entry
(and of its reversals), `lines` whether its rows are there, `balance` the
`current_balance` of each account, `period` the accounting period. A request is a
transaction whose writes count when it commits. `StartApprove`/`StartVoid` lock the
entry, `LockAccount` one account after another as `SELECT ... FOR UPDATE` does in
whatever order the lines come, `CommitApprove`/`CommitVoid` write what follows from
the balances read under the locks. `StartReject`, `StartResubmit`, `StartDelete`
and `StartEdit` read without a lock and their `Save...` write over whatever was
committed in between. `Deadlocked`/`Victim` is the database's deadlock detection,
`Refused` a request answered 400 or above, `HangUp` and the `Tear...` actions a
client that goes away between two writes.

**`LedgerDocuments`** — the five kinds of document that write an entry by
themselves. They share the journal's unique `idempotency_key` and nothing else, so
one behaviour is about one `kind`, chosen in `Init`. What an operation does is a
row of `Stages`: petty cash looks first and saves before it enters
(`approve`, 124-196), a finance request enters before it saves (`attachProof`,
378-430), an offering saves before it looks (`reconcile`, 111-140), a bank
statement looks once and then goes through its rows inside savepoints
(`postConfirmedRows`, 241-348), the scheduler looks for each entry. `Check`,
`Enter`, `WriteLines`, `SaveDoc` are the stages; `KeyHeld` and `Duplicate` the
unique index, which makes an insert wait and then refuses it; `FailOne` the
savepoint of the scheduler. `DeleteEntry` and `TurnPeriod` are what the journal's
own admins do meanwhile.

**`TitheImport`** — uploads, the Bull queue and the review of the outcome. An
upload queues its job (`QueueJob`) before it commits (`CommitUpload`) or is cut
off. `TakeJob` gives a waiting job to a worker; `BeginBatch` finds the batch,
takes the row lock and skips a completed one; `ProcessRow` turns one row into a
record, an unmatched row or a dispute, against what is committed and what the run
itself has written; `CommitBatch` and `FailBatch` end the transaction. Bull hands a
job out again when it failed (`JobFailed`) and when its worker seems gone
(`Stalled`), which does not stop that worker, or has died (`Crash`).
`OpenReview`, `SaveRecord`, `Accept`, `Close` and `HangUp` are the admins who
match, approve and close documents.

**`ServiceSession`** — one live service. `anchor` is the clock in Redis, `rows` and
`pauses` its slots and pause log. `Read...` reads the anchor and the time, `SetAnchor`
sets it at once, `Commit` commits the rows afterwards or `Rollback` drops them, the
anchor staying. **`RunningOrder`** is the abstract specification: a service that one
operator steers, with its slots, its seconds and its pauses; `ServiceSession`
implements it (`FollowsRunningOrder`) as long as the requests come one after
another, each within its second (`orderly`).

Each component's proofs are in a module of their own (`...Proofs`); each `MC...`
module only gives the constants their values.

## 3. Runs

All passing runs check safety over every interleaving of the actors named.

| Run | What it shows | Bounds, and why they are enough |
| --- | --- | --- |
| `onboarding_core` | whoever is served has a schema, an admin and a subscription; an invite is spent only by a job that built its church | one id and one subdomain, two requests and the worker: the properties speak of one church, and three is the largest number of runs that matters (one that resumes, one that races it, one left over). One crash, a failure possible at every step, two waiting jobs |
| `onboarding_gate` | with the approval setting toggled, only entitled churches go live | two ids for one subdomain, so that a row can be deleted and the subdomain signed up again; two requests |
| `onboarding_lifecycle` | the system implements `OnboardingLifecycle` while nobody asks for a subdomain twice and no write fails after the church is open; every queued signup settles | two subdomains, one request each, the gate toggled and invites closed at will, no deletion and no edit. These restrictions are the lifecycle's own: section 6 says what happens without them, and `LifecycleFollowed` (section 5) assumes the same for any number of churches |
| `billing` | a session buys one period, a past-due church has a period to count from, an overdue church is ended | one church, one session, two handlers, one crash, two days with a period and a grace of a day each: the least that lets a period be paid, lapse and run out of grace. Two handlers, because each property is broken by one stale save over one other write |
| `branches` | no order of stale saves conjures up a plan, a sponsor or a parent | two churches, which may each be the other's parent, one request, one session, two handlers; the clock stands still, as no property here counts days |
| `plan_access` | the counter stays within the caps and counts only real uses; a change of plan takes effect | two requests, two plans, two offers (closed, one use), two changes |
| `giving` | a gift is recorded at most once, an automatically completed pledge was paid, a charged member is credited | one gift and one reported payment that together pay one pledge, two handlers, one vendor |
| `journal` | no posting is lost or counted twice, each approval answers a submission, a voided entry is reversed, a posted one has its lines | two entries over two accounts, so that locks can be taken in opposite orders; the second needs the first's money, so that a posting can be refused; one is sent back once; two requests, one account edited. 1.2 million states |
| `service_session` | no slot is reported longer than the service; in turn, the service follows its running order | three slots (one done, one running, one to come), two devices, four requests, two seconds, one pause. 1.4 million states |
| `tithe_import` | a batch records a payment once, two batches only in a race; a file is imported whole; a document yields one record | two batches that each name one payer twice, two workers, two reviews, two attempts, one stall, two faults: the least with which a job can run twice at once, fail and be given up. 3.2 million states |
| `ledger_documents` | an entry belongs to what was agreed and has its lines; what was agreed has exactly one; recurring entries keep their interval | each of the five kinds, two documents (a batch with a next row), two requests, a period that closes and opens at any time; for recurring entries an interval of two days over three days, the least in which a late run can be too close to the next. 2.1 million states |

In `billing`, `branches` and the onboarding runs the constants `Enabled` and `Ops`
choose which operations happen in the instance, so that each run spends its
states on its question; between them the runs take every action. Symmetry is used
only in runs that check safety: over `Handlers` in `branches`, over ids and
requests in the onboarding runs, over handlers, workers, batches and documents in
the four last ones. Deadlock is not checked in `service_session` (a service ends)
and `tithe_import` (uploads, jobs and reviews are done once).

One more run states what a document of the repository says, and TLC refutes it:
`posting_lost` (section 6).

Every property of a passing run has a mutant: a seeded fault next to the
definition it changes, under "Seeded bug" in the module, which TLC finds with that
property under the run's own configuration.

## 4. Fairness

- `TenantOnboarding`: weak fairness of the worker, which the process runs and
  restarts, and of a request that has started. Nobody is obliged to sign up,
  approve or edit. `onboarding_lifecycle` has no crash; with two, a signup can stay
  `PROVISIONING` (section 6).
- `BranchLinks`: weak fairness of the lapse job, which the scheduler starts every
  night, and of a handler that has started. Webhooks and people are not fair.
  `LapsedSettles` therefore lets a row off only while somebody is writing it.
- `PlanAccess`: weak fairness of a started request, of the Redis writes it fired
  and of the entry's expiry (300 seconds). Plan changes are not fair, and bounded.
- `Giving`: weak fairness of a started handler; strong fairness of a webhook's
  delivery, because a vendor repeats one that was not answered 200 and a free
  handler comes and goes. Rolling back is never fair. `PaidIsCredited` assumes in
  addition that the church stops switching its provider, leaving it on.
- `Journal`, `LedgerDocuments`, `TitheImport` and `ServiceSession` state safety only
  and assume no fairness: their actors are people and a queue that gives up after
  its attempts, so the code promises no progress.

## 5. Proofs

`tlapm` proves the following for every value of the constants allowed by the
`ASSUME` of each module (names differ, sets do not overlap, bounds are natural
numbers; `Requests` in `PlanAccess`, `Payments` in `Giving` and `Docs` in
`LedgerDocuments` are finite). TLC evaluates these assumptions.

- **`TenantOnboardingProofs`**: `TypeCorrect`, `GateHolds` (`ApprovalGate`), and,
  for consoles that delete nothing (`"delete" \notin Ops`, as in the run),
  `ServedHolds` (`ServedIsComplete`) and `InviteHolds` (`InviteSpentOnSuccess`).
  None is inductive. For types, `Holding` says that every copy of a tenant, in
  the table, in a process or in an edit, is of the subdomain its id was issued
  for: without it a stale save could bring a row back under another subdomain. For
  the gate, `Entitled` says that whatever may still make a church `ACTIVE`, a
  waiting job, a process inside `provision()`, an edit that holds an `ACTIVE`
  entity, is of a subdomain somebody was entitled to. For the whole workspace,
  `Backed` says that whatever calls a church open is of one whose schema, admin and
  subscription exist, and that each process inside `provision()` stands on what its
  earlier steps built; `Grows` is the only thing the other processes must respect,
  and `deleteTenant` is what does not respect it (section 6).
  `LifecycleFollowed` is the refinement `FollowsLifecycle`, under `AskedOnce`, which
  is what the run assumes too: the sets of churches the requests may ask for are
  disjoint, the process does not crash, no statement fails once the row is
  `ACTIVE` (while it is opened, any may), and the console does not delete, edit or
  approve twice. Each of these, left out, takes a church backwards (section 6). Its
  invariant `InTurn` says that one party at a time has a church, the request that
  asked for it, a job in the queue or the worker, and what that party knows of the
  row; `RequestHas`, `WorkerHas` and `QueueGains` show once what a step of each
  leaves alone, `StageMoves` that writing one row onward is a step of the lifecycle,
  and the lemmas per action only that the action writes it onward.
- **`SubscriptionProofs`**, about `Subscriptions` and `BranchLinks` composed:
  `TypeCorrect`, `CanceledHolds`, `PastDueHolds`, `FundingHolds`, `ConsentHolds`,
  `CreditHolds`. The first five come from one invariant, `Inv`: what is to be true
  of every row of the table must be true of every row a handler or the lapse job
  still holds (`Rows`, `Handled`, `Nightly`), because each of them will be saved
  whole over whatever stands there; and the histories that justify a row only grow
  (`Grows`). So a lemma per action shows only that what it writes is lawful.
  `CreditHolds` needs `Locked`: a handler that has read a session holds its lock,
  so the session is pending and no other handler has read it.
- **`PlanAccessProofs`**: `TypeCorrect`, `CountHolds` (`CountWithinLimit`),
  `UsesHold` (`UsesWereMade`). `Known`: any plan in the cache, in a fill or in a
  request was once offered. `Accounted`: uses counted, plus requests that still
  owe one, never exceed the uses made.
- **`GivingProofs`**: `TypeCorrect`, `RecordHolds` (`RecordedOnce`) and
  `CompletedPaid` (`CompletedWasPaid`). `Owed`: a handler that owes a gift its
  record is the only one, the session is completed and nothing is recorded for it
  yet. For a completed pledge, `Entered` says that whatever is in the books was
  counted once, and that a gift's purpose was settled before, and `Funded` that a
  handler about to complete a pledge has seen it paid by what was counted and its
  own write. The sums over payments (`SumFunctionOnSet`) need four facts, that a
  sum exists, that it does not depend on the order, that taking one payment out
  subtracts it, and that a part is no more than the whole. No induction theorem
  takes them, so they are proved by least counterexample: among the subsets of a
  finite set that fail, a minimal one under strict inclusion
  (`FS_StrictSubsetOrderingWellFounded`, `WFMin`) has a smaller one that fails.
- **`JournalProofs`**: `TypesHold`, `ApprovalsHold`, `ReversalsHold`, `LinesHold`,
  `PostingsHold`, all five properties of the run. `Inv` adds to the types that a
  request that locked an account holds it alone and has read the balance that is
  still there, that an entry being approved stays what it was read as unless
  somebody saves over it, and that submissions are never fewer than approvals. For
  the balances a lemma takes one account at a time: what an action does to it is
  what the entry's lines say (`MovesOf`), and actions that commit nothing leave it
  alone.
- **`ServiceSessionProofs`**: `TypesHold`, without a hypothesis; `SlotTimesHold`
  (`NeverLongerThanService`), for sessions in which nobody adjusts the clock
  during a pause (`NoPausedAdjust`; section 6 says why); and `OrderFollowed`, the
  refinement `FollowsRunningOrder`, for sessions in which nobody goes back or
  adjusts during a pause (`PausedOps = {}`, as in the run: both are errors of the
  code, section 6). `Honest`: an anchor, in Redis or in a request's hand, never
  claims more seconds than have passed and operators have added; `Timely`: what a
  request read is no later than now. For the refinement, `Tidy` says what holds
  while requests take turns: nothing has happened in a draft and only a live
  session has a live clock (`Stage`), the one request under way has read the clock
  as it stands, in the second in which it commits (`Turn`), the last
  entry of the pause log is open exactly while the service is paused (`Log`), and no
  two slots share a position (`Distinct`). The seconds the log counts (`Halted`) are
  the pairs of an entry and a second inside it, so that one more second adds one
  pair and no sum is needed.
- **`TitheImportProofs`**: `TypesHold`, `RecordedOnceHolds`, `RaceOnlyHolds`,
  `WholeBatchHolds`, `ResolvedHolds`, `AcceptedOnceHolds`, `CompletedHolds`, all
  seven properties of the run. `Alone`: a run with rows in hand holds its batch's
  lock. `OncePerBatch` and `OnceUnlessRaced` extend the first two properties to
  what an open run has written and may still commit; `RowsInv` counts the rows of a
  pass; `ReviewInv` ties a reviewer's copy of a document to the document.
- **`LedgerDocumentsProofs`**: `TypesHold`, `AgreedHolds` (`EntryOfAgreed`),
  `OnceHolds` (`EntryOnce`), `SpacedHolds` (`SpacedOut`), all four properties of the
  run. `Lawful` describes an open request: what it saved comes from what it read,
  which nobody has changed since (`Saves`), what it entered is under keys nobody
  else has (`News`), and each document it has finished is agreed to and has its
  entry (`Finished`), the one in hand as far as its stage says (`InHand`). Then one
  lemma (`WrittenStep`) shows that committing such a request, or the part of it a
  client left behind, keeps what is true of the committed documents; the lemmas of
  the other actions show only that the request stays lawful.

Only model-checked: the four properties that need fairness (`LapsedSettles`,
`PlanTakesEffect`, `SignupsSettle`, `PaidIsCredited`), which the provers cannot
reach. Every other property of a passing run is a theorem.

## 6. Where the code and its documents disagree

One of these is a run TLC ends with a counterexample; `PROJECT.json` quotes the
lines.

- `posting_lost`: `AccountService.update` saves the whole account it read, its
  balance included, over a posting committed in between; TECH_DOC.md:6097 says that
  row locks prevent lost updates.

Seen while modelling, present in the models, without a run of their own:

- onboarding: a church that went live is marked `FAILED` by a second job for the
  same signup (or by an error after it became `ACTIVE`), after which `deleteTenant`
  accepts it and drops its schema (platform-tenant.service.ts:515-516 says "real
  data" is refused);
- onboarding: two signups resolve one invite before the first job marks it
  accepted, and both become branches (branch-invite.service.ts:149-150 "so it can't
  be reused for a second tenant");
- onboarding: Bull fails a job that stalled twice without counting an attempt,
  `onFailed` takes it for a retry, and the row stays `PROVISIONING`
  (TECH_DOC.md:1870 polls until `ACTIVE` or `FAILED`);
- billing: cancelling within a paid period keeps the plan until the vendor's
  `subscription.disable`, which the cancellation itself asked for, ends it at once
  (TECH_DOC.md:3468-3471, subscription.entity.ts:54-57);
- plans: two creates pass the read-only check together; the conditional upsert then
  caps the counter, not the uses (plan-limit.interceptor.ts:46-48);
- journal: an entry whose period is closed between the check and the commit of its
  approval is posted in the closed period (TECH_DOC.md:6082); a decline, a
  resubmission or a deletion that read the entry before it was posted saves over
  the posting, after which it can be approved and posted again;
- journal: recording accepts debits and credits that differ by up to 0.01;
  `account.currentBalance !== 0` compares the string Postgres returns for a
  numeric, so deactivating an account is always refused;
- documents: a client that hangs up commits half of a request, although
  finance-request.service.ts:435-438 calls it atomic and tenant.middleware.ts:149-152
  says the answer has been sent by then: an entry without lines, or an approved
  replenishment without an entry, which can never be approved again;
- documents: approving and rejecting at once leaves a rejected replenishment with
  its entry; a stale confirm or skip over a posted bank row leaves it `CONFIRMED` or
  `SKIPPED` with its entry; deleting the draft leaves the document posted or
  approved without one;
- documents: posting a bank statement checks no accounting period; the next date
  of a recurring entry is counted from the run, milliseconds past eight, so the
  run on that date may find it not yet due and a weekly entry comes a day late; `setMonth` takes the 31st of a month into the month after next;
- documents: TECH_DOC.md:6372 and 6296 speak of separate transactions where the
  code uses the request's own and savepoints;
- tithes: the status `FAILED` is written in the transaction that its own rethrow
  rolls back, so no batch is ever `FAILED`, and requeueing, which wants one, is out
  of reach (TECH_DOC.md:6038); the file of a batch that was given up cannot be
  uploaded again, as its hash is unique;
- tithes: the job is queued before the upload commits, and a faster worker finds no
  batch and ends the job, leaving it `PENDING` for good; an amount finer than two
  decimals is compared unrounded and its duplicate missed;
- services: going back during a pause leaves the pause open (TECH_DOC.md:6935);
  adjusting the clock during a pause counts the seconds before the pause twice
  (TECH_DOC.md:6903, 8348);
- services: the anchor expires after 48 hours, and starting can be cut off before
  it is set: the session then stays `LIVE` and nothing can end it; two programmes
  of one event started at once leave two live sessions
  (service-session.service.ts:264-275); advancing while another device ends sets
  the anchor again; overlapping reorders can give two slots one position; in the
  automatic start one unique violation aborts the whole church's transaction;
- giving: when the second transaction of the webhook fails, the session is already
  completed, the repeated webhook finds nothing pending, and the gift is never
  recorded, although TECH_DOC.md:6209-6213 says such a webhook "must still
  complete and credit" (`dropped` in `Giving` is exactly this set);
- giving: a declined attempt closes the session, so the success reported after it
  for the same reference is not recorded (the same in billing);
- pledges: two reviews of one pledge add up without each other's uncommitted
  confirmation and leave a fully paid pledge `ACTIVE` (TECH_DOC.md:6403 says it is
  flipped automatically); a decline that read the claim before it was confirmed
  undoes the confirmation after the pledge was completed; a stale status save or
  automatic completion leaves `CANCELLED` or `COMPLETED`, which TECH_DOC.md:6395
  calls terminal;
- giving: two providers configured for the first time at once both stay active
  (TECH_DOC.md:6158 "Only one provider active per tenant at a time");
- billing: the lapse job saves rows its query read earlier, over a renewal paid
  meanwhile; `cancelAtPeriodEnd` survives a new payment, so the next period ends
  in Free; a grant by the console to a church whose old period has ended is ended
  by the next night's job; a sponsored church keeps the end of the period it once
  paid for, and lapses with it;
- billing: a webhook or the cron deletes `tenant:global:...` from the cache and
  not the church's key, so a paid plan shows after up to 300 seconds
  (checkout.service.ts:342-345 says "on the tenant's very next request");
  `PlanTakesEffect` is the weaker promise that does hold;
- billing: two refunds of one session both find it completed and call the vendor;
- branches: leaving the parent while the acceptance is under way leaves a church
  that is sponsored and not a branch; two churches accepting each other become
  each other's parent; revoking and accepting one request at once links all the
  same and leaves the status of whichever saved last; a stale console save
  restores a parent the church has left (with its consent on record, which is why
  `LinkedByConsent` still holds).

## 7. What is abstracted, and what is left out

- A whole-entity `save` is one step: its internal read and the `UPDATE` are not
  taken apart. A conditional `UPDATE`, an upsert and a transaction that locks the
  row it reads are one step each, except the billing charge, whose lock is held
  between two steps.
- External code is modelled from its use: Bull gives a job one attempt and one
  stall (no options are set in `app.module.ts`); Postgres enforces unique indexes,
  foreign keys and row locks; vendors report events late, repeatedly and in any
  order, and Paystack reports the end of a subscription it was asked to disable.
- `TenantOnboarding`: names, mails, one-time codes and onboarding events are left
  out, the status a public caller sees is the row's. `seedTenantAdmin` is one
  transaction, as in the code. Suspension is `EditSave(FALSE)`.
- `Subscriptions`: prices, discounts' amounts and invoices are left out, as is the
  cache, which `PlanAccess` has. `RefundSession` is one step.
- `PlanAccess`: one church; keys of other churches never meet. `ChangePlan` stands
  for every writer of `Subscriptions`; it allows more changes than those make.
- `Giving`: a session that a cached provider let through late is the same as one
  started earlier, so the cache is not a variable. Each provider goes on and off by
  itself, which allows more than switching does. Campaigns, members and the
  creation of pledges are left out.
- `Journal`: amounts are the lines' sums per account; who may do what, budgets and
  audit rows are left out, but for the rule that nobody approves their own entry.
  One period.
- `LedgerDocuments`: amounts and accounts are left out, as is the rule that nobody
  decides a request of their own, which only removes behaviours. `bulkConfirm` is
  several confirmations. A month is an interval of days. The scheduler's lock is
  taken to outlive its run (300 seconds).
- `TitheImport`: a payment is what the duplicate check compares. The mails, the
  reading of the sheet and the storage of the file are left out.
- `ServiceSession`: a slot's planned length, notes and people, the socket events and
  the action log's content are left out; that writing the log can fail is not.
- Not modelled yet: authentication, attendance, rentals, scheduling (section 8). Not
  worth modelling: modules that write one row per request from one actor, and
  sending mail, SMS and push. `PROJECT.json` lists every component. Most of the
  repository's lines are of these kinds, with PDF layout, migrations, mail texts,
  entities and queries beside them, so the models cover the part of the code where
  several actors meet and not a large share of its lines.

## 8. Plan

Done, in this order because a church must exist before it pays, pay before it is
metered, and hold its services and its books after that: `TenantOnboarding` with
`OnboardingLifecycle` above it; `Subscriptions` and `BranchLinks`; `PlanAccess`;
`Giving`; `Journal`; `ServiceSession` with `RunningOrder` above it; `TitheImport`;
`LedgerDocuments`; the proofs of each.

Next, by how much depends on it:

1. `AuthSessions`: members' and admins' refresh tokens (rotation, the ten-second
   grace for a replayed token, reset and logout on both surfaces), one-time codes
   and the counters in Redis. Abstract specification: a session has one current
   token. Properties: a replay outside the grace ends the session even when the
   request is rolled back, a code is spent once, a reset leaves no old session.
   Two devices, two tokens each, one code.
2. `Journal` and `LedgerDocuments` composed: the entry a document writes is the one
   the journal approves, voids and deletes.
3. `Giving`: an abstract ledger (a gift is promised, paid, entered in the books)
   that it implements while nothing is rolled back.
4. `ServiceSession`: the start, the automatic start and its choice of the session.
5. `Rentals` and the capacity checks: no two approved bookings overlap.

# Verification of the CRM backend

The repository is a NestJS backend (Postgres through Prisma, Redis through
BullMQ, files in B2 or on disk, messages to Discord) for a sales team. It scans
job posts with an AI, keeps leads, projects, people, money and credentials, and
is backed up and deployed by scripts of its own. This directory holds TLA+
models of the parts in which a state can go wrong over several steps, what TLC
shows of them on small instances, and what TLAPS proves of them for every
instance.

`PROJECT.json` maps every definition to the lines it models, and lists the
components, the hazards of the code at their lines, the runs, the theorems and,
for each checked property, a plausible bug that breaks it. The map leaves out
helpers whose lines lie inside those of another entry of the same module.

Contents: 1 the system; 2 the modules; 3 how the modules are composed for TLC;
4 the runs; 5 what is refuted; 6 fairness; 7 the proofs; 8 what only TLC checks;
9 where code and comments part; 10 what is not modelled.

## 1. The system

| Component | Source under `src/` | State | What its operations do | Module |
| --- | --- | --- | --- | --- |
| Analysis queue and worker | `src/job-post/job-post-queue.service.ts`, `job-post-processor.service.ts` | `JobPost` rows, BullMQ jobs, queue pause | enqueue, claim, gate, evaluate, write the verdict, announce, reconcile | `JobPipeline` |
| Operators' calls on posts | `src/job-post/job-post.service.ts` | the same rows, the flag | pause, enable with a strategy, bulk skip, analyze, remove | `JobPipeline`; lists in `PostList` |
| Ingest inbox | `src/webhooks/vibe-worker/*` | `JobPostIngestEvent` rows | capture a delivery, drain, link, push | `VibeIngest` |
| Evaluator and prompts | `src/prompt`, `src/job-post/ai-job-evaluator.service.ts` | `Prompt` rows, a cache of a minute | create, edit, activate, delete; gate and evaluation | `Evaluation` |
| Settings | `src/settings/*` | `Setting` rows, a cache of a minute | registry, PATCH key by key, locked reads and writes | `Settings` |
| Notifications | `src/notification/*` | events, deliveries, jobs | store, dispatch, send, recover orphans | `NotificationDelivery` |
| Call reminders | `src/client-calls/*` | calls, stamps | create, move, cancel; the tick | `CallReminder` |
| Discord digests and daily posts | `src/discord-integration/*`, `src/project-report/*` | reports, leases, chunks, cards | file a report, digest, late cards, birthdays, reminders | `ReportDigest`, `DailyPosts` |
| Phone numbers | `src/phone-numbers/*`, `src/phone-services/*` | numbers, tasks, board, bindings | maintenance loop; the lists | `PhoneMaintenance`, `PhoneBook` |
| Files | `src/file-manager/*`, `src/storage/*` | folders, files, shares, objects, upload sessions | move, delete, share, resumable upload | `FileTree`, `UploadSession` |
| Attachments, client forms, portfolio | `src/*attachments*`, `src/client-request`, `src/portfolio` | rows and their objects | upload, cover, remove, clean up | `Attachments`, `ClientIntake`, `PortfolioAssets`, `PortfolioItems` |
| Sales | `src/proposal`, `src/lead`, `src/linkedin-post` | proposals, leads, posts, ideas | a reply opens a lead, dates are stamped | `SalesFunnel` |
| Money | `src/payroll`, `src/invoice`, `src/finance-weekly` | sheets, invoices with PDF, weekly entries | compute, pay, lock, generate, add up | `Payroll`, `Invoices`, `WeeklyMoney` |
| People and projects | `src/time-off`, `src/project`, `src/salary-review`, `src/employee` | absences, project with history, raises with rates | checks before writes, history beside the row | `TimeOff`, `ProjectTeam`, `SalaryReview` |
| Roles | `src/roles` | roles, keys, users | create, fill, assign, delete; the owner stays | `Roles` |
| Credentials | `src/credentials/*` | accounts, versions, audited changes | updates, history, restore, re-encryption | `CredentialHistory` |
| Analytics | `src/analytics` | none | windows, filters, heatmaps | `Analytics` |
| Backups | `src/backups`, `scripts/*backup*`, `scripts/restore.ts`, `scripts/mark-stuck-running.ts` | runs, artifacts, advisory lock | run, watchdog, retention, migration gate, scratch restore | `BackupRun`, `ScratchRestore` |
| Deploy gateway | `ops/gateway` | state file, lock, releases, processes | plan, run, runner, unlock | `DeployGateway` |
| Seeds and cutover | `prisma/seed*.ts`, `scripts/seed-*`, `scripts/*cutover*` | the database, two buckets | seed, reseed, copy, verify | `Seeding`, `DemoData`, `BucketCutover` |

**How they interact.** The inbox commits a `JobPost` and pushes it to the queue;
a worker slot takes it, writes the verdict and stores a notification event, which
a second queue brings to Discord. Call reminders end in the same events. Postgres
is the source of truth; Redis, B2 and Discord are reached by calls that may fail
on their own, and no step spans two of them. Scheduler ticks bring them together
again. Operators' HTTP requests read, check, and write later, beside each other
and beside the ticks; only some of them hold a lock or run in a transaction, and
transactions are READ COMMITTED. Scripts (backup, restore, seeds, cutover,
deploy) are processes of their own on the same data.

**What is hard in it.** Every `await` is a point where another request, slot or
tick runs. BullMQ delivers at least once. A restart cuts everything where it is.
Errors are mostly swallowed and left to a later tick. A cached or checked value
is old when it is used. Rows and objects are written one after the other. The
hazards of `PROJECT.json` list these, each at its line.

## 2. The modules

Every module starts with a comment that says what it models; every constant that
bounds a model is named `Max...`, `...Requests`, `...Horizon` or the like. An action
is a stretch of code between two awaits, named after its method or statement. A
request keeps in its record what it has read and carries on with. *History*
variables (said so where they are declared) record for the properties what the
code does not keep: which requests overlapped, what an answer lost, what was
moved.

### The job pipeline

**JobPipeline** is one module for queue, worker, tick, operators' calls and hot
path, because their interleavings on the same rows and jobs are the subject.
Per post: `status`, `enqueueState`, `analysisAttempts` (the columns),
`matchEvents` (the notification events made for it), `jobState`, `jobMade`,
`jobStalls`, `jobOwner` (the BullMQ job with counters and lock). Global:
`analysisEnabled`, `cache`, `paused`. Per process: program counters `wpc` of the
slots, `tpc` of the tick, `epc` of the callers of `enqueue`, `opc` of the HTTP calls,
with their locals. `oldRows` are rows enqueued before the last boot, which may be
past the ten-minute floor of the boot-time sweep. The AI answers by choice; the
strategy of the enable call is any subset of the snapshot, which covers all
strategies; a deleted post that is delivered again is another member of `Posts`.

**PostLifecycle** is the abstract specification: a post's row, whether it is being
analysed or announced, how often it was announced; no slots, jobs, queues or
ticks. `JobPipeline` instantiates it with `work <- Work` and
`announced <- matchEvents`; `ImplementsLifecycle` says the pipeline is no more than
that. It holds after the boot-time sweep (`NoBootReset`): the sweep takes a row
from a slot still at work, which `skip_race` shows.

**VibeIngest**: per idempotency key the event row; the `posts`; requests; the guard
`drainingSince`; ticks with their snapshot. `commitLink` is two steps, the lookup
and the writes with their constraints. **NotificationDelivery**: events, the
delivery row, the BullMQ job, `posted` (messages in the channel), `hot`, `sweeping`
and `orphans`, the slots. **Evaluation**: prompts, cache, evaluations with gate and
parsers; rows are numbered as they are created and numbers are not used again.
**PostList**: the list, its order, the neighbours and the view mark while posts
arrive, change and go. **Analytics**: windows, filters and heatmaps in a zone that
is not at UTC, against a reference that looks at each post.

### Operations

**BackupRun** (rows, artifacts, the pooled advisory lock, the watchdog, retention,
the migration gate), **CallReminder** (calls, stamps, ticks, the compensating
delete), **PhoneMaintenance** (tasks, the two boxes, due dates), **DeployGateway**
(plan, lock, runner steps, state file, releases, processes), **UploadSession** (one
resumable upload, its parts, the large file and the row), **Payroll** (one sheet to
the cent), **Invoices** (line items, PDF in three steps), **WeeklyMoney** (the fiscal
calendar, entries, month and year totals), **TimeOff** (overlaps, allowance, month
segments around a new year), **ProjectTeam** (status history, client timeline,
blockers of a removal), **SalaryReview** (raises, rates, termination).

### Records

**FileTree**, **ReportDigest**, **DailyPosts**, **Settings** (values, caches, PATCH, locked
transactions; and the registry, a constant that the first state alone checks: numbers
as `Number()` reads them, empty text is 0, percent in tenths), **SalesFunnel**,
**ClientIntake**, **PortfolioAssets**, **PortfolioItems**, **Roles**, **Attachments**,
**Seeding**, **DemoData**, **BucketCutover**, **CredentialHistory**, **PhoneBook**,
**ScratchRestore**. Each is one or two entities and two requests; the table in
`PROJECT.json` says what of the component is left out.

## 3. How the modules are composed for TLC

Components that share no state would multiply their states for nothing when run
side by side. `MCOperations` and `MCComponents` therefore choose one component in
the first state: the variable `part` names it, `Init` is the disjunction of the
components' initial states with the others' variables at a fixed value, and a step
is a step of the chosen component that leaves the rest alone. Variables of the same
name in several modules (`req`, `begun`, ...) are one variable of the composition, as
only one of the modules is in use. So one run
explores each component completely, and a property is a conjunction over parts
(`part = "payroll" => Payroll!AmountsFollow`): `TypesOK` of the type invariants,
`FinanceSound`, `PlatformSound`, ... of what belongs together. Each conjunct is
stated and commented in its module. `MCLive` does the same for liveness: the part
`flushed` is a second instance of the pipeline with other faults.

The components whose proofs are about their own variables only stand in a module
below the composition: `Machines` (backups, reminders, phone numbers, deploys, uploads)
is extended by `MCOperations`, `Records` (funnel, intake, portfolio and its items, settings, roles,
attachments, seeds, cutover, restores, credentials, prompts) by `MCComponents`. Each
declares the variables and constants of its components, instantiates them one by one
and proves what each promises; the composition adds the other components and the
variable `part`.

Two daily-post parts exist because one with all jobs is too large: `Birthdays` has
the job that must be caught up within its day, `WeeklyPosts` the reminder, the
leased chunks and the phone reminder, with a profile that is switched.

## 4. The runs

| Run | Shows | Instance |
| --- | --- | --- |
| `pipeline` | operators' calls, crashes and errors against slots, tick and boot-time reset: the lock alone keeps a second analysis and announcement away; verdicts stay | 1 post, 2 slots, 2 calls, 1 fault |
| `lost_locks` | lost locks and flushed Redis: the claim on the row alone does it too, and a skip stays; refinement of `PostLifecycle` | 1 post, 2 slots, 1 call, 2 faults |
| `live` | every pending post is decided within its budget, though Redis loses its jobs; every number that is due gets its task | 1 post, 2 slots, 3 faults; part `flushed`: 1 call, 1 flush |
| `ingest` | racing deliveries, overlapping ticks, crash, database error, deletion | 2 keys, 1 posting, 2 requests, 2 ticks |
| `notifications` | dispatch, sweep, slots and retries under every fault | 1 event, 2 slots, 2 attempts, 2 faults |
| `operations` | the eleven parts of `MCOperations` | two requests or processes each, `Operations.cfg` |
| `components` | the twenty-one parts of `MCComponents` | two requests each, `Components.cfg` |

One post, one event, one employee is enough where no step couples two of them: the
code touches rows by id. Two slots are what `concurrency: 2` gives; two requests
are what an overlap takes; `MaxAttempts` 2 instead of 3 leaves out a repetition of the
same round. Three or four requests begun, two at a time, let a third act on what an
overlap left behind. Horizons are just past the last date that matters (retention,
reminder windows, the end of the day). One or two faults are what a failure and its
compensation take; the proofs of section 7 lift these bounds where they exist.

The mechanisms behind the pipeline's properties are separated by the runs. In
`pipeline` the boot-time reset takes rows away from slots, but BullMQ's lock holds
(`LockInv`); in `lost_locks` the lock is gone but the claim on the row holds
(`RowInv`). When both fail at once the properties fail; the code accepts this.
`DismissalIsFinal` is claimed without the boot-time reset only: `skip_race` refutes it with
one. Notifications rest on the lock alone, so `RepeatCostsAFault` and `SentIsFinal` speak
of the time before Redis loses a lock or a job; `SentIsFinal` also excepts the attempt that
wrote SENT, lost the answer, and will write FAILED over it (`Unheard`).

Overlaps that the code does not exclude are not hidden: where two requests that read
before either writes can break a property, the history variable of the module
(`crossed`, `raced`, `stale`, `excused`, ...) says so, and the property speaks of what was not
overtaken. The property then says exactly which interleavings are harmful.

## 5. What is refuted

One run each; the `findings` of `PROJECT.json` quote the lines.

| Run | What the code says | What happens |
| --- | --- | --- |
| `boot_recovery` | interrupted analyses are recovered at boot | after a quick restart the row is younger than ten minutes, the one sweep passes it over, and it stays PROCESSING for good |
| `skip_race` | skip and worker exclude each other | the boot-time sweep resets a row that was claimed after its look at Redis; the skip succeeds on NEW and the verdict overwrites it |
| `stranded` | an ingest during the enable call is covered by the lock | a post between `snapshotAt` and the lock lands as BACKLOG and stays |
| `ingest_duplicate` | a duplicate's event is linked and marked PROCESSED | of two overlapping drains the loser of the unique key marks the event FAILED |
| `notify_twice` | a prior SENT prevents a double send on a retry | the message is sent, the update to SENT fails, the retry sends it again |

Section 9 lists the smaller divergences met while modelling.

## 6. Fairness

*JobPipeline.* Cron fires (`TickStart`), awaits return (`TickStep`, `enqueue`,
`WorkerStep`, `CallStep`), BullMQ promotes delayed jobs and finds stalled ones, cache
entries run out: weak fairness. A waiting job is picked under strong fairness: slots
are busy and the queue is paused from time to time, and BullMQ serves in order.
Nothing is owed by operators, faults, or the retention of jobs.
*VibeIngest.* Cron fires and awaits return; senders owe nothing.
*NotificationDelivery.* The interval fires, awaits return, time passes, BullMQ
promotes, finds stalled jobs and picks waiting ones (strong).
*PhoneMaintenance.* The daily cron runs and its awaits return; operators owe nothing.

## 7. The proofs

Every theorem is for any values of the constants that meet the named assumptions:
`ConstantsAssumption`, `IngestAssumption` and `NotificationAssumption` say that the
"nobody" values are outside the sets they complement and that budgets are numbers;
`MachinesAssumption`, `OperationsAssumption`, `RecordsAssumption` and
`ComponentsAssumption` say the same of the composed components, and that forms have the
columns and ranges their DTOs allow. The one
assumption about configuration is `BackupFresh <= Retention`: a backup that the
migration gate accepts is not yet pruned.

### Pipeline, inbox, notifications

* `JobPipeline_proofs`: `TypeCorrect`; `LockInvariant` under `LocksHold` (no lock loss, no
  flush); `RowInvariant` under `NoBootReset`; from either `NoDoubleAnalysis`,
  `NoDoubleAnnouncement`, `VerdictKept`, and from the second `DismissalKept`. Neither
  safety property is inductive: what a slot is about to write depends on who else
  stands on the row, which `LockInv` and `RowInv` say. `Implementation`: the pipeline
  refines `PostLifecycle`; a slot's step changes `Work` for its own post only, because
  `RowInv` gives the post to that slot alone, and all else stutters. `BudgetKept`: an
  invariant that counts what each slot, delayed job and queue entry has used up.
* `VibeIngest_proofs`: `OneAcceptance`, `OneRow`, `LinksAreSound` from the properties with
  `EventsKnown` (a tick works on stored events only). `PushedOnce` counts: pushes done
  plus ticks about to push never exceed the insertions.
* `NotificationDelivery_proofs`: `SentIsTrue`, `RepeatsArePaid`, `SentStays` from
  `DeliveryInv`: until Redis loses something a busy slot holds its job's lock, what it
  read still holds when it writes, and messages plus faults left never exceed the
  budget by more than the one message that is out. `SentStays` excepts a slot that wrote
  SENT and was not told: it is the one that may take it back.

### Operations

A component's theorem is about its own `Spec`; the lemma `<Part>Behaviour` of
`MCOperations_proofs` shows that a behaviour of `PartsSpec` about that part is one of
`Spec`, and the theorems `...StaySafe`, `...StaySound` carry it over to the properties
the run checks. The proofs of backups, uploads, phone numbers, reminders and deploys are
in `Machines`, those of the requests of people in `MCOperations_proofs`.

| Part | The inductive invariant, beyond types |
| --- | --- |
| Backup | who holds which file and snapshot, the advisory lock with its count bounded by the runs answered; what the watchdog and the pruning read still fits the row |
| Reminders | rows known, what was told is stamped, `SentCount`; `ChancesCount`: each tick that passed an owed reminder without sending it has been counted as missed, so `TwoChances` |
| Deploy | one runner alive holds the lock (until a lock is removed under a deploy); at each step what it knows of database, release and process; `NewestRuns`, `Replannable`, `Agreed` |
| Phone | the task on file, what a request holds between read and transaction, `Held`; its row has the marks it read and those it asks for, so what was said of a task stands unless the transaction finds other marks |
| Upload | the session, the large file and the row agree at each await, `Sized` |
| Payroll | what a request computed follows from what it read (`ReqInv`, `Computed`), kept sheets; rounding lemmas `Nearest`, `FeeComesBack` |
| Invoices | `PaidInv`, `ItemsInv`, `StoredInv`, `NamedInv`, `Apart`: two that overlap are in `overlap` or `crossed` |
| Weekly | only types; that a payment is in one month's history at most is arithmetic of the calendar |
| Absences | `SawClashes`: an absence written since the check is known to the check or marked as a race |
| Team | `TeamKnows`, `HistoryInv` (the first line may be missing while creating), `LinkedInv` (events still to be told are counted with `Cardinality`) |
| Salaries | `Knows` (what a request nobody overtook still knows), `GoneForGood` |

Together they prove `TypesOK` of all eleven parts and every property of the run except
`FiguresRight`.

### Records

`MCComponents_proofs` does the same for three groups of the run `components`, from the
theorems of `Records` on each part; `DailyPosts_proofs` holds the proof both daily-post
parts use.

| Part | The inductive invariant, beyond types |
| --- | --- |
| Birthdays, WeeklyPosts | per key what a run between its read and its write has seen: `RunInv`, `HeldInv` (a lease), `ChunkInv`, `PhoneInv`; a message beyond the first is unsure, shared or leaked |
| Funnel | `FunnelUpdates`: an update that was not overtaken still reads what is there; `FunnelTaken`: the idea of a post waits only while the second statement is to come, after it failed, or after an operator set it back; `FunnelAsked`: what the operator last asked for stands unless the conversion took up a waiting idea |
| Intake | the form, file by file: what is stored, flying, rolled back, and what a removal has already taken |
| Roles | `RoleKnows`: a demotion nobody overtook leaves another owner, a fill nobody overtook finds the keys it deleted |
| Attached | `AttachedKnows`: an upload has its attachment to itself, a removal from the bucket has deleted the object before the row; `AttachedKept` |
| Seeds | `SeedOrder`: a run passes catalogue, then owner, and past each holds all that the code knows |
| Cutover | `CutoverKnows`: what a verdict says of the destination; `CutoverPasses`: every key passed has a verdict, what is left to do is what was planned |
| Portfolio | `PortKnows`: what each upload and removal has yet to bring or to take; an asset without a row is its upload's own or was left by a lost answer, a cover not yet shown is nobody's to replace; `PortHalves`, `PortStored`, `PortOne`; the gallery counted with `Cardinality` |
| Scratch | `ScratchTyped`: from its checks on a start has an allowed target and the file whose sum was verified; `ScratchNow`: it has restored nothing yet, or into that target; `ScratchHeard`, `ScratchClean`: what it still has to report and to remove |
| Vault | `VaultKept`: what was held is there, filed, or trampled, and every secret has all its fields; `VaultAsked`: a change that read the row holds what it is about to file |
| Evaluation | `PromptOne`: one row in force for a type nobody crossed; `PromptAsked`, `PromptRead`: unless a commit overtook it, a call knows its row and those in force, a read the prompt in force; `PromptFilled`: rows are numbered without a gap |
| Items | `ItemKnows`: every candidate before a request's own is another item's, and unless somebody wrote since, its slug is free; `ItemDone`: the tags behind it have their rows; `ItemSlug`, `ItemTags`: the same of each item and what it was last sent |
| Config | `ConfigCached`: an entry that differs from the value in force is late or about to be dropped; `ConfigAsked`: a fill nobody overtook has the value of today, a PATCH past its check does not turn on a flag it saw off, a locked read holds |

The theorems are `PostsStaySound`, `SalesStaySound` and `PlatformStaysSound`.

## 8. What only TLC checks

* Liveness (`PendingPostDecided`, `DueGetsTask`, `ReceivedGetsRow`, `EventSettled`):
  fairness and ENABLED are out of the prover's reach.
* `FiguresRight` (totals of a month, vacation days of a year) and the sums of
  `Analytics`: sums over sets, so induction over data.
* `RecordsAgree`: `FileTree` (a listing that follows the tree to any depth), `ReportDigest`
  (text cut into chunks), `PostList` and `Analytics` (orders and counts of a list).
* `DataSound` (the registry of the settings, demo data, board and bindings) and the
  `TypesOK` of `components`: not attempted; the instances are in `Components.cfg`. The
  registry is a constant table, where the run tries every stored value and every set of
  permissions.

## 9. Where code and comments part

Seen in the models, without a run of their own. Each is the code's behaviour as
modelled; the properties are stated so that they hold with it.

**Job pipeline and notifications.** The boot-time sweep sets its latch even if Redis
could not be read. A slot with a stale cached flag hands a row back as BACKLOG after
the enable call. A flush together with an AI error, or bad output with a retry, can
strand a row as NEW and ENQUEUED with a completed job. A late bulk skip restarts the
attempts counter of a post that is retried, since `forgetJob` runs for every id.
Database errors at the claim use up a job's attempts unanalysed. An event that became
FAILED by a database error is never drained again. A job that Redis loses after its
delivery row was written is not made again; a match filtered by the settings is
re-dispatched by every sweep and goes out late when alerts are switched on; an event
whose call was deleted stays an orphan.

**Prompts.** Two overlapping activations or edits leave two active prompts, of which
the newest counts. A read begun before a change may cache the old prompt after the
clear, for a minute; a failed query caches the fallback; a lost commit answer skips the
clear. A comment of the evaluator speaks of `tool_choice: auto`, the gate forces the tool.

**Lists and analytics.** `findNeighbor` ignores the country and gate filters, though its
comment says it walks "the EXACT same total order the list uses"
(`job-post.service.ts`, 414-446). The labels of `scoreRanges` ('85_100', '70_84', ...,
406-412) do not name the ranges counted (90 and more, 71-89, 50-70, 40-49).
`getRecentHighScorePosts` replaces the caller's score bounds by 50 and more. "Today" is
24 hours, so it misses or exceeds an hour when the clocks change. The attention panel's
"high-score posts waiting" asks for a score of 90 without a decision, which the
processor never writes; its "No successful backup for over a week" looks at the latest
run of any status.

**Settings.** PATCH of a section says "atomically" and writes key by key. The legacy
threshold fallback of `notification.service.ts`, 155-163, can never apply.

**Discord.** `sendChunked`'s branch for a thrown or ambiguous answer is dead code, as
`DiscordBotClient.postMessage` never throws: after a timeout the lease is given back and
the next tick sends again, though the doc (`discord-schedulers.service.ts`, 395-430 and
623-630) says the lease is kept. `runOnce` takes a session lock on pooled connections;
an error of its own queries ends the whole tick; when `recordProfileSuccess` fails after
SENT the row is PENDING again and the post repeated. Chunk keys do not name the profile,
those of `runOnce` do. A birthday caught up past midnight greets the next day's people. The
phone reminder has no catch-up, and a failure after the post is logged as "failed". A
report filed by the late form may be posted twice (`project-report.service.ts`, 357-360);
`isLateReport` uses the default cutoff; a slash command that straddles 19:00 files under
one date and answers for another (`discord-report.service.ts`, 61-67). Weekly digest and
absences share the chunk code, so absences are not a case of their own.

**Notifications.** If the update to SENT commits and its answer is lost, the catch writes
FAILED over it (`notification.processor.ts`, 446-465) and a retry repeats the message.

**Backups and restore.** `restore.ts` says "If the target has data, pg_restore will merge",
but `--single-transaction` makes it fail on the first table that is there. `LOCAL_HOSTS`
holds '::1' while `URL.hostname` gives "[::1]", so that host is always refused. The
header says the default run touches no database, yet a failed verify-only run writes
an audit entry; a FAILED entry may follow a completed restore and names no database; a
killed script leaves pg_restore to end its work unaudited. The Discord message goes
with the entry and is not told apart.

**Deploys.** A late runner may outlive the caller's `rm` of the lock; a lock without
metadata after a crash cannot be unlocked. The model ends where a lock is removed under
a deploy.

**Files and uploads.** A cancelled single-shot upload leaves its object. The portal's
listing uses a scope computed before it. A late upload of a client form ends in the store
after the cleanup loop, though the comment says "so we never leave B2 orphans"; a removal
during the upload computes the wrong folder. Two covers at once leave an orphan COVER row; a
cover whose pointing failed loses its object and keeps its row. An upload to the bucket has
no cleanup if its row fails. Overlapped updates of one item's tags end in the union of
both forms; a race for a slug, looked for in up to 50 queries, ends in a unique-key error;
the list by tag lowercases but does not trim.

**Phone book.** A card without a place that is moved onto a taken one sends the occupant
off the board, without any race: the occupant gets the mover's former place, which is null
(`phone-numbers.service.ts`, 327-342, against the comment at 296-299, "never a bare one card
gets kicked off" race). A move whose reading is stale can do the same to any card, or drag one back.
A `complete()` writes the boxes it read, so of two that overlap the later clears the
other's tick, and one that a skip overtook opens the task again. `normalizePhone` throws
a plain Error for a text without digits ("---" passes `Length(3, 32)`), so a 500 where the
comment of `create-phone-number.dto.ts` promises a 400. Lists sorted by operator or status have
no tie-breaker, so pages may repeat or miss rows; the default order is checked.

**Money.** The week of 5-11 January 2026 of fiscal December 2025 is in no month's history,
though the comment speaks of fiscal boundaries (`finance-analytics.service.ts`, 117), and a
week that straddles New Year counts in both years' totals. A date that the weekly form omits
is written as null: the target ES2023 defines every declared field and `main.ts` (53-59)
transforms bodies into DTO instances, so `'receivedAt' in dto` always holds
(`finance-weekly.service.ts`, 449-473), against "Auto-set to today" in
`upsert-weekly-entry.dto.ts` (37-55); the model writes what the form brings. A regeneration sets a paid invoice to open; a renamed
counterparty leaves the old PDF. A fee with more than two decimals is rounded when stored.
The model computes payroll in whole cents; the error of JavaScript's floating point is not
modelled, and the property allows the one cent that rounding may cost.

**People.** An allowance of 0 means no cap. Overlapped status updates of a project lose or
double history lines; its deletion does not unlink the client's timeline; deleting a
project or an employee leaves the objects of attachments (`schema.prisma`, about 984). A
form that empties the rate or the result of a raise leaves the old rate, though the comment
says "Result changed away from INCREASED — retract the rate row"; a removal racing a raise
leaves a rate without a review; a termination stamp can be lost by an overlap.

**Sales.** A proposal that left Replied cannot be set to Replied again while its lead exists
(500). A lead created as WON or ON_HOLD has no date of it. An idea is converted by a
statement after the post's (`linkedin-post.service.ts`, 79-85), so a failure leaves the post
with an idea still NEW; an operator may set a converted idea back to NEW
(`linkedin-idea.service.ts`, 127).

**Credentials.** "Keep the fields the caller did not pass so a partial update never wipes the
whole payload", says `credentials-account.service.ts` (181-182), but the form is a DTO instance whose omitted keys are
own properties, so the spread of line 183 erases every field the form leaves out (the
old values remain in the history). `diffSecretKeys` ignores `securityAnswers` and changes of whitespace. The schema
(about 1637) says "entire change history preserved indefinitely"; two overlapped changes lose
a value. A controller comment says hard delete was "intentionally removed" (`credentials-
account.controller.ts`, 91-99), but `DELETE :id` is there (219-233) and deleting a profile
cascades. Restoring a version whose key is not loaded makes the row unreadable; a crash after
the snapshot leaves a version without a change.

**Roles.** Two demotions at once can leave no owner; two forms at once end in the union of
their keys; an assignment racing a deletion leaves a user without a role.

**Seeds.** A comment of `seed.ts` (247-272) says existing roles are left alone, the code syncs the
presets at every run. `seed-system.ts` says "presets apply only on initial role creation" and
refills a role that was emptied. The owner role is emptied and filled without a
transaction. The marker row keeps a half-seeded section away; without it a unique conflict
ends the run. `seed.ts` (507-512) promises a fresh audit row for a role assigned back, but
finds the old entry and skips it. The full seed resets the roles of seeded users,
overwrites the active prompt and reactivates portal users (the last is not modelled);
`createdById` and `actorUserId` of demo rows hold the id of a role.

**Demo data.** "Existing real rows are never touched" does not hold: the weekly seeder puts
rules on every project that is not archived and overwrites real entries, which then carry its
marker and are wiped by the next run; deleting a demo parent cascades to real rows; an
invoice on a demo client, or a post added to a demo account, stops the people seeder
half-way. The Upwork seeder prunes profiles of the same name and makes all snapshots anew; it
looks only at `APP_ENV` though it says "Local-only"; the vault seeder looks at nothing; the
leads seeder refuses production only and links real projects to demo clients.

**Cutover.** `--verify` exits 0 with keys missing at the destination, though the header says
that every expected key must be there. A probe that fails counts as missing, so an apply can
overwrite what is "NEVER overwritten automatically".

## 10. What is not modelled

`PROJECT.json` lists it by component with the reason: access control (sign-in, tokens, the
vault session and MFA, permission bits), read-only queries and plain CRUD, live events, audit
and the AI usage ledger. Within modelled components: a queue tick that outlives `STALE_GUARD`
and overlaps the next one (the drain tick's overlap is modelled); several backend
processes; conversion of a post to a proposal and manual creation; the switch that
forbids reopening a paid payroll; the legacy settings writer; balances of time off. Texts,
notes and labels appear only where a property is about them.

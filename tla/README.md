# WealthTrack in TLA+

WealthTrack collects investment records. Users upload CSV files, review what
the worker made of them, confirm, and the rows are posted to one table,
`investment_records`, that every dashboard and report reads. Records also come
from Google Sheets and from other databases and APIs.

The program is a NestJS API (`apps/api`), a worker (`apps/worker`), a React
dashboard (`apps/dashboard`), MySQL and Redis (BullMQ queues). Several API and
worker processes may run. **No handler opens a database transaction**: each SQL
statement commits on its own, and other processes run between any two. What
keeps the data right is the order of the statements, the UNIQUE and foreign
keys, and what the handlers do when a statement is refused. That is what is
modelled here.

## Inventory

| component | state | operations | what is hard | what makes it right |
| --- | --- | --- | --- | --- |
| Uploads and imports API (`modules/uploads`, `modules/imports`) | `upload_batches.status`, `idempotency_keys` | upload, confirm, cancel, delete, delete all | check-then-act on status and key; key written before the job is added; four DELETEs that race the workers | nothing dangles; what is posted was confirmed; a stored answer is honest |
| CSV worker (`csv-processing.processor.ts`) | `upload_batch_rows`, `upload_validation_errors`, status | one job: find, mark, parse, delete the old rows, stage, record errors, finish; catch block; `failed` listener | redelivery after a crash, after an import or after a delete; the listener's UPDATE is not awaited | a batch reads `validated` only with every line staged once |
| Import worker (`import.processor.ts`) | `investment_records`, status | one job: mark, select, preload references, INSERT row by row, final status | two imports of a batch on two pods; refused rows; redelivery | the ledger books a fact once; `imported` tells the truth; confirmed batches get posted |
| Worker runtime (`worker-runtime.service.ts`) and BullMQ | queues, stalled jobs | take, complete, fail, redeliver | crash between any two statements | no job is lost by one crash |
| Outbox (`outbox.service.ts`, `outbox.processor.ts`) | `outbox_events`, `outbox` queue | insert event, add job; mark dispatched | crash between event and job; no rescan | what was answered is dispatched |
| Google Sheets sync (processor, scheduler, webhook) | `sync_batches`, `google_sheet_row_checksums`, tabs, records | run over tabs and rows; schedule; trigger | three attempts over non-atomic writes; duplicate enqueueing; rows, tabs and records that change under a run | a sync that ran alone leaves a record of each row, in the columns it writes; no attempt posts a row twice; a batch ends (not true) |
| Database/API sync (`sync.processor.ts`) | `sync_batches`, records | run over the source's records | an INSERT that throws halfway | no attempt posts a row twice; invalid rows leave a trace |
| Reports | `report_exports`, files | request, generate | an error after `processing`; delivered again after the records changed | the row of a completed report describes its file |
| Accounts (`modules/auth`, `modules/users`) | `users`, `password_reset_tokens`, sessions | sign in, invite, reset, change password, status, update | whole-row UPDATEs of a stale read; tokens looked up, then used | deleted accounts stay deleted; one live link; a request that ran alone is not undone |
| Roles and settings | roles, role permissions, tenor bands, channels | replace, delete | DELETE then parallel INSERTs; count then delete | lists hold what was asked for |
| Migrations | schema, `schema_migrations` | apply files at start; the deployment's script | two runners over the same files; skipped errors; crashes inside a file | what is served is the whole schema |
| Analytics, investments lists, tenor classification | none of their own | totals, splits, series, pages | many views of the same records, each computed in its own way; boundaries | they agree; pages cover the list |
| Dashboard (`App.tsx`) | what each view shows, requests in flight, session | open, search, page, filter, write, sign in and out | answers that come late; views that are reset or cancelled; a refresh that outlives its session | a view shows the answer to what it asks, and nothing older than the answer to the last write |

The parts of the upload pipeline interact only through tables and queues. The
API inserts a batch and adds a csv-processing job; the CSV worker stages the
rows; a confirmation stores a key and adds an import job; the import worker
posts the rows. Both kinds of request also insert an outbox event and add its
job. Syncs follow the same scheme: a `sync_batches` row, a job (from the API,
the webhook or a scheduler), and a worker that posts to the same table.
Accounts, roles and settings are requests that meet in the tables alone. The
dashboard and the analytics read what all of them write. Validation, audit,
jobs, notifications, health and mail hold no protocol of their own and are not
modelled.

## Modules

| module | models |
| --- | --- |
| `UploadStore` | tables and queues, their keys and constraints, the vocabulary shared by the handlers |
| `CsvProcessor` | `CsvProcessingProcessor.handle` and the `failed` listener |
| `ImportProcessor` | `ImportProcessor.handle` |
| `UploadsApi` | `UploadsService`, `ImportsService.confirmBatch`, `OutboxService.queue` |
| `UploadPipeline` | the three together, crashes, redelivery, failing statements; fairness; the properties |
| `Ledger` | abstract specification: facts are booked once, after approval |
| `MCUploads` | instances for TLC |
| `UploadTyping` | proof that the types are an invariant |
| `UploadPipelineProofs` | proofs of the safety properties and of the refinement of `Ledger` |
| `BackOfficeStore` | users, tokens, sessions, roles, lists; a request as the statements it still has to await |
| `Accounts`, `Catalogue` | the statements of `AuthService` and `UsersService`; of `RbacService` and `SettingsService` |
| `BackOffice`, `MCBackOffice` | the two together, the properties; the requests that meet |
| `BackOfficeProofs` | proofs: types and where each request stands; the safety properties |
| `SyncStore` | batches, records, checksums, reports, events, queues, workers with attempts and stalls |
| `SheetsSync`, `SourceSync`, `Exports` | the google-sheets-sync processor; the sync processor; the report and outbox processors |
| `SyncRequests` | `IntegrationsService`, the webhook, the scheduler, `ReportsService`, deletions, the editors of a sheet |
| `SyncPipeline`, `MCSync` | all of these together, fairness, the properties; the requests that meet |
| `SyncTyping`, `SyncProofs` | proofs: types and the shape of each run; the safety properties |
| `Schema`, `Migrations` | the nineteen files as statements; the service and the script that run them |
| `MigrationsProofs` | proofs: types, the order of recorded files, and that what is served is whole, for any number of pods |
| `CsvText` | from the text of a CSV file to the values that are posted: cutting, headers, normalisers, checks, defaults |
| `Figures`, `MCFigures` | every figure that is computed from the records, and the lists that are paged; cells, rows, and the records they become |
| `FiguresProofs` | proofs about cells, rows and tenors, sums, splits and pages |
| `DashboardViews`, `DashboardSession`, `Dashboard`, `MCDashboard` | the loads of each view; the session; the dialogs that write, and the properties; users and first views |
| `DashboardProofs` | proofs of the dashboard's safety properties |

## Uploads

**State.** `status`, `staged`, `validationErrors`, `records`, `keys`, `outbox`
are the tables; `csvQueue`, `importQueue`, `outboxQueue` the queues. A batch
has a file, a sequence of lines. A line is reduced to what the handlers branch
on: its reference (`NoRef` for NULL), and whether it fails validation, fits
`upload_batch_rows` and fits `investment_records`. `Collate` is what
`utf8mb4_unicode_ci` compares a reference as. Staged rows are pairs of a parse
and a line, since each parse makes new ids. A job carries how often it stalled,
so that it names one delivery, and a record is a delivery and a row.

**Actions.** One per `await`: `csvPc[p]` and `impPc[p]` name the await that the run
of pod p is at, `reqPc[c]` that of request c, or its outcome. What lies between two
awaits is one step, as in JavaScript. One exception: the outbox INSERT and the
outbox job are one step (`QueueEvent`) when both succeed, since no modelled handler
reads either; when something fails in between, the event may stay without its job
(`EventLeftBehind`).

**A detail worth knowing.** The worker's row mapper turns column names into
camel case, so `existing.map((r) => r.investment_reference)` in the importer is
a list of `undefined`: `Preloaded` is `{Undefined}` or empty and known
references are *not* skipped. They run into the UNIQUE key, the row-level catch
logs them, and the final status adds up all the same because `existingRefs`
then holds `undefined` plus what was inserted. The mutant `PreloadedAll` shows
what the properties say if `existingRefs` held references that were not found.

**Mishaps.** `Mishaps` bounds how often a worker crashes, a worker's statement
fails, an API request dies, an API statement fails. A crashed pod loses both
runs and the unsent UPDATEs of its listener; its jobs stall and BullMQ puts them
back at the head of the queue once (`maxStalledCount` 1, its default), then
fails them. Jobs of these queues have one attempt.

**Not here.** Investments are also removed one by one or by customer, without their
batch (`bulkDeleteByIds`, `bulkDeleteByCustomerIds`, investments.service.ts:67-93).
No table refers to a record, so nothing can dangle after them. They are actions of
`SyncRequests` and `Figures`; `ImportedMeansPosted`, `LinesPostedOnce` and
`ImplementsLedger` speak of a ledger from which nothing is taken that way.

## Accounts, roles and settings

A request is the list of the statements that its service method still awaits
(`StepsOf`), an action per statement, from `Begin` to the answer. `FindUser`
keeps the whole row it read in `req[c].row`; `WriteUser` later writes that row
back with the fields the method sets (`Written`), where `id` matches and
`deleted_at IS NULL` (`Matches`). A link or code is the token named after the
request that mailed it. The lists of `Catalogue` are the permissions of each
role and the two lists of the settings: `Clear` and `Insert` are statements of
their own. `Promise.all` answers an error while other INSERTs are still under way:
the model keeps such a request under way until its last INSERT is done
(`failing`), and `Settle` then answers. `CrashApi` loses every request.

Stale writes are the rule here: a sign-in that crosses a suspension undoes it.
The history variable `quiet` holds what was last written to a field by a
request that met no other on that account, `exact` what a replacement that ran
alone left, `asked` the keys that may be in a list since it was emptied, `met`
the requests that overlapped. The properties say how far the damage goes.

## Syncs, reports and the outbox

`SyncStore` has the jobs: a worker takes one of its queue, runs it statement by
statement and either acknowledges it, throws, or dies with it. A job of the
sheets' queue is tried again after a throw, the others are not; a stalled job is
delivered once more. `SheetsSync` reads the tabs once, reads a tab's rows once,
and goes through them with a row, a checksum and a record of its own each.
`SyncRequests` holds everything else that writes the same tables; a spreadsheet
is edited between any two steps.

A row's text has two parts: `updatable` is the name, amount, tenor and maturity
date, `lasting` everything else (customer, type, fund, mobilisation date, category,
currency, channel, manager, cost of funds). An INSERT writes both. The UPDATE
(google-sheets-sync.processor.ts:205-222, `Updated`) writes the first part and
the new checksum; **the second stays as it was first inserted**, so that a record
may carry the checksum of a row it does not match.

Three facts of the code that shape this model. (1) `toCamelCaseRow` makes
`row_checksum` unreadable under that name, so **no row counts as unchanged**:
every sync writes every row again. Rows with a reference are updated; rows
without one are inserted again and refused by UNIQUE (`source_record_hash`),
which is what `sync_twice` shows. (2) Scheduler and webhook run as `system`,
which is no user: with a complete row, such a sync fails at the foreign keys.
(3) No request of the API makes a source `active`; the runs begin with sources
that are.

`fresh` holds the sheets whose last sync finished with no edit, other sync or
deletion in between, and with no sync of another sheet that names an investment
of this one: two sheets that name one reference write the same record in turn
(`SharedBy`). The third tab of `MCSync` is a second sheet's, so that the run
reaches that case.

## Migrations

A schema is the set of names that exist. A statement makes or drops names, needs
others, and answers with MySQL's error number (`Errno`). The service runs a file
as one batch, passes over five error numbers (`AlreadyApplied`), and records the
file; the script records nothing and stops at the first error. The `mysql`
client cuts the procedure of 0019 at its first semicolon, so the script always
stops there with 1064, and a second time at 0001. `torn` becomes true when a
process stops inside one of the eight files that create several things plainly,
or a grant is left out by `INSERT IGNORE` because its parents were not there
yet; `ServedIsWhole` and `ServesUnlessTorn` claim nothing from then on, and the
second finding shows that a file can also be recorded with parts missing when
nothing crashes.

## Figures

`Figures` computes the views of `AnalyticsService` and `InvestmentsService` from
a set of records and turns the pages of three lists, portfolio, ledger and
commissions, while records come and go. Money is whole units; a date is a day
number; the commission is that of the upload row a record came from, and none
without one (`LEFT JOIN`, `IFNULL`).

`CsvText` is where a record's values come from. The text of a file is cut into lines
first (`Breaking`, `Lines`) and quotes are looked at afterwards, line by line
(csv-parser.ts:40-43), so **a quoted cell with a line break is cut in two**.
`Reading` is one character of the pass that cuts a line into cells (`ParseLine`), a
recursive function of the place; a row then is a sequence of normalised headers and
cells, a cell what the normalisers look for in it (words, a number in tenths, a
date), and `Normalized`, `Failures`, `Staged` and `Imported` are the aliases, the
checks, the staged row and the importer's defaults: a row may lack a name, a
customer type and a currency, and is posted with "Unknown Customer", a type and
"NGN" (csv-processing.processor.ts:91, import.processor.ts:62-68); "unclassified" is
the category of a row without one. The kinds of records of `MCFigures` are computed
by these operators from rows. A thing is read at a time (`file`), beside no record:
reading and figures do not depend on each other.

Splits by tenor go by the category that is *stored* (`OfCategory`). It is that of
the days when a CSV row is posted, but a sheet's UPDATE writes new days and leaves
it, and another database or API sends its own, or "unclassified" is put in its place
(sync.processor.ts:56): the records of `MCFigures` include such ones. The query of
the ledger has no ORDER BY (mysql-analytics.repositories.ts:32-35); rows of equal
rank are taken to be scanned in the same order at each request.

## Dashboard

`res` is the state per resource that a view shows, `req` the one load per resource
that is not cancelled (each effect's cleanup cancels the one before), `ui` what
loads depend on. `Render` is a render: each effect whose dependencies changed
cancels and, if its view is shown (and, for four resources, idle), asks again.
`Debounce` is the 300 ms timer; the timer of the first render is taken to have fired
before the first gesture. `now` counts the writes the API has carried out and a
loaded answer remembers it; `told` is the write after which a resource was last
reset. An answer to an upload or a confirmation says only that work is queued
(`queued`, App.tsx:5650-5662); `Written` is the worker's write, later, of which no
view is told. Rows stay clickable while their list loads (`HasRows`).

The session is an actor, a session id and an actor type, the `headers` what requests
carry. Return in the sign-in form is not blocked while a sign-in is under way
(App.tsx:6517, 6524), so several can be (`signing` counts them) and the last answer
wins. The refresh of the mount takes over the actor type into the session and not
into the headers (App.tsx:1477-1480).

## What the runs check

| run | instance | properties |
| --- | --- | --- |
| `upload_races` | one batch of a good and a failing line; an upload, a confirmation, and a second confirmation, cancel, delete or delete-all, in *any* status; two worker crashes, or one fault, or one API fault, or one API crash. 1.6 million states | `TypeOK`, `NoOrphans`, `PostedWasConfirmed`, `ValidatedIsComplete` |
| `upload_side` | two pods, two users, four lines: `r1`, `R1`, a refused one, one known from another source | `ImportedMeansPosted`, `ImplementsLedger` |
| `upload_recovery` | two pods, three lines, one crash, `FairSpec` | `ConfirmedGetsPosted`, `NothingStuck` |
| `upload_retry` | a line without a reference next to a refused one, confirmed twice | `LinesPostedOnce` is violated |
| `upload_cached` | two confirmations in any status | `CachedMeansImported` is violated |
| `back_office` | one account and a second that is invited, one old link; families of three or four requests that meet, one restart. 308,000 states | `TypeOK`, `OneLiveLink`, `QuietWriteStays`, `RowsAsked`, `QuietReplaceIsExact`, `DeletedIsFinal` |
| `sync` | a sheet of two tabs, a second sheet and a database source, two sheets workers, families of two or three requests, an edit of either part of a row, a crash or a fault. 475,000 states | `TypeOK`, `QuietSyncMirrors`, `RetryPostsOnce`, `InvalidRowsTraced`, `CompletedReportMatchesFile`, `AnsweredIsDone`, `JobsEnd`, `CalmSyncsEnd` |
| `sync_twice` | one row without a reference, two syncs, no mishap | `SyncsEnd` is violated |
| `migrations` | one pod, the script, all files, 18 initial schemas, one crash. 413,000 states | `TypeOK`, `MarkedInOrder`, `ServedIsWhole`, `ServesUnlessTorn` |
| `migrations_race` | the same without a crash | `AppliedIsPresent` is violated |
| `figures` | up to three records of fourteen kinds, some with stale categories, pages of two; files of two cells of up to three characters, line breaks among them, a century of days, rows of every combination of headers and cells. 707,000 states | `ViewsAgree`, `SplitsPartition`, `TenorFollowsBands`, `QuietPagesCover`, `CellsReadBack`, `ValidRowsAreWhole` |
| `dashboard` | six views, an administrator and a clerk, three gestures, one failing request. 801,000 states | `TypeOK`, `ShownIsAsked`, `ReadAfterWrite`, `QuietIdentity`, `Settles` |

- `NoOrphans`: the foreign keys hold in the middle of any deletion, second
  parse or import, and a deleted batch leaves nothing behind.
- `PostedWasConfirmed`: each record is from a valid line and from the job that a
  confirmation of that batch, by the user it names, added.
- `ValidatedIsComplete`: `validated` means every line staged exactly once, unless a
  delete request is dropping the rows.
- `ImportedMeansPosted`: a batch that reads `imported` has each valid, postable line
  in the ledger, if it was parsed once and no delete touches it: a delete of the
  batch, or of another one that shares a reference with it and whose record
  counted for both (`DeletionTouches`).
- `ConfirmedGetsPosted`, `NothingStuck`: a confirmed import happens, and no
  batch stays `processing` or `importing`.
- `ImplementsLedger`: `UploadPipeline` refines `Ledger`. `booked` counts the
  records of a line, `approved` holds the batches for which a confirmation added
  a job, `foreign` the references of other sources, `gone` the deleted batches.
- `DeletedIsFinal`: no UPDATE of a stale row touches a removed account.
- `OneLiveLink`: two links of a kind that both work were mailed by requests that
  overlapped.
- `QuietWriteStays`: what a request that met no other wrote to a password or a
  status stays until a request that means to change it. Writes that meet another
  request are undone at times, as listed below.
- `RowsAsked`, `QuietReplaceIsExact`: a list holds what some replacement that is
  not over wants, and exactly what the last one wanted if that ran alone. What a
  refused deletion of a role took away is not denied.
- `QuietSyncMirrors`: whatever was left behind by crashes, retries and stored
  checksums, after an undisturbed sync each complete row of the sheet has a record
  with the checksum of that row and with its name, amount, tenor and maturity date.
  It says nothing of the columns that an UPDATE leaves.
- `RetryPostsOnce`: attempts and redeliveries of one sync post a row once.
- `InvalidRowsTraced`: every invalid row of a finished sync has its error row.
- `CompletedReportMatchesFile`: a report completed twice describes the file that
  is there.
- `AnsweredIsDone`: at rest, an event of an answered request is dispatched and
  an answered report completed, crashes or not, unless a statement failed.
- `JobsEnd`: whatever fails, crashes or is edited, no job is tried or delivered
  for ever.
- `CalmSyncsEnd`: a sync of rows that all have references ends while no other
  sync crosses it and no statement fails, redelivered over half-posted rows or
  not. Syncs that cross can make each other throw at the UNIQUE keys in every
  attempt; the batch then stays `running`.
- `MarkedInOrder`: no file is recorded before those that sort before it.
- `ServedIsWhole`, `ServesUnlessTorn`: a pod serves the whole schema, and always
  comes to serve.
- `ViewsAgree`, `SplitsPartition`: all figures tell the same totals; each split
  adds up.
- `TenorFollowsBands`: the bands written in the code are those of the settings'
  table when it is seeded. Categories that came another way may differ.
- `QuietPagesCover`: turning all pages of a quiet list shows each item once, and
  the commissions on the pages add up to the sum shown beside them, although
  items, number and sum are separate queries.
- `CellsReadBack`: cells written with quotes, all or only those that need it, are
  read back from the text of the whole file as they were, unless one holds a
  line break; and a year of two digits is the year meant.
- `ValidRowsAreWhole`: a row without a failure is posted with the customer, fund,
  tenor, date and amount that the file has and with the category of that tenor; name,
  customer type and currency are made up only where the file gives none.
- `ShownIsAsked`, `ReadAfterWrite`: a view that is ready shows the answer to its
  parameters, read after the answer to the last write that reset it. Exempt are
  loads in flight at the reset, handlers whose second request fails
  (App.tsx:5481-5501, 4426-4434), and what workers write after the answer.
- `QuietIdentity`: requests carry the actor, session id and permissions of the
  session that is shown, unless the refresh of the mount outlived its session. It
  says nothing of the actor type.
- `Settles`: lists that are loaded at every visit stop loading.

**Where users may confirm.** The API accepts a confirmation in any status.
`upload_races` lets it; `upload_side`, `upload_recovery` and `upload_retry`
confirm as the dashboard offers (App.tsx:5638). `ImportedMeansPosted` and the
liveness properties need that: a batch confirmed before it is parsed has no
valid rows and becomes `imported` with nothing posted.

**Four disagreements with the repository's own words.** (1) The retry dialog
(App.tsx:5646) promises that already imported records are not duplicated; a row
without a reference is (`upload_retry`). (2) The comment at
imports.service.ts:31 says that a cached response is honoured only if the batch
was imported; the code honours it for every status but three (`upload_cached`).
(3) google-sheets-sync.processor.ts:161 says "Skip unchanged rows" and skips
none, so a second sync of a row without a reference never ends (`sync_twice`).
(4) migration.service.ts:79 says that the DDL in a file already exists and
treats it as applied; some of the file may not exist (`migrations_race`).
Smaller ones need no run: after an import is confirmed the notice says that all views
will refresh shortly (App.tsx:5662), but four views are reset at once, when the
import is only queued, and a list that is read before the worker has written stays
on the screen; database-schema.md:80 calls the tenor bands configurable, but no
figure reads the table; implementation-plan.md:168-170 puts the writes of an import,
of a report request and of a sync in one transaction each, and there is none.

**Behaviour that the models have and no document rules out**, so that no run
claims the contrary:

- a cancelled batch can still be imported, or confirmed again; an INSERT that
  fails for a transient reason may leave `imported` with a row missing; an
  upload answered with 503 may be processed after all; a late 'failed' of the
  listener may land on a batch that moved on; a parse delivered again
  after its rows were posted fails at the foreign key and turns an `imported`
  batch into `failed`; an import job that stalls twice leaves its batch
  `importing` until it is confirmed again;
- a sign-in, or an update of another field, that crosses a suspension or a new
  password undoes it; replacing a list beside another replacement may leave a
  mixture of both; a role whose deletion is refused has lost its permissions;
- an edit of a customer, type, fund, mobilisation date, category or manager in a
  sheet never reaches a record that is there; a sync whose row throws in each
  attempt stays `running`, syncs that cross included; discovering the tabs of a
  sheet makes ignored ones active (integrations.service.ts:209); a scheduled sync of
  a complete row fails at the foreign keys of `system`; a report whose job fails
  stays `processing`;
- views that load only when idle stay `loading` when their load is cancelled; a page
  past the end of a list is shown empty; a refresh that ends after signing out
  restores the session; headers may carry another actor type than the session;
- a quoted cell of a CSV file that holds a line break is cut in two; a tenor such as
  0.4 is rounded to 0 after its sign was checked (csv-processing.processor.ts:262):
  the row reads valid, and the CHECK of the ledger refuses it at the import; the row
  numbers that errors show skip empty lines of the file.

**Bounds.**

- *Uploads.* One batch: handlers of different batches meet only at the UNIQUE
  reference key, which `upload_side` exercises inside one file and with
  `Outside`, and at deletions, which name sets of batches; the proofs cover any
  number. Two pods are what two runs of one kind need; three requests give an
  upload and two that race. Two lines distinguish first, last, good and failing;
  the recovery run has three, so that a crash can fall before, between and after
  INSERTs. Two crashes reach the stalled-twice path. A request is made at most
  once per client, which bounds the queues.
- *Back office.* `MCScenarios` lists the families of requests that share a row
  or a list: two racing and one that follows, or two links and two that redeem
  them. Requests on different accounts share nothing but roles. One restart
  (`MaxCrashes`) falls anywhere.
- *Syncs.* Two attempts where BullMQ is given three (`MaxTries`): one that fails
  and one that follows; a third starts over once more, and no property claims that
  a given number suffices. Sheets have at most `MaxLines` lines, two tabs, and one
  edit; at most one crash and one failing statement per scenario.
- *Migrations.* One pod and the script, one crash. The initial schemas are
  what the script leaves after each number of files, with nothing recorded.
  Production runs one API container (docker-compose), and two pods exceed the time
  given to a run (45.6 million states until something is lost); the theorems
  cover any number of pods and crashes.
- *Figures.* Three records distinguish a customer's first, middle and last; twelve
  kinds, from rows, lie at both ends of every band, and in part just outside; two
  more have a category that is not that of their days. Pages of two make lists of
  one to two pages.
- *Dashboard.* `MaxClicks` is three gestures (leave, change, return), `MaxErrors`
  one failing request; two users, so that a session can end under a load of the
  other, one of them with two actor types. Work queued for the workers is written once
  for each answer.

**Fairness.** Weak everywhere, and only for what the platform does by itself.
`UploadPipeline`: each pod's CSV run and import run, each request that is under way,
and the stalled-job check as a whole: workers poll their queue as long as a process
runs and are restarted, BullMQ checks for stalled jobs periodically, Node runs the
continuation of an await. `SyncPipeline`: the workers as a whole and the requests
under way as a whole, for the same reasons. `Migrations`: the steps of a pod, whose
container has `restart: unless-stopped`, and the script once started. `Dashboard`:
each load is answered, with a result or an error, and the 300 ms timer fires.
`BackOffice` and `Figures` state safety only. Users are not fair, and no mishap is.

## What is proved

For every value of the constants (batches, files, references, collation,
accounts, lists, sheets, tabs, feeds, pods, workers, requests, users, menus, and
bounds on mishaps and gestures), from the named assumptions on the constants
only, and from the hypotheses in the last column. The nineteen migration files
are not a parameter.

| theorem | module | states | if |
| --- | --- | --- | --- |
| `TypeCorrect` | `UploadTyping` | `Spec => []TypeOK` | |
| `OrphanFree` | `UploadPipelineProofs` | `Spec => []NoOrphans` | |
| `PostedConfirmed` | `UploadPipelineProofs` | `Spec => []PostedWasConfirmed` | |
| `ValidatedIsWhole` | `UploadPipelineProofs` | `Spec => []ValidatedIsComplete` | |
| `PipelineImplementsLedger` | `UploadPipelineProofs` | `Spec => ImplementsLedger` | every valid line has a reference |
| `ImportedIsPosted` | `UploadPipelineProofs` | `Spec => []ImportedMeansPosted` | users confirm as offered; no transient fault |
| `BackOfficeTypes` | `BackOfficeProofs` | `Spec => []TypeOK` | |
| `RowsAreAsked` | `BackOfficeProofs` | `Spec => []RowsAsked` | |
| `QuietReplacesExact` | `BackOfficeProofs` | `Spec => []QuietReplaceIsExact` | |
| `RemovedStayRemoved` | `BackOfficeProofs` | `Spec => DeletedIsFinal` | |
| `LiveLinksOverlapped` | `BackOfficeProofs` | `Spec => []OneLiveLink` | |
| `QuietWritesStay` | `BackOfficeProofs` | `Spec => []QuietWriteStays` | |
| `SyncTypes` | `SyncTyping` | `Spec => []TypeOK` | |
| `InvalidRowsAreTraced` | `SyncProofs` | `Spec => []InvalidRowsTraced` | |
| `CompletedReportsMatch` | `SyncProofs` | `Spec => []CompletedReportMatchesFile` | |
| `AnswersAreKept` | `SyncProofs` | `Spec => []AnsweredIsDone` | at most one crash |
| `RetriesPostOnce` | `SyncProofs` | `Spec => []RetryPostsOnce` | |
| `QuietSyncsMirror` | `SyncProofs` | `Spec => []QuietSyncMirrors` | |
| `RecordedInOrder` | `MigrationsProofs` | `Spec => []MarkedInOrder` | |
| `MigrationTypes` | `MigrationsProofs` | `Spec => []TypeOK` | |
| `ServedSchemaIsWhole` | `MigrationsProofs` | `Spec => []ServedIsWhole` | |
| `ValidRowsStayWhole` | `FiguresProofs` | `Spec => []ValidRowsAreWhole` | |
| `EveryCellReadsBack` | `FiguresProofs` | `Spec => []CellsReadBack` | |
| `TenorsFollowBands` | `FiguresProofs` | `Spec => []TenorFollowsBands` | |
| `EveryViewAgrees` | `FiguresProofs` | `Spec => []ViewsAgree` | |
| `EverySplitPartitions` | `FiguresProofs` | `Spec => []SplitsPartition` | |
| `QuietPagesCoverAll` | `FiguresProofs` | `Spec => []QuietPagesCover` | |
| `DashboardTypes` | `DashboardProofs` | `Spec => []TypeOK` | |
| `ScreensShowWhatIsAsked` | `DashboardProofs` | `Spec => []ShownIsAsked` | |
| `NothingStaleIsShown` | `DashboardProofs` | `Spec => []ReadAfterWrite` | |
| `HeadersFollowSession` | `DashboardProofs` | `Spec => []QuietIdentity` | |

**Uploads.** `TypeOK` is inductive because it also says where the cursors are: the
line to stage lies in the file, an importer in its loop has rows left. One lemma
per action, and frame lemmas for the parts an action leaves alone.

`NoOrphans` is inductive with the types: every statement that removes a parent
is refused while a child exists, every one that adds a child is refused without
its parent.

`PostedWasConfirmed` is not inductive. `ConfirmInv` follows a job from the request
to the record: a request past `enqueueImport` bears its job's number
(`RequestsInOrder`); each job waiting, stalled or run by a pod was added by a
confirmation of its batch by its user (`JobsConfirmed`), redelivery changing only
the stall count; the rows an importer holds were valid when selected, and validity
is a fact of the file (`RowsValid`); hence each record (`RecordsConfirmed`).

`PipelineImplementsLedger` maps each step of each process to one booking, one
approval, one deletion, or to none. It needs `ConfirmInv` (a booked fact was
approved) and `AllNamed` (a batch that goes is named by a delete). A valid line
without a reference is not kept from being booked twice, which is what
`upload_retry` shows; that is why the theorem excludes it.

`ValidatedIsComplete` rests on `OneCsvJob`: the csv job of a batch is in one place
at a time, with the request that adds it, in the queue, stalled, or with one
pod. Beside it no other run touches the staged rows except a delete, so they
grow in the order of the file (`StagedInOrder`), and what is finished is the whole
file; the count is the library's theorem on injections.

`ImportedInv` adds that a batch which was begun to be confirmed was parsed
(`ParsedFirst`, where the hypothesis on `ConfirmWhen` enters) and that a run of the
importer has each line either counted or still before it (`ImportsCount`). A
transient fault of an INSERT breaks the second, since the row-level catch passes
over it, and the hypothesis says so. The proof corrected the property: an
earlier form exempted only deletes of the batch itself, but deleting *another*
batch that holds the shared reference takes away the record that counted for
both.

**Back office.** A running request has before it the last statements of its method
(`Routed`), holds the lists it has still to replace (`Listed`), and has met whoever
runs beside it (`Overlapping`); what may stand next to what in a method is `First`,
`Follows` and `Stands`. The assumptions say that a request names an account that
exists in the model and that first links are well formed. On these,

- `ListsInv`: keys still to be inserted were asked for since the list was emptied,
  and a replacement that is alone has `rows` and `todo` add up to what it wants;
- `FiledInv`: every row that is removed, stored or held by a request is of an
  account that is there, so no INSERT meets a removed account, and a stale row
  without the mark matches no row that has one (`deleted_at IS NULL`);
- `LinksInv`: whoever is about to mail a link has met the request behind any other
  link of the kind that still works, because it revoked the rest;
- `TokensInv` and `QuietInv`: a request that carries a row it will write back has in
  it, for each field it does not set on purpose, what the last request that was
  alone wrote there.

**Syncs.** `Typed` says which fields a run has at each step, that its job is one
its queue may hold, and that its counts fit the lines it has passed. A step of a
worker changes no other run but to note that it was disturbed (`Same`, `Others`),
and a request has one job at most (`JobsApart`): these two carry the rest.

- `Traced`: each count of a run is covered by rows that its batch has by then.
- `Filed`: a run marks its report before it writes, and no other run works on it.
- `Promised`: an event or report that was answered is done or its job is there. With
  more crashes than BullMQ puts a stalled job back (`MaxStalledCount`, 1) the job
  is given up and nobody makes it again, hence the hypothesis.
- `PostedOnce`: hashes, references and ids are unique in `records`, a record's id
  was passed by its job before (`Known`), and a record of an API or database
  source says what its line does (`AsFed`).
- `Mirroring`: a run that is undisturbed has mirrored the rows it has passed
  (`Covers`), runs alone on its sheet (`RunsAlone`), and works on the rows the sheet
  has (`ReadsFeed`). Each step of anyone leaves a sheet as it was mirrored
  (`Intact`) or nobody trusts it any more (`Lost`). The attempt to prove this found
  the history too weak: a sync of another sheet with a reference in common was not
  counted as a disturbance. `SharedBy` is the correction; without it TLC finds
  `QuietSyncMirrors` violated by the second sheet of `MCSync`.

**Migrations.** `OrderInv`: every file before the one a pod is at is
recorded, because a pod passes over a file only when it read its mark
(`knows` is part of `marked`, and marks are never taken back) and leaves one
behind only when it recorded it. That two pods read their lists at different
times changes nothing. The first of the files that are left exists because the
natural numbers are well founded (`FirstLeft`).

`ServedIsWhole` is not inductive: a pod that finds a name in its way takes the
statement for applied and goes on, and whether the rest of that file is there
depends on who made the name and how far it came. What the proof uses of the
files is that a name that lasts is made by one statement (`OneMaker`, from
`Place`, a table of where each name is made) and that a file that may be left in
the middle has all that lasts in the one statement that cannot run twice
(`Repeatable`); both are checked statement by statement (`AllWritten`). On these,
until something is lost (`torn`), `Untorn` is inductive:

- what a process has made in its file is there (`Behind`);
- a process that is past a plain statement of its file finds nothing in its
  way any more (`Ahead`), since it is alone there (`Alone`): of two that ran the
  same plain statement the second would have failed (`FirstToPass`);
- a name that a plain statement makes is there only if its file is complete or
  somebody is on the way through it (`Begun`), and the same holds of a recorded
  file (`Passed`). For 0015, which can be applied and find its check missing,
  that is the absence of the check.

At rest nobody is on the way, so what a recorded file makes is there.
`Built` in `Schema` says what files leave of an empty database in one expression;
TLC finds it equal to running them one statement after the other.

**Figures.** Of a row without a failure, the customer, fund, tenor, date and amount
were given and were read, so that their defaults are never taken (`NothingMissing`); a later header for the same column
wins, and there is a latest (`LastPlace`). The assumptions say that rows are
sequences, that texts, dates and categories are not null, that the cells to be read
back are trimmed, since the code trims every cell, that kinds of records have the
columns of the table, and that ids are finitely many.

For cells of any length and content but line breaks, the file's text is followed
from character to character, with the place of each line in it (`ContentLines`,
`ContentPlaced`, `LineEnds`): where no cell holds a break, its lines are those that
were written. In a line, the pass is followed from place to place (`ReadSteps`,
`UpTo`). What a writer makes of a cell lies in the line (`LiesIn`): bare, or quoted
with each quote doubled, in which case it is known where each character went
(`PiecesPlaced`, `WrittenQuoted`). A pass that comes to it outside quotes leaves it
outside quotes, with the cell read (`ReadCell`); doubled quotes are told from the
last one because the line ends there or a comma follows. Then the comma trims and
closes the cell, which is the first of two (`LineReads`); the line of the columns is
such a line too.

A sum over a finite set is the number of units under its bars (`Units`,
`SumCounts`), and that there would be a smallest counterexample stands for the
induction over data that the prover lacks. Sums over disjoint parts are then unions
of disjoint sets: each view groups records by a key that none lacks, so that all
tell the same total, and the bands, sources and funds of a split leave nothing out
and count nothing twice. A list in order exists, by the same argument (a smallest
set without one would have a last element), and has each element once. A reader of a
quiet list has turned pages that hold the first so many items in that order, their
commissions added up, and knows the number and the sum that the whole list has
(`Quietly`); the last page is full or ends the list.

**Dashboard.** An effect whose dependencies did not change wants the same resource
with the same parameters (`DepsDecide`); hence what is shown, and the one request
that counts, agree with the screen through each render (`RenderKeeps`), answer and
handler (`SetKeeps`). The assumptions bound gestures and errors by natural numbers
and let a session start at a view of the menu. The proof of the types found that a
user without any view is sent to a path that is in no menu, which the type invariant
had left out.

**Only model-checked.** Liveness (`ConfirmedGetsPosted`, `NothingStuck`, `JobsEnd`,
`CalmSyncsEnd`, `ServesUnlessTorn`, `Settles`) is out of the prover's reach, and so
are the counterexamples of the four runs that expect one. Every other property that
a run checks is proved.

## What is not modelled

- A worker that loses its lock while still running (the lock lasts 300 s and is
  renewed): a job then runs twice at once.
- A statement that committed although its answer was lost, except the outbox
  INSERT.
- Uploads: that `outboxQueue` is consumed (the dispatcher is in `Exports`, with
  the events of syncs and reports); `POST /imports/confirm` with a key the client
  chooses; `ImportsService.runImport`, which nothing calls; expiry of keys, which
  no code enforces; deleting single investments or a customer's (in `SyncRequests`
  and `Figures`); several validation errors of one line are one INSERT;
  `POST /uploads/ingest` failing after the dashboard has deleted all uploads
  (App.tsx:5481), which leaves no data.
- Syncs: a sheet's record that came from a CSV batch; how columns are mapped and
  cells converted; signatures of the webhook; creating and testing a source.
- Reports: the five layouts, listing and downloading.
- Accounts: names and e-mail addresses, `login_attempts`, the read of
  permissions at sign-in, the permission guard; renaming a role.
- Figures: averages, percentages, top customers, the parts a commission is made
  of, iso weeks, one customer's history.
- CSV files: how text becomes words, a number or a date, the names of headers
  before they are normalised.
- Dashboard: rendering, forms, the permission matrix, the idle dialog's
  countdown.
- Validation, audit, jobs, notifications, health and mail: each is one statement
  or a read, with no protocol of its own.

## Plan

Done: every component of the inventory that has a protocol of its own, and the
theorems above.

Models wanted: iso weeks beside `Figures`; a worker that loses its lock while
it runs.

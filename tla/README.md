# Adarsh ID Panel: a TLA+ verification project

Adarsh ID Panel is a Django REST backend for printing identity cards: an
organization keeps tables of cards, moves each card through a workflow
(PENDING, VERIFIED, APPROVED, DOWNLOADED, DELETED), imports and exports cards
with Celery jobs, and lets desktop printing stations fetch them. This project
models the parts of it where requests, workers and crashes meet.

All paths below are relative to the repository (`src/` in `PROJECT.json`).
Where a package and a module of the same name exist side by side
(`apps/sandbox/services/` and `apps/sandbox/services.py`), Python imports the
package, and that is the code described here.

## 1. The modules at a glance

| module | what it is |
|---|---|
| `WorkflowRules` | statuses, actions and `TRANSITION_MAP` |
| `CardRows` | a row of `cards_card` and what each write does to it |
| `AtomicCards` | the promise: a table of versioned cards on which every operation is atomic |
| `CardLifecycle` | the code: cards, `CardUniqueValue`, `WorkflowHistory` and the requests in flight |
| `MCCardLifecycle` | instances of it for TLC |
| `CardLifecycleProofs` | proofs that hold for every interleaving of requests |
| `ExclusiveCardsProofs` | proofs for requests that do not overlap a save of the whole row, and the refinement |
| `JobRunner` | background jobs: rows, broker, workers, retries, cancellation, death |
| `JobRunnerProofs` | proofs about it |
| `ExportRun` | `process_export` and its attempts, beside requests that change the cards |
| `Reprints` | reprint requests of staff and stations, with the copies they hold |
| `ImportRun` | `process_xlsx_import`, its chunks, rows, numbers and retries |
| `AtomicImages` | the promise of the media service: each operation on the images of a card at once |
| `MediaFiles` | upload, replacement, deletion and restoration of images |
| `SandboxOverlay` | a sandbox session over real cards |
| `MCPipelines` | instances of these five for TLC |
| `AtomicPrints` | the promise of the desktop print request: one step, all or nothing |
| `PrintLocks` | the code: row locks taken one by one, waiting, deadlock, abort |
| `FeatureFlags` | a feature flag, its overrides and the cached answers |
| `Backups` | creation, verification and retention of backups |
| `Notifications` | creation, delivery, reading, archiving and purging of notifications |
| `MCPlatform` | instances of these four for TLC |
| `ExportRunProofs`, `PrintLocksProofs` | proofs about the module of that name |
| `IntakeProofs` | proofs about `ImportRun` and `MediaFiles` |
| `PipelinesProofs` | proofs about `Reprints` and `SandboxOverlay`, and about the five of `MCPipelines` together |
| `PlatformProofs` | proofs about `FeatureFlags`, `Notifications` and `Backups`, and about the four of `MCPlatform` together |

`WorkflowRules` holds the transition map for all modules in which cards move.

## 2. Inventory of the system

State, operations, interactions, what is hard, and what would make each part
correct. The hazards with their lines are in `PROJECT.json`.

**cards** (`apps/cards`). State: `cards_card` rows (status, version, JSON data,
deleted_at) and `cards_card_unique_value`, one row per value of a unique field,
with a unique index on (table, field, hash). Operations: create, edit
(compare-and-set on the version), bulk edit, soft delete. Hard: the Card object
is fetched by the view outside the transaction that writes it; delete is two
autocommitted statements. Correct when accepted edits survive, an edit is merged
into the data its author saw, and no two live cards share a unique value, but
for those an import or a reprint has let in.

**workflow** (`apps/workflow`). State: the status of each card and
`WorkflowHistory`. Operations: `transition_card` for seven actions,
`bulk_transition`. Writes the cards and their unique values. Hard: it saves all
columns of a Card fetched earlier, without a lock or a version check, and so do
image operations and reprints, with no history entry; restore relies on the
history. Correct when nothing is printed unapproved, the history explains the
status, and restore gives back what deletion took.

**desktop_sync** (`apps/desktop_sync`). State: API keys, sync sessions.
Operations: request_print (locks each row, APPROVED to DOWNLOADED),
replace_image, start and complete a sync, revoke a key. Competes with the
workflow for cards. Hard: two stations lock the same cards in opposite orders.
Correct when a request prints all its cards or none, each once per approval, and
every request ends.

**jobs** (`apps/jobs`). State: `job`, `job_event`, `job_log`, the broker's
queue. Operations: create, start, progress, complete, fail, cancel, and the task
`run_job_task` with three retries. Called by mediafiles, imports and exports.
Hard: every save but one writes all columns from a private copy; messages are
acknowledged when received; the temporary upload must outlive the retries.
Correct when one attempt runs at a time, COMPLETED means done or what is missing is on
record, a finished job stays finished, and jobs end.

**imports** (`apps/imports`). State: import and reupload sessions, error rows.
Operations: preview, submit, process in chunks of 500 rows (one transaction
each), reupload images. Hard: a retry starts from the first row; cancellation is
seen between chunks; a value may be registered between its check and its insert;
errors of single images are swallowed.
Correct when display ids are distinct, COMPLETED means every row has a result, and
no row becomes two cards in one attempt.

**exports** (`apps/exports`). State: templates, sessions, artifacts. Operations:
start, process (build a file, store it, mark the cards DOWNLOADED). Hard: the
cards are read at the start and saved whole at the end, images are read between;
an archive skips what it cannot read. Correct when what is marked is what was
exported.

**mediafiles** (`apps/mediafiles`). State: files in storage, media rows,
references (unique per card and field). Operations: upload, replace, delete,
restore, clean up. Hard: storage and database commit apart; the card is saved
whole at the end; reprints, imports and edits write the same columns. Correct
when no row lacks its file, no image is lost, and a card names what its references do.

**reprints** (`apps/reprints`). State: reprint requests, drafts, their history, and
the two counters of a card. Operations: request, approve, reject, print, by staff and
by stations. Hard: status checked on a copy, card saved from a copy, no lock.
Correct when nothing of a request happens before an approval and the counters
never claim more than the history.

**sandbox** (`apps/sandbox`). State: a session with expiry, and rows that overlay the
real cards with statuses, data, new cards and hidden ones. Operations: as on real
cards, and the resumption of an expired session. Hard: reads and writes without
comparing, kept apart by one UPDATE of the session's row. Correct when the
operations of a session are serial and the real cards are never written.

**pro** (`apps/pro`). State: feature flags with overrides behind a cache, maintenance
modes, client activation, impersonation sessions, backups. Hard: cache fill
racing invalidation; a backup is five statements and a file. Correct when
stale answers end.

**operations** (`apps/operations`). State: results of verifications. Operations:
verify all backups, delete old ones, simulate a restore, metrics. Hard: rows and
files go apart, three processes share them, and the storage swallows its errors. Correct when a backup the policy
keeps is readable, an old one goes, and a verification raises no false alarm.

**notifications** (`apps/notifications`). State: notifications, deliveries,
preferences. Operations: create from an event, deliver, read, archive, dismiss, sweep,
purge. Hard: the delivery task is sent before the commit it needs, to a queue the
documented workers do not read; sweep and recipients write the same rows. Correct when a notification arrives, and is
unread by nobody once archived.

**impersonation**. Sessions in which a PRO user acts as another: one row each.

**users, organizations, permissions, tables, fields, auditlogs, hardening,
settings**. Accounts and one-time passwords, CRUD, decisions, append-only
records, probes and throttles. No state machine beyond a row. `apps/features`,
`licenses`, `search` and `versions` hold no code to model. Four modules of
`workers/` do not compile (section 4). `.old Panel Code/` is the previous
application, not part of the program.

## 3. Cards and their workflow

### State

`CardLifecycle` has four variables of the system.

- `card[c]`: the row: status, version, data, whether `deleted_at` is set.
- `unique[c][f]`: the value card c holds in `CardUniqueValue` for field f. The
  hash is one-to-one on the values of the model.
- `history[c]`: its `WorkflowHistory`, oldest first.
- `req[p]`: what worker p is doing: the operation, the cards, what the client
  saw before sending it, and the Card objects (`copy`) it holds.

Two more only record what happened, for the properties: `unchecked`, the cards that
show a value an import or a reprint wrote without registering it, and `touched`, for
each edit under way, the cards an image or reprint step has saved since its client
read them.

### Actions

One database transaction is one action. A request that fetches a row outside
the transaction that writes it takes several actions, and others come between.

| action | code |
|---|---|
| `Create` | `CardService.create_card` |
| `Import` | one row of `_import_chunk_transaction`: a value that is taken is only warned of, and not registered |
| `ReadCards`, `FetchForUpdate`, `UpdateCards` | the client's list, the fetch in `partial_update` and `bulk_update`, `CardService.update_card` for one card or a batch |
| `Fetch` | the fetch in `transition`, `bulk_transition` and `destroy`, and of the card an image operation or a reprint step is for |
| `Move`, `Restore` | `transition_card` for one card or a batch |
| `SoftDelete`, `FreeValues` | the two autocommitted statements of `delete_card` |
| `SaveCopy` | the `card.save()` of `upload_image`, `delete_image`, `restore_image`, `approve_reprint_request` and `mark_reprint_printed`: every column of the copy, status included, with no version, no history and no `CardUniqueValue` |
| `RequestPrint` | `DesktopWorkflowService.request_print` |
| `Fail` | a refusal (403, 409, 400), a rollback, a worker that dies |

Why one transaction may be one action at READ COMMITTED: `update_card`'s
conditional UPDATE and `request_print`'s SELECT FOR UPDATE hold the row until the
commit, and what they do depends on nothing read earlier in the transaction
(`update_card` compares its older copy's version first). `transition_card` writes
from its copy alone, plus the history that restore reads. `bulk_update` fetches card
after card inside its transaction, the model all of them just before it: the
difference shows only if another request writes a card in between without raising
its version, which `Overlap = FALSE` excludes and which with overlap the same
window of `partial_update` already shows. A batch names each card once.
One case is not covered: with overlapping requests on one card, a transition's
writes to `CardUniqueValue` come before it locks the card's row, so another
transaction may commit between them. The properties about unique values are therefore
claimed only for `Overlap = FALSE`.

`Overlap = TRUE` is the system as deployed. `Overlap = FALSE` is the discipline
under which the code keeps its promise: no request fetches a card in order to
save its whole row while another request holds a copy of that card, and the
reverse. Ordinary edits still overlap each other freely there: that is what the
version check is for, and the runs show that it suffices.

Abstractions: a reprint step is fetched only for a card that was DOWNLOADED once, for only
then a request can exist; the rest of reprints and images is in their own modules. Imported
rows are inserted one by one, though a chunk commits them together: nobody can see them
before. Policies and validation are the nondeterministic `Fail`; values
are model values, an empty string and null are both `Blank`, a missing key is
`Absent`; display ids, audit rows, who and when are left out; the order of the
history is commit order (the timestamp is taken after the row is locked); the
signal that renames the legacy status ACTIVE is left out.

### Properties

- `PrintedWasApproved`, with its inductive form `ApprovalInvariant`: no order of
  stale transitions, prints, restores, destroys, image saves and reprints prints a card
  without an approval. Holds with overlap, because every copy was once a row.
- `StatusWasReached`: a live card is PENDING or in a status its history reached. That is
  what is left with overlap: a stale image save or reprint may take the status back,
  with no entry, but only to where it has been.
- `HistoryTellsStatus`: the history of a live card ends in its status.
  `Overlap = FALSE`: `docs/WORKFLOW.md` section 4 has it that every state change is logged, and
  a stale save of the row is one that is not.
- `LiveValuesRegistered`, `LiveValuesDistinct`: the index protects every value a
  live card shows, so no two live cards share one, but for the cards in `unchecked`: imports
  insert a duplicate with a warning and leave it unregistered, and the draft of a reprint is
  written without a look at the table. Such a card stays outside until its next edit or
  restore, which registers its values or is refused. `Overlap = FALSE`.
- `EditsSeeCurrentData`: the compare-and-set, with its fetch, its version check
  on the copy and its merge into the copy, is as good as an atomic edit by a
  client that saw the current data, but for images and reprint drafts saved in between
  (`touched`), which raise no version. `Overlap = FALSE`.
- `AcceptedEditsSurvive`: data changes by accepted edits, or by an image or reprint step
  that merges its own fields into the current data. `Overlap = FALSE`;
  violated with overlap.
- `ImplementsAtomicCards`: refinement of `AtomicCards`, with the variables `card` and
  `unchecked` mapped to themselves and all others hidden. `Overlap = FALSE`.
- `ApprovedDataLocked`, `RestoreGivesStatusBack`: what the docs and comments say
  and the code does not do (section 8).

## 4. Background jobs

`JobRunner` follows a job from the request that submits it: the temporary
upload, the row, the message, the task id; then `run_job_task` on a worker:
`start_job`, units of work with `update_progress` between them, clean up,
`complete_job`; an exception leads to a retry or to `fail_job`; `cancel_job`
works from the copy its view fetched; a worker may die at any step.

The message of an image job goes to the queue `images`, any other to `default`
(`QueueOf`); the workers read the queues `Consumed`. What they read is a matter of
deployment. `docs/DEPLOYMENT.md` and `README.md` start workers of the application
`config` that do not read `images` (run `jobs_image_queue`); the run `jobs` has
workers that read both. `deploy/systemd/celery.service` and the `Makefile` start
`workers.celery_app`, where `task_acks_late` is set, but `workers/celery_app.py`,
`queues.py`, `settings.py` and `task_routes.py` contain a literal backslash-n
outside a string and do not compile; the model is of the application `config`.

State: `job` (row), `events` (types of its JobEvents), `file` (temporary upload),
`committed` (units of work whose transaction committed), `view` and `cancel`
(the requests and the copies they hold), `queue`, `worker` (task and copy of each
worker), `skipped` (the images a reupload session counts as failed), and four that only
record what happened: `revoked`, `lost`, `refused` (imports whose session ended FAILED)
and `unremoved` (uploads the system would not remove).

An upload, a deletion of an image or an export is one unit of work; an import is
`ImportUnits` chunks in order, each followed by the check for cancellation, except
the last one when it is not full; a workbook without a header row (`blank`) has none and
returns at once (`Refuse`); a reupload has as many images, never looks at the status, and
goes on where an image matches no card or raises (`Skip`). `Removal` is `os.remove`
in its `try`/`except`/`pass`: the file goes, or stays without a word. `Retry` covers the soft time limit (an exception in the task), `Die`
the hard limit, `terminate=True`, a restart and memory exhaustion. `image` stands
for upload and replace, `import` for both imports, `export` for the four
formats. The export request stores no task id. Celery settings the code does
not set have their defaults (`acks_late` off, no redelivery).

Fairness: weak fairness of every worker's own next step (`Advance`), which is
that a running Celery process keeps running its task and an idle one takes
messages. None of the requests: a client may never cancel, and the submitting
process may stop between any two of its steps. No fairness of `Die`. Every step
of a task leads forward and retries are bounded, so weak fairness is enough.

- `OneAttempt`: at most one message or running task of a job.
- `CompletedDidWork`: COMPLETED only with every unit committed or, in a reupload, counted as
  failed; an import that was cancelled or had no header row is marked COMPLETED too, but its
  session says FAILED.
- `FinishedLeavesNoFile`: no upload after COMPLETED or FAILED, but one whose removal the
  system refused. Nothing is said of
  CANCELLED: the early return for a cancelled job removes nothing.
- `FinishedStaysFinished`: for image, delete and export jobs COMPLETED and FAILED stay,
  except for a cancellation that read the job before and then saves over its end.
- `PublishedJobsEnd`: an image, delete or export job that is published ends, unless its
  worker died or its task was revoked. Imports and reuploads are excluded because
  of the late save shown by `jobs_import_states`; violated when a queue is not read.

## 5. Exports, reprints, imports, images, the sandbox

These five modules are checked together by `MCPipelines`. Each models its own share
of the tables; the other writers of the cards are actions of the module
(`SaveExported`, `SaveWholeCard`, `CommitOtherSave`, `TakeValue`, `MoveProduction`, ...).

### `ExportRun`

State: the card rows (`exportCard`), for each card the session whose marking gave it its
status (`mover`), what another request holds of a card (`held`), the `ExportSession` rows, all files of a session (`filed`) and the one a
download streams (`newest`, the artifact stored last), and the task with the Card objects it
holds (`attempt`). A file is the text it shows of each card in it. `Files` says which files
an export of some copies may be: a document (PDF, DOCX, XLSX) shows every card; a ZIP
archive any part of them, since all it holds of a card is its images, and `ZipRenderer`
skips an image it cannot read. Images are not part of the text: the renderers read them from
`MediaReference` as they go.

| action | code |
|---|---|
| `StartExport` | `ExportSessionViewSet.create` |
| `BeginExport`, `ResolveCards` | `process_export` up to `_resolve_cards` |
| `StoreArtifact` | rendering and `_store_artifact` |
| `RefreshCard`, `MarkDownloaded` | one turn of the loop in `_mark_downloaded`: the status is refreshed, then the object is saved by `transition_card` |
| `FinishExport`, `EndExport` | the session COMPLETED, the job completed |
| `RaiseExport`, `StopExport` | an exception and the retry of `run_job_task`, the death of the worker |
| `EditExported` | an edit: its version check makes it atomic |
| `ReadExported`, `SaveExported` | any other request that reads a card and later saves all of it: a transition, deletion or restore, or an image operation or reprint step, which leaves the status as its copy had it |

The three properties speak of exports to documents. `MarkedWasFiled`: a card an export moved to
DOWNLOADED is in a file of that export. `CompletedFileHasMarked`: the file a COMPLETED export
hands out has every card it moved and nobody has moved since (an export of the cards of one status
does not promise it: see section 8). `MarkedAsFiled`: the row of a card it marks shows the text the
document shows, since the old copy is written back over edits made meanwhile. That is what the
code does; the edit is lost (`cards_lost_edit` shows the same of transitions). For archives none of
this holds, and for images not the last: section 8.

### `Reprints`

State: the status of each request, the actions of its history, the columns of the
card that matter, the PRINTED rows per card, and what each server process (`clerk`)
holds. `FetchReprint` and `LoadReprintCard` are the fetch of the view and the first reads of the
transaction, `ApproveReprint`, `RejectReprint` and `PrintReprint` the three operations of
`ReprintService`, `FetchToSave` and `SaveWholeCard` any other request that saves the card.
`ReprintsApproved`: nothing of a request is printed or in the card's data unless its history
says APPROVED, although approvals and rejections of one request may both succeed.
`ApprovalCounts`, violated: `docs/API_REFERENCE.md` has the approval increment the counters, the
code leaves that to the print. What the code does keep, `PrintsRecorded`, is proved and in no run:
the counters never claim a print the history has not, and agree with each other; overlapping
prints may leave them too low.

### `ImportRun`

State: the counter of the table and the lock of its row, how many cards have each display
id (`issued`), the registered values (`taken`), the cards and results of each row, the
sessions, the tasks, and requests that create cards.

| action | code |
|---|---|
| `StartImport`, `BeginImport`, `NoHeader` | the request, `process_xlsx_import` to the header |
| `BeginChunk`, `CommitChunk` | `_import_chunk_transaction`, from the lock of the table row to its commit |
| `CheckRow`, `InsertRow`, `FailRow` | one row: the look-up of its value, then card and value |
| `CheckImportCancelled`, `FinishImport` | the check after a full chunk, the end |
| `DuplicateRaises`, `FailImport`, `StopImport` | a unique violation, another exception, a death |
| `BeginCreate`, `CommitCreate`, `TakeValue`, `FreeValue` | `create_card`; edits, restores and deletions of other cards |

A row is its value of one unique field. `DisplayIdsDistinct`, `CompletedHasAllRows`,
`RowsOncePerAttempt` (a retry repeats the rows of committed chunks, so "once" cannot be
promised) and, violated, `DuplicatesDoNotCrash`.

### `MediaFiles`

State: the media rows, the files, the active reference of each field, the image each field
of the card's data names, and the operations in flight. An operation fetches the card,
an upload stores its file (`StoreImage`), the transaction reads the active reference
(`LookUpReference`) and commits (`CommitImage`, `CommitDelete`): the unique index on (card,
field) refuses a second reference; `LockedImage` is the row lock a restoration takes with its first
statement. Two more operations write the same columns. `CommitApproval` is
`approve_reprint_request` with an image in its draft: the field shows that image from now on,
whatever field it is of, and the image replaced goes to the trash, even if it is the same one;
nothing takes the new one out of the trash (`drafted` remembers it). A draft with several images is
several such operations. `CommitOtherSave` is every other save of the card: an edit that names any
image or none in an image field, or a transition (`edited` remembers the fields it changed). The
placeholders an import writes name no image, as a field of a new card does here.

`NoImageLost` and `RowsHaveFiles` hold with operations that overlap in any way,
`CardShowsReferences` when they do not (`overlap`, chosen at the start), because the card is
saved from an old copy, and for the fields no other save changed last. When they do not
overlap, the service also implements `AtomicImages` (`ImplementsAtomicImages`): a field shows the
image of its active reference, and the image it showed before goes to the trash in the same step.

### `SandboxOverlay`

State: one session with the lock of its row, the real cards, and the overlay: status, edits,
hidden cards, history. `FetchSession`, `RefuseExpired` are the authentication of the view,
`TouchSession` the UPDATE every operation begins with, whose lock it keeps. What it reads
(`ReadStatus`, `ReadToEdit`) and what it writes (`CommitTransition`, `CommitEdit`,
`CreateInSession`, `DeleteInSession`) are apart, since nothing compares them.
`ImportSandboxRow` takes no lock. `SessionIsSerial`: the history of each card connects and ends
in the status shown, and answered edits stay.

## 6. Print locks, feature flags, backups, notifications

Checked together by `MCPlatform`, with their liveness.

### `PrintLocks` implements `AtomicPrints`

`request_print` locks its cards in the order the client sent them. State: the committed
statuses, the holder of each row lock, the requests with what they have yet to look at.
`LockCard` and `SkipCard` are one turn of the loop (a card that is not APPROVED or DOWNLOADED
matches no row, so nothing waits for it), `CommitPrint` the commit, `FailPrint` a
rollback, `BreakDeadlock` the deadlock detector of PostgreSQL, which aborts one of a
circle (external, like the waiting itself). `ImplementsAtomicPrints` maps the answer of a
committed request to the abstract `answer`, and hides locks and open transactions: a request
prints all its cards in one step or none, and what it answers is true at that step.
`PrintedOnce` counts prints against approvals. `PrintsEnd`: every open request ends.
Fairness: the server goes on with its requests, the database runs its detector.

### `FeatureFlags`

A check misses the cache, reads the flag, reads the override, stores the answer; a change
writes the row, clears its own entry, clears the others. Each of these is a
statement of its own, and nothing holds them together. `StaleIsExplained`: an entry that contradicts the rows is
one a change has still to clear, or one a check that overlapped a change stored, or one
whose change died (`tainted`). `StalenessEnds`: once no more changes are made, the answers
agree with the rows for good. Fairness: Redis drops an entry when its timeout has passed
(ten minutes, `cache.set(..., timeout=600)`), nothing else. The model is of the Redis
cache of `base.py`.

### `Backups`

`create_backup` statement by statement, with the handler that makes the session FAILED and
with its death; `verify_all_backups`; `run_retention_cleanup` with file and row going
apart, failures that are logged and skipped, death. Ages are the four classes the policy
tells apart, days are Sundays, firsts and others. `KeptBackupsReadable`, `NoFalseAlarm`,
`OldBackupsGo`. Fairness: the sweep runs daily (`ops-retention-cleanup` in the beat schedule of
`base.py`) and goes through its list; its faults are bounded, since a deletion that
always fails never succeeds.

The storage errs in two ways the service does not see (`erred`): `S3CompatibleStorage.exists`
answers False to any exception (or the read raises), and the verification fails
(`MisreadBackup`); `delete` swallows any exception, and the retention then deletes the row of a
file that stays (`LeaveFile`). So `NoFalseAlarm` says that a failed verification tells of a file
the storage lost or hid, or of a backup the retention may delete: what remains excluded is an
alarm from the race of verification and creation, or with a retention that takes too much.
`OldBackupsGo` speaks of rows.

### `Notifications`

Rows and task are written in one transaction, the task is sent before it commits (a worker
that is faster finds no row: `missed`). Deliveries are inserted for the users who accept
at the time of the task; recipients save whole delivery rows they fetched before; the sweep saves
the notification and updates its unread deliveries in a second statement; purging
deletes. `NoticesArrive`, `ArchivedIsQuiet`. One sweep at a time.
Fairness: workers take the tasks of the queue `notifications`, if there are any that read it. That is
an assumption on the deployment, the constant `QueueRead`, TRUE in the run. The worker of
`docs/DEPLOYMENT.md:134` (`-Q default,imports,exports`) and that of `README.md:107` do not read it,
and the unit that names it starts an application that does not compile (section 4): as documented,
no notification is delivered.

## 7. Runs and bounds

| run | instance | states |
|---|---|---|
| `cards_overlap` | 1 card, 2 workers, versions and history up to 4, no values, one image field, overlap | 5,415,369 |
| `cards_exclusive` | 2 cards (bounds 4 and 2), 2 workers, one field that is unique and an image, one value, no overlap, `Small` | 915,509 |
| `cards_lost_edit`, `cards_approved_edit`, `cards_restore` | 1 card | violations |
| `jobs` | 1 job of any of the six types, 2 workers, 3 retries, 2 chunks or images | 161,600 |
| `jobs_import_states` | the same | violation |
| `jobs_image_queue` | the same, nobody reads `images` | violation |
| `pipelines` | one of five modules at a time, constants below | 1,147,811 |
| `reprints_counters`, `imports_duplicates` | the same | violations |
| `platform` | one of four modules at a time, constants below, with liveness | 127,705 |

Bounds: `MaxVersion` and `MaxHistory` bound the versions and the history of each
card (in the guards of the actions, `HasRoom`); they stop the system, so deadlock
is not checked there, nor in `jobs`, where all jobs end. History of length 4
holds a verify, approve, print or delete and a restore, which is every status
pair of the map; two requests at a time are enough for each hazard (one holds a
copy, one writes), and a third would be another holder of a copy. `cards_overlap`
has no values because its properties do not mention data (`Blank` and `Absent`
documents remain). `cards_exclusive` needs two cards and one value for a clash. Its only field is
unique and of type IMAGE at once, so that an edit, a reprint and an image operation compete for one
value: the code knows fields of either kind, and a field of both is the harder case. Alone, its
first card goes all the way to a print and a reprint, with two workers; while the
second is about, the constraint `Small` bounds the version of the first by 2 and leaves out image
operations, which keeps the run in its time: the clash needs a creation or an import, a
deletion and a restore.
With one job, two workers are enough for two attempts at once; jobs do not
interact but through the workers. Symmetry: workers and values are
interchangeable and the runs that use it check no liveness.

`MCPipelines` and `MCPlatform` extend several modules that share no variable. A variable
`focus`, chosen in the initial state, says whose behaviour this is; the others keep
their initial state. So each module is checked on its own instance, in every behaviour of
its own specification, and the numbers of states add up instead of multiplying.
Nothing that fairness speaks of is enabled in a module that has not begun, so the fairness of
all four modules of `platform` can be assumed at once and is met by those that keep still.

- Export: two cards, all of them or the APPROVED ones, to a document or an archive, one edit of each,
  one retry: enough for an attempt that marks one card and fails, a change in between, and an
  attempt that selects others. One request saves copies, of the first card only
  (`OneSavedByOthers`); the second is only edited.
- Reprints: two requests for one card, one with a draft, two processes, two prints: every
  pair of operations overlaps.
- Import: three rows in chunks of two, so that one chunk is full and the last is not; the first
  two rows have the same value, so the second is a duplicate of the first in the same chunk;
  one retry, one creation; eight display ids (`MaxNumber`).
- Images: two images, two fields, two workers, three references ever made
  (`MaxReferences`): a replacement and a restoration of what was replaced. Images, fields and workers
  are interchangeable (`ImageSymmetry`: no liveness is checked in that run, and nothing else depends
  on them). Saves that change no reference (`CommitOtherSave`) are left out where operations overlap
  (`SavesAlone`): there, only properties of the rows are claimed, which those saves do not touch.
- Sandbox: one real card, one of the session, two requests: nothing else bounds it.
- Prints: two cards, both orders and a list that names one card twice, two requests, two
  approvals of each card (`PrintArrivals`).
- Flags: one organization and the global scope, one checker, two admins, two changes
  (`FlagChanges`): a check overlaps a change, and two changes each other.
- Backups: one backup, one verifier, two sweeps, two faults (`BackupFaults`): backups do
  not interact but through the lists of the runs, and the proofs are for any number.
- Notifications: one, for two recipients, one fault (`NoticeFaults`).
Deadlock is not checked there: all of them may come to rest.

The theorems below lift the bounds: they hold for every set of cards, jobs, web
and Celery workers, fields and values and for every bound.

## 8. Disagreements found

1. `cards_lost_edit`: a transition or destroy that fetched a card before an
   accepted edit takes the edit back, in spite of the optimistic locking.
2. `cards_approved_edit`: an approved card can be edited, `docs/WORKFLOW.md` says
   it is locked.
3. `cards_restore`: after `DELETE /cards/{id}` a restore does not give back the
   previous status, as a comment in `transition_card` says.
4. `jobs_import_states`: an import that is running or finished can go back to
   QUEUED, `docs/IMPORTS.md` gives the order of its states.
5. `jobs_image_queue`: the workers the docs start never take an image job.
6. `reprints_counters`: an approval of a reprint increments no counter,
   `docs/API_REFERENCE.md:367` says it does.
7. `imports_duplicates`: a value registered by another request between the check and the
   insert of an import makes the task raise; `docs/IMPORTS.md` says that duplicates must not
   crash it. (That section and `docs/DATABASE.md:139` also describe an upsert of duplicates; the
   code inserts them as new live cards, with a warning and unregistered: `Import` in
   `CardLifecycle`.)

Seen while modelling, without a run of their own:

- A retried export of the APPROVED cards no longer selects those the first attempt moved:
  the file it hands out lacks them (`CompletedFileHasMarked` excludes it; `MarkedWasFiled`
  says they are in the earlier file).
- `process_xlsx_import` has no handler: when a chunk raises for the last time, the session
  stays PROCESSING.
- Two overlapping restorations of one image leave it active and in the trash, and a reprint
  approval whose draft names the image already shown, or one in the trash, does too, without
  overlap (`drafted` in `MediaFiles`).
- The image operations and reprint steps save the status of an old copy with no
  `WorkflowHistory`, and `DELETE /cards/{id}` none either; `docs/WORKFLOW.md` section 4: "Every state
  change publishes an entry".
- A ZIP export marks DOWNLOADED the cards it could put no image of in the archive;
  `docs/EXPORTS.md:22` describes an archive with the metadata of the cards, which the code does not
  write. An image replaced while a document is rendered is in the document, while the key of the old
  one is written back into the card.
- `docs/operations/workers.md:12` speaks of up to 5 retries; `run_job_task` has `max_retries=3`.
- Nobody reads the queue `notifications` in the documented deployment (section 6).
- The desktop `replace_image` passes `mime_type=` to a method without that parameter.
- `create_backup_task` is sent by nobody. A FAILED backup that stored its file, and a file
  whose row went, are beyond the retention, which looks at COMPLETED rows only.
- The beat entry `sandbox-cleanup-expired-sessions` sends
  `sandbox.cleanup_expired_sandbox_sessions`; the task is registered as
  `sandbox.cleanup_expired_sessions`. `archive_and_purge_notifications_task` is in no schedule.
- The branch of `SandboxWorkflowService` for RESTORE is never reached: the map has no such
  key, so a restore is refused before. A card hidden in a sandbox can still be moved there.
- A sweep that dies between its two statements leaves an archived notification unread
  (`torn`), and no later sweep looks at it.

## 9. What is proved

The theorems about cards hold for every value of the constants that satisfies
`RowAssumption` and `CardAssumption` (unique fields are fields; the two marks for
no value differ from the values and from each other; bounds are naturals).

`CardLifecycleProofs`, for any `Overlap`:

- `TypeCorrect`: `Spec => []TypeOK`.
- `PrintedCardsWereApproved`: from `ApprovalInvariant`, which extends the claim
  to the copies requests hold and to what history a restore may read. Without
  the copies a stale save could bring in a status nobody approved.
- `StatusesWereReached` (`StatusWasReached`): from `ReachedInvariant`, which says the same of the
  copies and of the statuses a restore may read in the history.

`ExclusiveCardsProofs`, under `ASSUME ~Overlap`: the inductive invariant
`Exclusive` says that a request that saves a whole row is alone on its cards, that
its copy is then equal to the row, that an edit whose version still matches has
seen the current data, that a value is held once in the side table, that every
live value of a card outside `unchecked` is registered, and that a card between the two
statements of its deletion is not live. From it follow

- `UniqueValues` and `ValuesRegistered` (`LiveValuesRegistered`, `LiveValuesDistinct`),
- `HistoryExplainsStatus` (`HistoryTellsStatus`),
- `EditsAreCurrent` (`EditsSeeCurrentData`),
- `EditsSurvive` (`AcceptedEditsSurvive`),
- `Implementation` (`ImplementsAtomicCards`): every step is a step of
  `AtomicCards` or leaves the rows as they are,
- `VersionsRise`: the version of a card never goes back, and a step that leaves it changes the
  status only to delete the card, or the data only by an image or a reprint. It is proved of
  `AtomicCards` and carried over by the refinement.

`JobRunnerProofs`, for every set of jobs, workers and queues, every number of
retries and of units (`JobAssumption`). `JobInvariant` has four parts, each
inductive with those before it: `WellTyped` (types, and that messages and tasks
are of submitted jobs, without which a task could hold a row that does not exist),
`AttemptsAlone`, `CopiesAgree` (every copy has the type of its row) and
`OnlyIdleJobsEnded` (a job that says COMPLETED or FAILED has no message and no
task, so nobody is left to save an older status). `WorkDone` adds what the
progress of a task says of what it has committed, skipped or refused, and of the upload. They give

- `TypeCorrect` (`TypeOK`),
- `OneAttemptAtATime` (`OneAttempt`),
- `EndsStay` (`FinishedStaysFinished`),
- `CompletedMeansDone` (`CompletedDidWork`),
- `NoUploadLeft` (`FinishedLeavesNoFile`).

Two more are the safety half of `PublishedJobsEnd`. `NoJobForgottenAlways`, from `Accounted`:
a published job that is no batch and has not ended has a message at the broker or a task at a
worker, whichever retry or late save came between, unless the worker died with it (`lost`) or a
cancellation revoked it (`revoked`). `TasksGoForwardAlways`:
a step of a task finishes it or takes it further in a finite order, progress reports aside, and
a message is sent only by the request that created the job or by an attempt that ends, with one
retry more. What is left to the run is that the workers keep taking and doing (fairness).

`PrintLocksProofs` (any cards, requests and lists; `PrintAssumption`). `LockInv`: a
transaction holds the lock of every card it will answer for (`LocksHeld`), so what it saw
is still committed (`AnswersHold`); a request that has not begun or was rolled back has
nothing; and a card that is APPROVED was approved more often than printed (`ArrivalsLeft`).
Hence `PrintedOnceAlways`, and `PrintLocksImplement`: `CommitPrint` is the abstract
`P_Print`, the other steps of requests stutter. `WaitInv` adds that the card a request waits for
is held by another open request. With finitely many requests (each is a database
connection) `NoStall` follows: while a request is open, one can go on or there is a set of them
in which each waits for another of the set, which PostgreSQL finds and breaks; the proof takes
a smallest set of waiting requests that is closed under waiting for. `OnlyAbortsBreakCircles`:
such a set stays one until a member of it is rolled back. They are the safety half of
`PrintsEnd`.

`PipelinesProofs`: `ReprintInv` says that every copy of a request or card is as good as the row:
a copy that allows a step is of a request whose history allows it, since histories only grow,
and a copied counter is at most the number of prints. The code may count too few, when two
processes hold copies of one card; `PrintsCountedAlone` shows that this is the only way: under
`OneHolder` both counters are what the history says. (`OneHolder` is an assumption on
behaviours, that the code does not enforce.) `SandboxInv`: a request that has touched the session
holds its lock, so what it read is still what the rows say; a card that is not there has no
history. The lemma `PipelinesCompose` is bookkeeping: a behaviour of `MCPipelines` is one of a
single module, so what is proved of each module holds of what the run checks;
`PipelinesTypeCorrect` needs it. Neither says anything of the modules working together.

`ExportRunProofs`: `ExportInv` ties the copies of an attempt to the newest file (what is
still to be marked is in it, with that data, in a document), `mover` to the files, and says that a card already
marked is selected again by a retry and filed again (`StillShown`).

`IntakeProofs`: `ImportInv` says that an open chunk or creation holds the table lock and counts on
from the committed counter, that no id above the counter is issued and none twice, that the rows
up to `done` have results, and that a row after `done` has had at most one card for each
earlier attempt. `MediaInv` is the two claims with what an operation relies on until it commits:
the file of an upload is stored, the image to restore exists. `AloneInv` adds, for
`overlap = FALSE`, that the copy of the one operation under way is the card's data and
the reference it found the current one, and that only drafted images are active and in the
trash. From it, `ImagesAtomicAlone`: `MediaFiles` implements
`AtomicImages`. No run checks that refinement.

`DuplicatesRaiseInGapOnly` says how narrow the disagreement of `imports_duplicates` is:
in behaviours in which nobody else takes a value between the check of a row and its
insert (`NoneTakesInGap`), no import ever raises on a duplicate, whatever the workbook repeats,
whatever other imports and creations do and however often the task is retried. `GapInv`
holds because imports and `create_card` have the lock of the table; `TakeValue`, the edits and
restores that take no such lock, is the one step the hypothesis speaks of.

`PlatformProofs`: `FlagInv`: a checker no change has overtaken holds an answer the rows still
give; `StalenessHasCauseAlways` adds that a fresh answer turns stale only by a change of the
rows or by the store of an answer that a change overtook. `NoticeInv`: only the notification
between the two statements of the sweep may be archived with unread deliveries.
`DeliveredExactlyAlways`, from `DeliveryInv`: while a notification is there, it has
deliveries for exactly the users its finished task had read. `BackupInv`: each process knows
how far it is (`BackupSound`, `SweeperSound`, `VerifierSound`); in particular a sweep only ever holds backups the policy does not keep,
for ages only grow. `DeletedLeavesNoFileAlways`, from `GoneInv`: the retention deletes
the file before the row, in every run and after every death, so a row that went leaves no file,
but the one of a creation that died between COMPLETED and its artifact, or one whose deletion
failed in silence (`erred`). `PlatformComposes` (a lemma) and `PlatformTypeCorrect` are for
`MCPlatform` what the two above are for `MCPipelines`.

These are stated in the modules and checked by no run: `PrintsRecorded`,
`ImplementsAtomicImages`, `VersionTells`, `NoJobForgotten`,
`TasksGoForward`, `CircleOrAdvance`, `CirclesHold`, `StalenessHasCause`, `DeliveredExactly`,
`DeletedLeavesNoFile` and `PrintsCounted`.

Only model-checked: `PublishedJobsEnd`, `PrintsEnd`, `StalenessEnds`, `OldBackupsGo` and
`NoticesArrive`, which are liveness under fairness and out of the prover's reach (of the
first two the safety half is proved), and the runs that find a violation.

## 10. Not modelled, and why

- The legacy panel `.old Panel Code/` is four fifths of the lines of the repository
  (about 80 000 of 93 000) and no part of the program: nothing imports it. For this reason the
  models cover a small share of the lines in the tree and cannot cover a large one.
- Rendering of PDF, DOCX, XLSX and ZIP files beyond the question which cards are in them, image
  processing, storage backends but for the errors they swallow, health checks and throttles: pure
  input and output.
- The images inside exported files, and the export sessions of reprints.
- CRUD of organizations, users, fields, tables, templates, desktop keys and sync sessions:
  one row per request and no state machine. Permissions decide and keep nothing; audit
  logs only grow. Account sessions, one-time passwords, impersonation and maintenance modes are a
  few statements on one row; the two races there are listed as hazards.
- The management commands that remove old imports and exports, run by hand.
- Metrics, reports, the restore simulation, searches and previews, which only read.
- `apps/sandbox/services.py` and the modules of `workers/`, which never run.

A next step would be to let `ExportRun`, `Reprints` and `MediaFiles` work on one common card
with `CardLifecycle`, instead of on their own shares with stand-ins for each other.

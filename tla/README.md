# SecureOps in TLA+

SecureOps is a set of FastAPI services behind nginx, one PostgreSQL database that
all of them use, a RabbitMQ queue and a React frontend. This directory holds
TLA+ modules that model the parts of it where processes, transactions, messages
and late answers interleave, the TLC configurations that check them on small instances,
and proofs, checked by TLAPS, that hold for every size.

Paths below are relative to the repository. `PROJECT.json` maps each definition
to the lines it models.

## 1. The system

| Component | State it keeps | Operations | Talks to |
|---|---|---|---|
| order-service | tables `orders`, `order_items` | create, approve, reject, list | inventory (HTTP, while it holds a row lock), audit |
| inventory-service | table `products` | create, update, set stock, delete, internal deduction | audit |
| report-service | table `jobs` | request a report, list, download | RabbitMQ (publishes), audit |
| worker-service | table `jobs`, volume of report files | consume, write the report, complete or fail the job | RabbitMQ, audit |
| auth-service | `users`, `auth_codes`, `revoked_tokens`, `oauth_states`, RBAC tables | register, verify, login, second factor, reset, OAuth, logout, user administration | SMTP, GitHub, audit |
| file-service | table `secure_files`, vault directory, live export | upload, list, view, download, verify, delete, periodic export | audit |
| audit-service | `audit_logs`, `notifications`, `dismissed_security_alerts`, `system_settings` | record, derive notifications, read, dismiss, delete, risk scores | Telegram |
| simulation-service | `simulation_runs` | start a scenario, history, clear | the gateway (probes) |
| shared | — | `get_db`, `send_audit_event`, configuration | — |
| frontend: session | tokens in `localStorage` and `sessionStorage`, state of `AuthProvider` | check of the stored token, login in steps, OAuth callback, account setup, expiry, logout | auth-service; every page reads the token |
| frontend: pages with lists | the list, its filter, spinner, ids of disabled rows, flags of forms | load, filter, refresh, action on a row, submit | every service, the session |
| frontend: Attack Simulation | runs shown, scenario that runs, verdicts, timers | run one, run all, poll, refresh, clear | simulation-service |
| nginx, docker-compose | — | routes, rate limits; one container per service, no restart policy | — |

What makes the behaviours hard, and what makes each part correct:

* **Orders and stock.** An approval spans two services and two transactions with
  an HTTP call of at most five seconds between them. Requests run in threads;
  PostgreSQL runs them at READ COMMITTED, so only `FOR UPDATE` and the row locks
  of UPDATEs order them. Correct: stock is never oversold or lost, an approved
  order had its whole cart deducted, once; a rejection stands; every request ends.
* **Reports.** The row is committed before the message is published, without
  confirmation; the worker acknowledges after the work, so a message may come
  again. Correct: a completed job has a whole report, no job is forgotten, a job
  whose message was acknowledged no longer changes, queued jobs end.
* **Accounts.** Codes are rows read and written without locks. Correct: a code is
  used once, wrong guesses are counted, a token follows a password and a second
  factor, a logged-out token is refused.
* **Files.** A file and its row cannot change in one transaction, and every request
  and a periodic task rewrite the same export without a lock. Correct: an active row
  has its file, a deleted file is gone, a download is what was uploaded, no file is
  called damaged that is not, and the export follows the table.
* **Audit.** Events are sent once, after the fact. Correct: each recorded event
  gets its notification at most once; dismissed and deleted entries stay away.
* **Session.** No request of the frontend is cancelled: an answer is applied when it
  comes, by the function that waited for it, to whatever is stored by then. There are
  two storages, older keys, a second tab and, on the development server, effects that
  run twice. Correct: the token and the user of the state belong together, a
  form sends one request at a time, only a refusal of the stored token sends the
  browser to the login page, the check of a session and a logout end.
* **Pages with lists.** Every page has several loads and actions under way at once
  and shares one spinner and one slot per kind of action among them; buttons kept by
  `useMemo` act with the filter of an older render. Correct: a form is sent once, a
  disabled row has an action under way, a spinner ends, the list shows the selected
  filter and the actions that were reported.
* **Simulation.** A run is a row that a background task may never finish; the page
  polls, and at the same time waits for its own run. Correct: one scenario runs at a
  time, the verdict is that of the page's own run, Run All ends, no run that has ended
  stays on the screen as running.

The hazards found are in `PROJECT.json` under `hazards`, at their lines, with the
properties that catch them or the reason why none does.

## 2. Modules

| Module | What it is |
|---|---|
| `StockLedger` | abstract specification: whole carts are deducted, then orders are approved |
| `OrderStock` | order-service + inventory-service + row locks + the call between them |
| `MCOrderStock` | carts and symmetry for TLC |
| `OrderStock_proofs` | inductive invariant, safety theorems, no circular wait, refinement of `StockLedger` |
| `JobBoard` | abstract specification: a job is worked on, and shown only with its whole report |
| `ReportJobs` | report-service + queue + worker-service |
| `ReportJobs_proofs` | inductive invariant, safety theorems, refinement of `JobBoard` |
| `FileStore` | abstract specification: stored files, and true answers about them |
| `FileVault` | file-service: table, vault directory, live export, event loop and threads |
| `MCFileVault` | symmetry for TLC |
| `FileVault_proofs` | inductive invariant, safety theorems, refinement of `FileStore` |
| `BrowserSession` | frontend: storages, `AuthProvider`, login pages, redirects, another tab |
| `MCBrowserSession` | the owners of two tokens for TLC |
| `BrowserSession_proofs` | inductive invariant, safety theorems, what the liveness rests on |
| `ListPages` | frontend: the thirteen pages that show a list of a service |
| `MCListPages` | symmetry for TLC |
| `ListPages_proofs` | inductive invariant and safety theorems |
| `ListPagesCurrent_proofs` | a page at rest is up to date |
| `SimulationLab` | frontend: Attack Simulation, with the runs of simulation-service |
| `SimulationLab_proofs` | inductive invariant, safety theorems, why Run All is finite |

Operators whose name ends in `_Something` after the name of an action (for
instance `OrderFree_NoForUpdate`) are mutants: the definition with a plausible bug.
No specification uses them. Substituting one for the definition it is named after
must break the property that `PROJECT.json` pairs with it, which shows that the
property depends on that line of the code.

### OrderStock

State: the tables (`status`, `cart`, `row`, `stock`); for each request slot of the
order-service that approves, where it is (`apc`), its order (`aord`), and the
deduction it called (`hpc`, rows still to lock `want`, rows locked `held`, what was
read `seen`); reject requests (`rpc`, `rord`); stock requests of administrators
(`spc`, `sprod`, `sread`, `sqty`); and two history variables, `deducted` (commits of
a deduction per order) and `unrecorded` (calls per order that took the cart, or still
might, when their approval lost the means to record it).

| Code | Actions |
|---|---|
| `create_order` | `CreateOrder` |
| `approve_order`, `get_order_for_update` | `BeginApprove`, `LockOrder`, `CommitApproval`, `ApproveFails`, `CloseSession` |
| `deduct_inventory_stock` | `SendDeduct`, `ReceiveOk`, `ReceiveFailure`, `ConnectFails`, `Timeout`, `ConnectionReset` |
| `reject_order`, `get_order` | `ReadForReject`, `WriteReject`, `RejectFails` |
| `deduct_product_stock` | `HandlerBegin`, `LockRow`, `SkipRow`, `RefuseDeduct`, `CommitDeduct`, `RefreshDeducted`, `RefreshFails`, `HandlerFails` |
| `create_product`, `update_product_stock`, `delete_product` | `CreateProduct`, `ReadForStock`/`WriteStock`, `ReadForDelete`/`WriteDelete`, `StockFails` |
| PostgreSQL, the containers (external) | `DeadlockVictim`, `OrderServiceCrash`, `InventoryCrash`, `DropReply` |

Decisions worth knowing:

* A handler locks its rows one at a time and in any order, because the query has
  no `ORDER BY`. A lock that is granted late returns the row as it is then
  (READ COMMITTED re-reads it), so `seen` is set by `LockRow`; a row deleted
  meanwhile drops out of the result (`SkipRow`).
* The handler runs on after its caller timed out or died; only a crash of the
  inventory stops it. That is why a request slot is reused only when its handler
  is idle again: `BeginApprove` on a slot whose handler still runs is the same as
  on another slot.
* The early return of an order already approved keeps the row lock until `get_db`
  closes the session, after the audit event: `CloseSession`.
* Any statement may fail, with the work done or not. A failure before the commit of a
  deduction undoes all of it (`HandlerFails`); one at the commit that was carried out
  or at `db.refresh` tells the caller of a failure though the stock is taken
  (`RefreshFails`); one at the commit of the approval leaves the order pending
  (`ApproveFails`). The retry of such an order deducts again: nothing in the code
  prevents it, and `unrecorded` counts how often that can be.
* SQLAlchemy sends no UPDATE for an attribute set to the value it had; `WriteStock`
  therefore compares with what was read, and does not wait for the lock then.
* `update_product` is left out: it never writes the quantity.

### StockLedger and the refinement

`StockLedger` has no services, locks or messages: `Place`, `Deduct` (the whole cart,
from live products that suffice, once and once more for each call lost), `Approve` (only
after a deduction), `Reject`, `Restock`, `Withdraw`, `Forget` (the approvals of some
orders, all still pending, lose a call each). The mapping is the identity on its six
variables. It is honest about what the code does not promise: taking the cart exactly
once per approval would need an idempotency key in the call.

### ReportJobs

State: the row (`status`, `result`, `error`), the file, its download (`sending`: none, or
of a file left `whole` or rewritten, `torn`, since the checks), the POST request of each job
(`req`), its message (`msg`), which messages were put back (`again`), the worker
(`wpc`, `wjob`, and the row as it first read it, `loaded`), and `unmarked`, history of
jobs whose failure the database would not record.

| Code | Actions |
|---|---|
| `create_report_job`, `queue_report_job` | `CreateJob`, `RequestFails`, `ReportServiceCrash` |
| `download_report`, `FileResponse` | `CheckDownload`, `SendReport` |
| `publish_report_job` | `Publish`, `PublishLost`, `PublishFails` |
| `mark_job_failed` | `MarkJobFailed` |
| `main`, `handle_message` | `Deliver`, `Ack`, `LoseChannel`, `WorkerCrash`, `WorkerStart` |
| `process_report_job` | `LoadJob`, `StartJob`, `StartFails`, `OpenReport`, `WriteReport`, `WriteWithoutRows`, `WriteFails`, `CommitJob`, `CommitAborted`, `CommitFails`, `ReloadFails` |
| `set_job_failed` | `SetJobFailed`, `SetJobFails` |

Decisions worth knowing:

* There is one worker: `docker-compose.yml` names its container, and
  `prefetch_count=1` gives it one message at a time.
* `safe_rows` swallows a failed query without a rollback. PostgreSQL then refuses
  every further statement of that transaction, the commit included, so a job whose
  query failed does end as failed (`WriteWithoutRows`, `CommitAborted`), with a file
  that says the data is missing. `DownloadServesReport` depends on that.
* The commit and the read of `job.requested_by` for the audit event are in one
  `try`: when that read fails a job that was committed as completed is marked failed
  (`ReloadFails`).
* A download checks the row and hands the path to `FileResponse`, which reads the file
  after the handler is done. `write_text` empties the file before it fills it
  (`OpenReport`, `WriteReport`), so a download under way when a redelivered message runs
  the job again may send a part of the file. That is the one exception in
  `DownloadServesReport`; no download starts meanwhile, because the job is shown as
  processing from before the file is opened. Each job has one download at a time.
* `PublishFails` covers both an error before the message left and one after the
  broker had it. Messages that `load_message` refuses are acknowledged without a
  change of state; the report-service publishes none.

### JobBoard and the refinement

`JobBoard` has no queue, message, file or process: `Ask`, `Accept`, `Refuse` (the
request fails and its job is marked) and `Abort` (requests die with their service);
`Take`, `Work`, `Excuse` (the failure could not be recorded), `Settle` and `PutBack`. A
job's status and the report behind it change in one step. The mapping: the report is the
file of a completed job that has a path (what a download that starts would find; one that
is under way is not on the board, `DownloadServesReport` is about it); the job in hand is the worker's;
settled are the jobs whose message was acknowledged; excused are the `unmarked` ones.
That the board shows a job as completed only with its data, although the worker writes
the file before the commit and may write it again after a redelivery, is the heart of
it. It is honest about what the code does not promise: a job may be taken and decided
more than once, a settled job may still be refused by its own request while that is
unanswered, and a job may stay in hand for ever.

### FileVault

State: the row and the encrypted file of each upload (`row`, `vault`), the export
(`export`, the copies in its directory; `manifest`; `zip`), the process (`service`);
for each actor where it is (`pc`), its operation (`op`), its file, the verdict or
content it has (`got`), and the local lists of `sync_live_export` (`snap`, `todo`);
and `cut`, history of files whose deletion ended between the unlink and the commit.

| Code | Actions |
|---|---|
| `lifespan`, `periodic_live_export_sync` | `Start`, `PeriodicSync` |
| `upload_file`, `audit_blocked_upload` | `Upload`, `WriteFile`, `WriteFails`, `CommitUpload`, `CommitUploadFails`, `RejectUpload` |
| `list_files`, `get_file` | `ListFiles`, `QueryList`, `GetFile` |
| `download_file`, `verify_integrity`, `verify_encrypted_hash` | `DownloadFile`, `VerifyIntegrity`, `IsFile`, `CompareHash`, `Decrypt`, `Vanished` |
| `delete_file` | `DeleteFile`, `Unlink`, `CommitDelete`, `CommitDeleteFails` |
| `sync_live_export` | `Snapshot`, `Glob`, `Prune`, `CopyCheck`, `Copy`, `CopyStat`, `CopyVanished`, `OpenManifest`, `WriteManifest`, `QueryFails` |
| `write_live_zip` | `OpenZip`, `WriteZip`, `ZipVanished` |
| every handler | `Answer` |
| disk, container (external) | `Damage`, `Crash` |

Decisions worth knowing:

* `upload_file` is `async` and does not wait once it has its input, and neither does
  the periodic task: both run on the event loop, one at a time, as the actor `Loop`.
  The other handlers are plain functions, which FastAPI runs in threads: `Threads`.
* A stored file is whole, in part or damaged. Encryption and the two hashes are
  abstracted to that: a file that is not whole fails either comparison. A file is
  one upload with a name of its own (a UUID), and `Files` are numbers because the
  queries order rows by their id.
* `is_file`, the read for the hash and the read for the decryption are three steps;
  so are the check of a source, the copy and the setting of its times, which fails
  when the source was deleted meanwhile or another synchronisation, from an older
  snapshot, removed the copy.
* The manifest and the archive are truncated and written again in place. When two
  actors have one open, what they leave may be `Mixed`.
* The second query of a synchronisation returns the records that its session holds
  with the status they were loaded with, so that `Listed` may name a deleted file.
* A synchronisation that raises ends a request with an error though its own change
  was committed, is swallowed by the periodic task, and ends the process at startup.
* Left out: `actions.csv` and audit events, which nothing reads back, the update of
  rows from versions without file keys, and failing writes of the export.

### FileStore and the refinement

`FileStore` has no requests, threads, directories or synchronisations: `Store` (row and
content in one step), `Unlink`, `Mark`, `Damage`, `Copy`, `Uncopy`, `Judge`, `Serve`,
`Forget`. The mapping: the content of a file is that in the vault once its row is
committed, the copies are those in the export directory, and an answer is the verdict an
actor has for its file, or the content it has read. So a verdict is true at the moment
it is found, though not necessarily when the response leaves; content is handed out only
if it is whole at that moment, and only after a first verdict; and a synchronisation,
with however old a snapshot, never copies a file whose row is deleted, because the row
is marked after the file is gone from the vault. It is honest about
deletions: they may lose the content and end without marking the row.

### BrowserSession

State: the token in each storage (`stored`) and under the keys of older versions
(`legacy`); `token`, `user` and `loading` of `AuthProvider`; the route (`page`) and
the form on it (`form`: its step and `isSubmitting`); the requests in flight
(`calls`: kind, the token sent, the answer, and whether the form that sent it is
still there, `here`); what the server thinks of each token (`issued`); and
`leaving`, a document that `window.location.assign` is about to replace.

| Code | Actions |
|---|---|
| `AuthProvider`, its first effect | `Load`, `LoadLogin`, `Init` |
| `refreshCurrentUser` | `RefreshOk`, `RefreshFails`, sent by `ProfileSaved` too |
| `completeOAuthLogin`, `OAuthCallback` | `OAuthCallback`, `OAuthOk`, `OAuthFails` |
| `loginUser`, `Login`, `AccountSetup` | `SubmitPassword`, `SubmitEmailCode`, `SubmitSecondFactor`, `SubmitNewPassword`, `SubmitAuthenticator`, `BackToPassword`, `FormOk`, `FormFails`, `LoginDone` |
| `logoutUser`, `handleLogout` | `LogoutUser`, `LogoutDone`, and `DataRejected` of the pages |
| `request` of the pages | `Ask`, `DataShown`, `DataRejected`, `ProfileSaved` |
| `notifyAuthExpired` | operator `NotifyExpired`, part of every refusal |
| `ProtectedRoute`, the router | `Redirect`, `Navigate` |
| auth-service, the other services, time (external) | `ServeOk`, `ServeReject`, `ServeLogout`, `IssueToken`, `Expire` |
| a second tab (external) | `OtherTabLogin`, `OtherTabLogout` |

Decisions worth knowing:

* `getStoredToken` looks at `localStorage` first, and copies a token that it finds
  under an older key to the present one: `TokenIn` and `Migrate`. `storeAuth` clears
  the present keys only; `clearStoredAuth` clears the older ones as well.
* The stored user is left out: it is written and never read back.
* Under `StrictMode` the development server runs the effects of a new document twice;
  `EffectRuns` is the bound, and `Effects` sends one request for each run.
* A form that unmounts does not take its request with it. Its answer still stores a
  session (`LoginDone`) but no longer touches the form (`here` is false).
* The services that only decode a token accept one that has been revoked, until it
  expires; auth-service refuses it. One state, `ended`, stands for both, and for the
  other services either answer is possible.
* `Load` waits until the session has been checked: reloading before that only repeats
  the check. What happens before a document runs is not modelled.

### ListPages

State: the page and whether it is shown; the selected `filter`, and the filter that
the memoised buttons of the table were made with (`rowsFilter`); the pause after
typing (`timer`); `isLoading`; `slots`, what the `useState` of the page that disables
its buttons holds (`row`, `check` and `form`); the `list` shown; the functions that
wait for an answer (`calls`, with the filter of the render they belong to); and the
history variables `done` (carried out by the service), `told` (reported as
successful) and `patient`.

The pages are records: when a new filter is loaded (at once, after a pause, never),
whether there is a refresh button, whether a refused token logs out, and the actions.
An action is a record: the slot that disables its button, where that button is (in a
form, in the list, in a table that is hidden while loading), whether `useMemo` keeps
it, what follows success, and whether a refused token logs out. The differences are
real: deleting a log changes the list without a load, generating a report loads twice,
requesting a product goes to another page.

| Code | Actions |
|---|---|
| mounting a page and leaving it | `Open`, `Leave` |
| the effect on the filter, with its `setTimeout` | `SetFilter`, `TimerFires` |
| `loadOrders`, `loadUsers`, `loadFiles`, ... | `Refresh`, `Show`, `LoadFails`, `Expel`, `Expelled` |
| `handleApprove`, `handleDelete`, `handleUpload`, ... | `Act`, `Answered`, `ActionFails`, `Wake` |
| the services (external) | `Serve`, `ReadList` |

Decisions worth knowing:

* A call that acts goes through `sent`, `served` and then, if it loads, `asked` and
  `read`, in one slot: the handlers await the load before their `finally`.
* The `finally` empties the shared slot, whoever holds it by then (`Released`).
* An action on a row that the list already shows as done is not repeated. For rows
  that is what the pages do (an approved order has no button); for forms and checks
  it bounds the number of times.
* What functions of a page that was left still do is not modelled: their
  `setState` has no effect. Not modelled either: the second request that Reports
  and SecurityCenter send with a load, local filters and sorting, dialogs, the contents
  of forms and the texts of messages.

### SimulationLab

State: the table (`runs`, `last`); the page (`runningId`, `isRunningAll`, `results`,
`history`, `loadingHistory`, the pause of its polling `timer`); the functions under
way: `handleRunSimulation` and `handleRunAllScenarios` (`runners`), `fetchHistory`
(`fetches`) and `handleClearHistory` (`clear`); and the history variable `missed`.

| Code | Actions |
|---|---|
| mounting, reset, refresh, clear | `Remount`, `ResetLab`, `RefreshLogs`, `ClearHistory`, `HistoryCleared`, `ClearFails` |
| `fetchHistory`, the effect that polls | `Poll`, `FetchShown`, `FetchFails` |
| `handleRunSimulation`, `handleRunAllScenarios` | `RunSimulation`, `RunAllScenarios`, `Started`, `RunFails` |
| `waitForRunCompletion` | `Wait`, `Completed`, `NotCompleted`, `GiveUp` |
| simulation-service | `ServeRun`, `ServeHistory`, `ServeClear`, `UpdateRun`, `OtherRun` |

Decisions worth knowing:

* The row is committed as running before the scenario is looked up and before its
  probes run, and no step of the service finishes it when one raises or the process
  restarts: `UpdateRun` is never owed.
* A run ends as protected or vulnerable; the five probes are abstracted to that.
* Functions of a page that was left go on. All they still change is the table, as
  another administrator may (`OtherRun`); the clearing they sent is `clear = "left"`.
* `OtherRun` also stands for a scenario that the service does not know.

## 3. Runs

| Run | Instance | Shows |
|---|---|---|
| `order_safety` | 2 orders, 2 products, 2 approvers, 1 rejecter, 1 stock administrator, carts {1+1, 2+0}, 1 fault, 1 edit | `TypeOK`, `StockNeverNegative`, `ApprovedWasDeducted`, `DeductedOncePerLoss`, `PendingUntouched`, `NoStandstill`, `DeductionWhole`, refinement `LedgerSpec` |
| `order_liveness` | 1 order, 2 approvers, 1 fault, `FairSpec` | `RequestsEnd` |
| `order_late_deduction` | 1 order, 2 approvers, 1 fault | violation of `ApprovedNotDeductedAgain` |
| `report_jobs` | 2 jobs, a download of each, 3 faults, `FairSpec` | `TypeOK`, `DownloadServesReport`, `CompletedErrorOnlyIfRefused`, `NoJobForgotten`, `QueuedJobEnds`, refinement `BoardSpec` |
| `vault_safety` | 1 file, the event loop, 2 threads, 1 fault | `TypeOK`, `ActiveHasFile`, `ServedIsUploaded`, `NoFalseAlarm`, `OnlyStoredExported`, refinement `StoreSpec` |
| `vault_export` | 2 files, the event loop, 1 thread, 1 fault, `FairSpec` | `ExportConverges`, `ListsConverge` |
| `browser_session` | 2 tokens, of an administrator and of a user, 2 requests in flight, effects twice, `FairSpec` | `TypeOK`, `SessionWhole`, `OneSubmission`, `ForcedOut`, `CheckEnds`, `LogoutEnds` |
| `list_pages` | 13 pages, 2 rows, 2 filters, 2 functions under way, effects twice | `TypeOK`, `FormOnce`, `DisabledRowBusy`, `SpinnerHasLoad`, `QuietPageIsCurrent`, `ReadYourAction` |
| `list_pages_liveness` | as before with 1 row, `FairSpec` | `PageResponds` |
| `simulation_lab` | 2 scenarios, 2 runs, 2 attempts, 2 runners, 1 fetch, `FairSpec` | `TypeOK`, `OneRunner`, `VerdictOfOwnRun`, `LabSettles` |
| `report_restart` | 2 jobs, 2 faults | violation of `StartsPendingJobs` |
| `report_stuck` | 2 jobs, 2 faults | violation of `ConsumedIsDecided` |

Three more properties are stated in the modules and proved, but in no run, because the
refinements cover them: `RejectedIsFinal` follows from `LedgerSpec`, `DeletedIsGone` from
`StoreSpec`, and `AckedIsFinal` from `BoardSpec` but for jobs whose request has not been
answered.

Why these bounds: two orders with the cart {1+1} lock the same two rows in
opposite orders, which is the smallest deadlock; with stock 2 the two carts compete,
so that one of them must be refused; one fault is a timeout, a crash or a database error (at the lock, at a
statement, at either commit, at the refresh), after which a second approval of the same
order runs, beside the first one's deduction if that still goes on; one edit
changes, creates or deletes a product under them. Quantities are {0, 2}, since `Init`
adds 0. With two jobs one waits while the other fails; three faults are a publishing
error, a failure and a redelivery of one job. In the vault one file with three actors
has every pair of operations about it, and a synchronisation, at once; two files with
two actors have a synchronisation that is late for one and right for the other. One
fault is a crash, a failing write, commit or query, or a damaged file. In the browser
two tokens are an old session and a new one, and two requests are the smallest pair of
answers that can be swapped; the refusal of one token while the other is stored needs
no more. A page with two functions under way has a load beside a load, an action beside
a load, and two actions on one slot; two rows make one overwrite the other's slot. Two
scenarios and two runs have Run All wait for its own run beside another one; the code
asks twenty times where the run asks twice, and the number only decides when it gives up.
The second runner slot is there so that `OneRunner` can be broken. Where there is
a proof it covers every larger instance, since the proofs bound nothing.

`CHECK_DEADLOCK FALSE` is stated because the systems may stop: when every order is
decided, every product deleted and every bound used up, nothing is left to do. The
vault never stops: its service can always be started again, or its timer fires. Nor
does the frontend: a user can always load or open a page, so its runs check deadlock.

Two approvers are interchangeable, and so are the orders, since `Init` lets a request
variable that was not assigned yet name any of them: hence the symmetry set in
`order_safety`; rows are interchangeable in `list_pages`. The runs that check liveness
have none.

### Fairness

`FairSpec` asks that a running request takes its next step (the services run requests
in threads that the operating system schedules) and that one which waits for a row
lock gets it, if the lock is released again and again (PostgreSQL queues the waiters
of a row): weak fairness of steps, strong fairness of lock acquisitions. In
`ReportJobs`, weak fairness of a running request and of a running worker, strong
fairness of the delivery of a message (the queue is in order). In `FileVault`, weak
fairness of the steps of the loop and of each thread, and strong fairness of
`PeriodicSync`: its timer runs out every five seconds and uploads do not keep the loop
busy for ever. Nothing is asked of users, administrators or faults, and not that anybody
starts a container again, since none has a restart policy: `QueuedJobEnds` makes an
exception for a worker that is down, and the convergence properties of the vault are
about runs in which the service stays up in the end.

In the frontend requests end, with an answer or an error, since the browser gives up at
some time: weak fairness of `Receive` for each slot. Nothing is asked of users, and not
that the pause after typing runs out, which every keystroke starts again: `PageResponds`
is about pages without such a pause. In `SimulationLab` pauses of the page run out
(`Poll`), fetches end, and a function that runs scenarios goes on; that one is strong
fairness, because it may wait for the single fetch slot of the instance, which the code
does not bound. No background task of the service is assumed to finish.

### Violations

The three violation runs each refute a sentence of the documentation; `PROJECT.json`
quotes it.

1. *A deduction after the approval* (`PART_4_6_STOCK_DEDUCTION.md:12`). An approval
   that timed out leaves its deduction running; a second approval deducts and
   commits; then the first deduction commits. The same trace with a rejection deducts
   stock for a rejected order (line 20 there).
2. *A job is started that is not pending* (`PART_6_REPORTS_RABBITMQ_WORKER.md:73`).
3. *A consumed job is neither completed nor failed* (`PART_6_5_FRONTEND_REPORTS.md:33`).

Not violations, but seen while modelling: rejecting an approved order does not give
its stock back; a message is reported as failed to the user while its job completes;
`reports.job.failed` is sent twice for one failure; a deletion whose commit fails leaves
an active row whose file is gone (the exception `cut` in `ActiveHasFile`), an upload
whose commit fails leaves a file no row names, and overlapping synchronisations make
requests fail that did their work; an order whose approval could not be committed, or
whose deduction was reported as failed by `db.refresh`, costs its cart again when it is
approved again (`unrecorded`); a download under way while a redelivered message rewrites
its report may send a part of it (`torn`). In the frontend: a refresh that fails late clears
the session of a login made meanwhile, and so does the `finally` of a logout; a refresh
that succeeds late shows a user again after the logout, without a stored token
(the protected pages then fail at their first request; `docs/PART_2_5_FRONTEND_AUTH.md:10`
describes the flow without overlap); after a network failure the OAuth callback shows an
error and leaves its token stored, so that the next document is logged in; an action on
a row whose button was kept by `useMemo` reloads the list with the filter of an older
render, which is why `QuietPageIsCurrent` is about pages where nothing overlapped (`patient`); a
second action on another row enables the first row's button while its request runs;
a poll of the simulation history that fails is the last one (`missed`); a run stays
running for ever when its probe raises; Run All counts a scenario as validated when it
gives up waiting or the run was deleted, and a single run as soon as it was started.

## 4. Proofs

All theorems are about any finite or infinite sets of orders, products, requests,
jobs, files, rows, filters and functions under way, any carts and quantities of natural
numbers and any bounds on faults. The assumptions are those of the modules: `CartsAssumption` (a cart maps products to
naturals and is not empty), `QuantitiesAssumption`, `JobsAssumption`,
`FilesAssumption` (a file is a positive number), `LoopAssumption` (the event loop
is not a thread), `NoneAssumption` (the value for nothing is no value),
`DefaultAssumption` (the first filter is a filter), `EffectRunsAssumption`
(a number) and, for the simulations, `LastAssumption`, `AttemptsAssumption` (both positive)
and `MaxRunsAssumption` (a number).

`OrderStock_proofs`: no property is inductive by itself. `StockNeverNegative` needs to
know that a handler's `seen` is still the quantity in the table, which is the locking
discipline (`RowLocks`: no row has two holders, and a held row is as it was read).
`DeductedOncePerLoss` needs a balance (`Balanced`): the deductions of an order, and with
them the calls that nobody waits for and that may still deduct (`Orphans`), are no more
than the calls its approvals lost, and one if the order is decided or an approval of it
may have a deduction to record (`Credit`). A lost call moves from the credit to the
losses, a retry starts without a credit, a commit of the approval keeps it
(`KeptBalance`, `LossBalance`, `PaidBalance`, `CommitBalance`), and a deduction is only
done by a call that is counted, as an orphan or as the one an approval waits for
(`DueDeduction`). It rests on an order having one lock holder and staying pending under
it (`OrderLocks`), and on no call being left over when a request starts (`Requests`).
`IInv` is the conjunction of these; each part has a lemma with one step
per action. From it follow `TypeOK` and the safety invariants, the action properties
(`WholeCart`, `RejectionStands`) and, with `LedgerStep`, the refinement
(`ImplementsLedger`). `NoCircularWait` needs one more fact, that a row which is still
wanted was there (`WantedRows`). Its argument: if no running deduction could take a step,
each would wait for a row that another one holds (`BlockedWaits`), so that all of them
together are a deadlock, and PostgreSQL would break it. The guards it is about
(`ApproverCanStep`, `HandlerCanStep`) are written out, since the prover has no ENABLED;
they are the guards of the actions of `Approver` and `Handler`. It is the safety half of
`RequestsEnd`.

`ReportJobs_proofs`: `IInv` adds what the worker's position says of its message
(`OneMessage`), how far a request has come (`RequestProgress`), that every path to the
acknowledgement decided the job (`AckedDecided`), that the job whose file is being
written is not shown as completed (`NotShownWhileWritten`), that a job with a result,
the only kind that is downloaded, runs again only after its message was put back
(`SecondRun`) and where an error on it comes from (`ErrorFromRequest`). For the refinement (`ImplementsBoard`) the lemmas
`SentByStatus`, `SentMoves`, `SentWithdrawn` and `SentStays` say that the
report on the board follows from the status alone: a completed job has its data
(`DownloadServesReport`), and a file is written only while its job is not shown.
`BoardStep` then takes the actions one by one. A redelivery is a second `Take`, which
`JobBoard` allows since the message is not acknowledged (`OneMessage`), and an
acknowledgement is a `Settle`, which needs `AckedDecided`.

`FileVault_proofs`: `IInv` adds that only the loop uploads and only threads delete
(`Places`), that an operation keeps its file (`HasFile`), that nobody has heard of a file
before its upload commits (`Known`, which is what keeps a deletion and an upload from
touching the same file), that at each commit the file operation before it is done
(`Prepared`), where a negative verdict can be (`Verdict`), and that no snapshot or list
of work names a file without a row (`OnlyStored`). `NoFalseAlarm` has its own argument:
a cause, once there, stays or turns into another (`ExcusedKept`), and `Settles` says that
a deletion which unlinked its file goes on, marks the row or is remembered in `cut`.
The refinement (`ImplementsStore`) needs to know who has a verdict: only an operation
that is past its checks, about a file, and a download that goes on to its second read
has passed the first (`Learned`). `ToldStays`, `ToldChanges` and `EndForgets` say what a
step does to the answers; `StoreStep` then takes the groups of actions: an upload is a
`Store` at its commit, with the content that the disk has left of it by then; a copy is
of an active file because what is still in the vault then has a row (`OnlyStored`) that
is not marked as deleted (`DeletedGone`).

`ListPages_proofs`: `Inv` is the typing, with what a call in each stage looks like
(`GoodCalls`), and four properties that are inductive together. Its lemma `Steps`
says once what all the actions have in common: a step of the open page touches one
function, or opens or closes the page. Each part then has one lemma over these cases:
`OneForm` (the function that belongs to a form is the only one, and holds the flag),
`DisabledRowBusy`, `SpinnerHasLoad`, and `RowsServed`, which says that a function which
loads after an action has its row among `done`, so that the list it reads contains
it: from that follows `ReadYourAction`.

`ListPagesCurrent_proofs`: `QuietPageIsCurrent` says something of a page at rest only, so
the invariant has to say what a page under way is on its way to (`Progress`): several
loads of a new page, all with its first filter and nothing reported yet (`Firsts`); one
function, which loads with the selected filter and has read every reported action, or
acts on a page that is up to date (`Sole`); or rest. That a memoised button then acts
with the selected filter is part of `Current`: the table was made again when the list came.

`BrowserSession_proofs`: a request that may become a session carries a token
(`GoodCall`), the session is whole, and the requests of the form on the screen are none
or one, as its flag says (`Once`). Lemmas state once what a stored login, a clearing, a
new document, a sent request and an applied answer do to these; the actions combine them.
`ForcedOut` follows: the two actions that set `leaving` were refused with a token,
and clear everything when it is the stored one. `Touches` says what any step does to the
requests: it replaces them with the document, leaves them, or changes one. From it
follow the safety halves of the liveness: a session that is being checked has a request
for the user in flight (`ChecksUnderWay`), and the request of a logout ends only with
everything forgotten, in React and in the storages, or with its document
(`LogoutsForget`). What TLC adds is that requests end.

`SimulationLab_proofs`: where a function stands bounds how often it asked (`Fit`), and
what it read of its own run is still so in the table, or the run was deleted
(`Linked`: ids are never used again). With `Lone`, that no second function runs,
`VerdictOfOwnRun` follows. `RunsGoForward` is the safety half of `LabSettles`: every
step of such a function takes it to a later scenario, a later attempt or a later stage
of one attempt (`Before`), or ends it and frees the buttons in the same step.

Only model-checked: the liveness properties `RequestsEnd`, `QueuedJobEnds`,
`ExportConverges`, `ListsConverge`, `CheckEnds`, `LogoutEnds`, `PageResponds` and
`LabSettles`, since the prover has no fairness or ENABLED. Every invariant, every action
property and every refinement of the passing runs is proved. For four of the liveness
properties what does not need fairness is proved as well: `NoCircularWait`,
`ChecksUnderWay`, `LogoutsForget`, `RunsGoForward`; `NoneForgotten` and `SpinnersLoad`
are the same for `QueuedJobEnds` and `PageResponds`. The convergence of the export has
no such half: it depends on a synchronisation that no other one overlaps, which no
state shows.

## 5. What is left

Not modelled:

* auth-service's own tables: codes and their counters, states of an account, OAuth
  states, roles. The hazards of its unlocked reads are listed; the frontend model takes
  every answer it may give. It would be the next module, with an abstract one-time code.
* audit-service: an append-only log that people read. Its derived notifications
  would be the module after that. Risk scores are arithmetic over the log with
  weights and dates, of which a reference definition would be a copy.
* nginx, docker-compose, the Telegram and SMTP clients: configuration and calls
  without state. What the models take from the deployment is said above.
* The bell of the top bar, registration and password reset: one request each, whose
  answer is shown. Layout, texts, charts, dialogs and the contents of forms.
* Functions of a list page that was left, beyond what they send.

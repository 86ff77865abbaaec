# ClassLite in TLA+

ClassLite runs English-teaching centers: classes, exercises, student attempts, grading with
AI help, and the billing that pays for it. It is multi-tenant: everything belongs to a
*center*, and PostgreSQL row-level security keeps centers apart. This directory holds TLA+
models of the parts where order, failure and concurrency decide whether it is correct, the TLC
configurations that check them, and machine-checked proofs about them.

Paths below are relative to `classlite-api/internal` unless they start with `classlite-`.

## 1. The system

### 1.1 Parts

| part | where | state it keeps | hard because of |
|---|---|---|---|
| AI job queue | `worker/dispatcher.go`, `store/queries/jobs.sql`, `service/ai_*_service.go` | `jobs`, a row per AI task, e-mail or tick | several workers and sweeps, crashes, retries, locks |
| AI-credit engine | `service/billing_service.go`, `billing_polar.go`, `billing_read.go` | `ai_credits` (two buckets), `ai_credit_ledger` | lazy reset, refunds that cross a month, a rollout flag |
| payment grace period | `service/billing_grace.go`, `worker/billing_grace_tick.go` | `subscriptions`, the tick jobs | a week of timers, late webhooks, recovery racing the downgrade |
| checkout, webhooks | `service/billing_polar.go` | `polar_webhook_events`, `billing_checkout_intents`, pending downgrade | duplicates, lost and reordered events, calls between transactions |
| plan gates | `service/billing_service.go` | `center_resource_baselines` | count and insert under a lock, grandfathering |
| attempts | `service/submission_service.go`, `assignment_service.go`, `exercise_service.go` | `submissions`, `assignments`, `exercises` | autosave, submit, close and edit at once |
| grading and release | `service/grading_service.go`, `auto_grade_service.go`, `worker/grade_release.go` | `grades` (append-only), `auto_grade_results` | concurrent graders, immutability after release, outbox |
| sign-in, sign-out, passwords | `service/auth_*.go` | `users`, `refresh_tokens` | rotation with reuse detection |
| invites, staff, students, enrollment | `service/auth_invite.go`, `staff_service.go`, `student_import_service.go`, `enrollment_service.go` | `invites`, `center_members`, `enrollments` | several transactions per operation, caps |
| classes, sessions, attendance, calendar | `service/class*.go`, `session*.go`, `attendance_service.go`, ... | one table each | little: one transaction per operation |
| files | `service/file_service.go` | `files`, object storage | quota, a network call under a lock |
| notifications | `event/bus.go`, `service/notification_service.go` | `notifications` | published in memory after the commit |
| session of a browser | `classlite-web/src/lib/{auth-refresh,api-fetch}.ts`, `service/auth_refresh.go` | one cookie, a `localStorage` stamp, a cache and a promise per tab | tabs racing for one rotation, lost answers |
| a student's draft | `classlite-web/src/features/{attempts,writing-attempt,quiz-attempt}` | four copies of the work, a chain of saves | every order of saves, submit, unmount, network |
| a spoken attempt | `classlite-web/src/features/speaking-attempt` | microphone, take, upload, two copies of a key | a recorder, uploads, saves and a submit that cancel and overtake each other |
| a teacher's exercise editor | `classlite-web/src/features/exercises` | document, debounce, chained PATCHes with a precondition | other writers, conflicts, saves of editors that are gone |
| search, analytics, dashboard, onboarding, settings, e-mail, Google, Gemini, HTTP, seed, landing site | | none, or rows of their own | - |

### 1.2 How they interact

    browser --HTTP--> handler --> service --one transaction--> PostgreSQL
                                     |                            ^
                                     | enqueue, charge            | claim | work | sweep
                                     v                            |
                                   jobs  <----------------- dispatcher loops
                                                               |        |
                            Gemini, e-mail <-------------------+        +--> refund (credit engine)
                                                               |
    Polar --webhook--> billing <--------- tick jobs -----------+
                          |
                          +--> credit engine (allocation, top-up)

* **Shared state.** An API call charges a credit and inserts the job in one transaction; the
  dispatcher settles the job and refunds the credit in another. Webhooks and ticks change the
  subscription, which sets the monthly allocation of the credit engine.
* **Locks.** Rows are locked by the statements that write them. Four advisory locks per center
  (`seat`, `class`, `enrollment`, `credit`) and one for the subscription serialise the billing
  operations; they are held until the transaction ends.
* **Scheduling.** Each process runs a pool of claim loops and one sweep loop. A claim commits
  *before* the work and the work runs in a transaction of its own: that is what makes a crash
  visible (the job stays `processing`) and what makes the sweep race a slow worker.
* **In the browser** one event loop runs per tab, so what interleaves is what each `await`, timer and
  message handler runs in between. Tabs share the cookie, `localStorage`, a `BroadcastChannel` and a Web Lock;
  a page shares with what it left behind (a promise chain, a beacon, a query-cache entry, a store) until it is reloaded.
* **A grace tick** is a job whose handler commits its own transaction, then a second one (the
  job's) inserts the next tick and completes this one.

### 1.3 What must hold

| part | promise | property |
|---|---|---|
| job queue | a charged job has its credit back exactly if it failed | `RefundIffFailed` |
| | one job in flight per submission; one worker per job | theorems `InflightUnique`, `DriverUnique` |
| | workers alone never deadlock: a circle of waits has a sweep that kept the credit lock | `DeadlockNeedsASweep` |
| | 1 + max_retries attempts; `exhausted` means that many | `ExhaustedClimbedTheLadder`, theorem `LadderRespected` |
| | an outcome is final; every job gets one, unless its center is left in a month nobody has rolled over | theorem `OutcomeFinal`, `EveryJobSettles` |
| | for its owner: ordered, called for, delivered or given up with the credit back | `ImplementsPaidJob` |
| credits | the buckets are what the ledger says, and the ledger adds up | `HeadIsAvailable`, `LedgerAddsUp` |
| | a purchased credit is never lost | `PurchasedNeverLost`, theorem `LossIsBounded` |
| | before the flag is on, jobs cost no purchased credit | theorem `DisarmedIsFree` |
| | all of it looks like one balance | `ImplementsBalance` |
| grace | each re-collect exactly once, each warning at most once; no downgrade early | `ImplementsGrace`, theorems `ScheduleKept`, `DowngradeOnTime` |
| | without reconciles no downgrade of a paying center; with workers that live and no month end either, a downgrade or a payment in the end | theorem `RecoveryIsSafe`, `EveryGraceEnds` |
| | under the same conditions the chain of ticks does not break | `ClockRuns` |
| attempts | an exercise a student has begun is not edited or deleted | `FrozenOnceAttempted` |
| | nothing begins or is submitted under a closed assignment | theorem `WrittenUnderOpen` |
| | requests at once do what they would do one after the other | `ImplementsCoursework` |
| | what was submitted stays, and is what every grade is for | theorem `SubmittedStays`, `GradedAsSubmitted` |
| | the locks are taken in one order | `LocksAcyclic` |
| grading | versions without gaps or doubles; graded exactly when there is one | `GradesInOrder` |
| | no override is lost, and the released grade has them all | `OverridesCount` |
| session | tabs of one browser never look like a thief, unless an answer was lost | `ReuseMeansALostAnswer` |
| | to the server all tabs are one client, that never refreshes what it has just refreshed | `ImplementsOneClient`, theorem `RotationNotBurned` |
| | no wait for a refresh is endless | `RefreshSettles` |
| draft | a submit seals what its final flush read, or something newer | `NoLossySubmit` |
| | "saved" is shown for what is on screen, or for the empty draft of a collected slot; every edit is sent or reported | `AckedIsShown`, `DirtyIsSent` |
| | reloads, remounts, navigation and a collected slot take nothing committed from the mirror, the draft or the page, but for what a mount after an error hides and what an edit made on a hidden or collected draft overwrites | `CommittedSurvives` |
| speaking | the microphone is open only while the page says that it records | `MicIsShown` |
| | a submit carries the take that was confirmed, or a later one, unless a save found the draft collected or was overtaken; it always ends | `SubmittedAsConfirmed`, `SubmitEnds` |
| | in the mirror, the draft and the page a key that was uploaded is never blanked or replaced by an older one | `KeySurvives` |
| editor | no writer's saved edit is overwritten, but in three windows | `LostOnlyInAWindow` |
| | the saves of an editor do not conflict with each other, unless an answer was lost; what is on screen is saved in the end | `ConflictIsWithAnother`, `EditsSettle` |
| | Retry always has something to send | theorem `RetryNeverDead` |
| release, gates (not modelled) | every version is announced in order; no count passes max(plan, baseline) | - |

The hazards of each part, with the line where they bite, are in `PROJECT.json`.

## 2. Modules

| module | what it is |
|---|---|
| `PaidJob` | abstract: what somebody who pays for an AI job is promised |
| `JobQueue` | the job queue, an implementation of `PaidJob`; `MCJobQueue` instantiates it, `JobQueueProofs` proves about it |
| `CreditBalance` | abstract: what the credit engine promises |
| `CreditLedger` | the credit engine, an implementation of `CreditBalance`; `MCCreditLedger`, `CreditLedgerProofs` |
| `GracePeriod` | abstract: what a center whose payment failed is promised |
| `GraceClock` | the grace period, an implementation of `GracePeriod`; `MCGraceClock`, `GraceClockProofs` |
| `Coursework` | abstract: the operations of students, editors and graders, one at a time |
| `Attempt` | attempts, exercise edits and grades, an implementation of `Coursework`; `MCAttempt`, `AttemptProofs` |
| `OneClient` | abstract: a browser as the server is to see it |
| `SessionRefresh` | tabs, cookie and the server's rotation, an implementation of `OneClient`; `MCSessionRefresh`, `SessionRefreshProofs` |
| `AttemptDraft` | a student's work in one tab and its way to the row; `MCAttemptDraft`, `AttemptDraftProofs` |
| `SpeakingAttempt` | the recorder, uploads, saves and submit of a spoken attempt; `MCSpeakingAttempt`, `SpeakingAttemptProofs` |
| `ExerciseEditor` | a teacher's editor, its autosave and the other writers; `MCExerciseEditor`, `ExerciseEditorProofs` |

### 2.1 JobQueue

A worker and a sweep are *processes with a transaction*: `tx[p]` holds the writes `p` has made
and not committed. Everybody else reads the committed `table` and `ledger`; a row in `Rows(p)` is
locked, so a second `UPDATE` of it is neither a hit nor a miss but waits. That is the isolation
level the code runs at (READ COMMITTED: the waiter re-evaluates its `WHERE status =
'processing'` after the first writer has committed).

| action | code |
|---|---|
| `Enqueue` | `EnqueueAIGrade` / `EnqueueGeneration`: insert, charge, unique index, in one transaction |
| `Claim` | `claimJob`, `ClaimNextJob`: oldest ready job of a center, its own transaction |
| `GenerateOk`, `GenerateRetry`, `GenerateFail` | `dispatch`, `handleFailure`, first statement of `terminalFail` |
| `Refund`, `RefundFails` | `refundCredit` -> `RefundCreditTx`, under the credit lock; without a user it fails once the month is over, and the transaction of the worker or of the sweep with it |
| `MonthEnds`, `Reset` | the clock passes `reset_at`; a call on behalf of a user rolls the month over (`applyLazyReset`) |
| `SweepBegin`, `SweepMark` | `sweepAllTenants` / `sweepStuck`: a snapshot, then row by row |
| `Commit` | the end of `processClaimed` / `runInTenantTx` |
| `Rollback` | panic, failed commit, death of the process; a failed statement of a handler, after which the transaction can do nothing more |
| `DeadlockVictim` | PostgreSQL's deadlock detector, between a worker and a sweep |
| `Tick` | time: backoffs run down, processing jobs age |

`due` are the centers whose month is over and not rolled over. An enqueue that charges does it as well; a refund does it only if somebody's id is at
hand, and the dispatcher has none (`ResetUnwritable`): the job then stays `processing` until the sweep tries again. The gate is armed throughout; what the flag changes is in `CreditLedger`.

What a handler writes for a result is abstracted to "it succeeded"; prompts and mappings are not
modelled. `attempts` is a history variable.

`PaidJob` knows no workers, sweeps, transactions, backoffs or retries, only what the owner of a job sees: `Order` (one in flight per
submission, with its charge), `Call` (of the provider, at most 1 + `MaxRetries`), `Deliver`, and `GiveUp`, which fails jobs and returns their
credits in one step, and calls them exhausted only if all calls were used. A rescheduled job is still in flight; a commit of a sweep gives up several jobs at
once; what a transaction that is cut had written was never seen. `JobQueue` implements it with `state <- PaidState`, `calls <- attempts`.

### 2.2 CreditBalance and CreditLedger

Every transaction that touches `ai_credits` or the ledger takes the lock (center, credit) before
it reads and keeps it until it ends, and centers share nothing. Hence one action per operation,
one center. `RolledUsed`, `RolledResetAt`, `RolledHead`, `RolledTotal` are what `applyLazyReset` leaves;
each operation starts from them exactly where the code calls it, and from the raw values where it
does not (`SetPlan`). A worker's tenant context has no user and cannot write the grant row of a
reset: `FailArmed` and `ExpireToFree` are disabled while one is due.

The ledger is kept as its newest `balance_after` (`head`) and the sum of its changes (`total`);
which jobs and orders have a row is `job`, `periodEnd`, `refunded`, `granted`. With the flag off
(`EnqueueLegacy`, `FailLegacy`) only the ledger is written, as the code does it.

`CreditBalance` knows neither buckets nor rows nor resets: a balance, the part of it that carries
forward, and who was charged, repaid and credited. It says: one credit per job, the expiring ones
first, never below zero; a credit comes back once; an order counts once. `CreditLedger` implements
it with `balance <- head`, `carried <- addon`.

### 2.3 GraceClock

One center, one `subscriptions` row, the tick jobs as slots `Ticks`. Webhooks are one action
each (they hold the subscription lock from beginning to end). A tick is one action until the
deadline. The downgrade is three (`ExpireRead`, `ExpireUpdate`, `ExpireCommit`), because between
reading `past_due`, writing the row and taking the credit lock another transaction can come in:
the reconcile of a paid checkout (`ReconcileLock`, `ReconcileApply`) takes the credit lock only. After
its own transaction a tick rereads the row without a lock (`Reread`) and inserts the next one with its
completion (`Complete`), whatever has happened to its row in between.

The job machinery is reduced to what the tick sees of it (claim when due, retry `MaxTries` times,
failed for good by the sweep after a crash): `JobQueue` is the detailed account of it.
`CreditLedger`'s effect is reduced to `stale`: whether a reset is due that a worker cannot run.

`NextTick` and `Deadline` compute in clock units, `Day` to a day; a center's days begin at
multiples of `Day`, as the code's calendar days do.

`GracePeriod` has no ticks, slots, locks or retries: a failed payment (`Fail`), the days reckoned with one at a time or several at once (`Reckon`:
every re-collect that was due has been made, one warning for all days that passed), a payment (`Pay`, `Renew`), and a `Downgrade` that comes only
when the last day is `Over`. With the constant `Unlocked` it admits what section 6 reports, a downgrade of a center that has just bought a plan by a reconcile;
`GraceClock` implements it with `Unlocked <- Reconciles`, so without reconciles a downgrade finds the center past due.

### 2.4 Attempt

One class, its students, assignments and exercises. A request is a transaction of one of its
`Requests`: `tx[r]` is what it has read, and its `pc` tells the locks it holds (`Held`) and the one its
next statement takes (`Needed`). Its writes come last in every handler, so they appear with its end, under the locks.

| action | code |
|---|---|
| `Ask` | a handler of a student before its transaction |
| `LockAssignment`, `StartSubmission` | `Start`: `GetAssignmentForUpdate` and the checks; the exercise's advisory lock, the probe, the insert |
| `CheckProgress`, `SaveProgress` | `SaveProgress`: the checks on rows nobody locks; the guarded `UPDATE` |
| `LockAssignment`, `SubmitSubmission` | `Submit`: the same lock and checks; the guarded flip, the auto-grader behind a savepoint (marked, skipped or failed) |
| `CreateAssignment`, `UpdateStatus` | `AssignmentService`: create, close, reopen (compare-and-swap) |
| `GetExercise`, `ExerciseIsLocked`, `UpdateExercise` / `SoftDeleteExercise` | `ExerciseService.Update`, `SoftDelete` |
| `LockForGrade`, `ReleaseGrade` | `GradeWriting`, `GradeSpeaking`: the row lock and the checks; grade row and flip |
| `ReadVersion`, `ReviseGrade` | `ReviseGrade`: `MaxGradeVersion` without a lock; the insert the unique index judges |
| `LockObjective`, `UpdateAutoGradeResult` / `ReleaseGrade` | `Override`, `Release`: `loadObjectiveContext` and `assertUnreleased`; the write |
| `Abort` | every refusal, failure and lost connection: nothing is written |

`kind` keeps apart what the code keeps apart: whether an exercise can be scored by a teacher is its `skill`, whether
it can be marked is its *content*, so an exercise can be both and its attempt can be raced for by both graders.
Deadlines, time limits, enrollment and authorization only refuse, on unlocked reads, so they are
`Abort`. Scores, comments and penalties are data. `applied` is a history variable.

`Coursework` is the same operations without requests and locks, each in one step that looks at what is there when it writes: an attempt
starts and is submitted under an assignment that *is* open, a grade is the next version for the content that *is* there, an override or release takes the marks as they
*are*. `Attempt` implements it by the identity: every request serializes at its write. `Save` alone does not look at the assignment, because
the handler's look is not protected by a lock (section 6).

### 2.5 SessionRefresh

A refresh token is `<<family, generation>>`: a login starts a family, a rotation deletes a row and writes the next
generation. The access token handed out with it bears its name. `refresh[t]` is where tab `t` stands in
`refreshAccessToken`: asked for the lock (`queued`), in `fetch` (`sent`), an answer on its way (`granted`, `garbled`, `refused`).
`waiting[t]` is who awaits its promise, the boot probe or a refused request.

| action | code |
|---|---|
| `Reload`, `Navigate` with `Boot` | a document starts: `App.tsx` fires `runBootProbe`, module state is new; what the old one had under way goes on without it (`Abandon`, `ServeOrphan`) |
| `Unauthorized` | `apiFetch` after a 401: join the promise or start one |
| `Enter` = `DebounceHit`, `SendRefresh` | `withLockOrCoalesce`, then `performNetworkRefresh` up to its `fetch`; the stamp is read inside the lock |
| `Fetched` = `Serve`, `RefreshUnsent` | `RefreshTokens` and `handleRefreshMiss`: rotate, refuse, or take it for a replay and delete the family; an answer can be lost after the commit |
| `Settle` = `Granted`, `Refused` | the rest of `performNetworkRefresh`: cookie, stamp, cache, broadcast; `onAuthFailure` |
| `Deliver` | `handleChannelMessage` |
| `Login`, `Logout`, `AlreadySignedIn`, `ForceLogout` | `useLogin`, `useLogout`, `LoginPage`, `auth_force_logout.go` |
| `Expire`, `DebounceEnds` | fifteen minutes, five seconds |

The collection of an unused cache entry after five minutes and the wipe on `?reset=1` are not modelled. Without Web Locks
(`WebLocks = FALSE`) the properties do not hold, as the code's comments say; runs and theorems are with them.

`OneClient` has no tabs, caches, messages or lock: one client with a token, at most one refresh on its way (`Ask`, `Serve`, `NeverServed`, `Take`), asked for only when
the last answer is five seconds old, and forgotten only when a page goes (`ForgetRequest`, `ForgetAnswer`). `SessionRefresh` implements it with
`asked <- Asked`, the tokens all tabs have sent, and `answers <- Answers`, those in the answers they have not handled: that these sets never have two members is the point.
A message to a sibling is no step of the client: in particular it never prolongs the five seconds.

### 2.6 AttemptDraft

The work exists four times: on screen (`Screen`: `live`, the text of an essay, or `shot`, the last draft the hook of a quiz has seen), `cache` (the draft in
the query cache), `mirror` (`localStorage`), `stored` (the row). A content maps each paragraph or question to the number of the edit it shows. `chain`
is the promise chain of `useAttemptAutosave` with the request of its head in `wire`; `fin` is where
`finalizeAttempt` stands. When the page goes, chain, finalizer and the beacon become `strays`: errands that go on in the background, in
their order each, in any order among themselves.

The draft's slot in the query cache is written with `setQueryData` only. It has no observer, and nothing sets a `gcTime`, so it is collected five minutes after it was
made, under an open page too (`Collect`, which may come at any moment). What reads the slot then gets the empty draft (`Draft`): the body of a quiz's save, and what the next answer
is built on. The hook goes on showing what it saw last, and an essay saves its live text.

| action | code |
|---|---|
| `Load`, `Remount` | the bootstrap and `reconcileStoredDraftIntoCache` of mirror and row (`Merge`: `makeQuizMerge`, or the local text of an essay); a shell that mounts again after an error, on the `initialText` of the first load or on what the slot holds |
| `Collect` | the query cache drops the slot |
| `BootstrapRefused`, `BootstrapFails`, `Leave`, `Reload` | the ways a shell goes, with `Unmount`: a last save is sent past the chain (`beaconProgress`) |
| `Type`, `Commit`, `Answer` | a keystroke, the debounced commit of an essay, an answer of a quiz |
| `TimerFires`, `Issue`, `ServeSave`, `SaveBreaks`, `SaveSettles` | the debounce; a save sent with what is current *then*; `SaveProgress`; the answer handlers, `AfterFlush` included |
| `Confirm`, `Expire`, `ExpireTwice`, `ServeSubmit`, `SubmitBreaks`, `Submitted` | the finalizer: final flush, submit, clearing of the mirror |
| `StraySaved`, `StraySubmitted`, `StrayLost` | the same of a page that is gone; a save that has waited reads the draft when its turn has come (`Ready`) |
| `GoOffline`, `GoOnline`, `Lock`, `DeadlineSeen`, `TimePasses`, `ForeignSubmit`, `ForeignHeard` | network, assignment, clocks, another tab |

One tab writes; another one only submits. `localStorage` is always there. A load is one action: that a page which is entered again first renders the bundle its bootstrap query
still holds, and asks for a new one behind it, is not modelled. `since`, `overtaken`, `committed`, `fate` (kept, hidden from the page, or lost) and `cleared` are history variables.

### 2.7 ExerciseEditor

A document is the set of the edits it contains and whether it has a title, so "this write removed that edit" can be said. Every mount
of the editor has its own `queue`, `flying` request and precondition `pre` (they live in refs that outlast the mount); the
store's `status` is one for all of them.

| action | code |
|---|---|
| `Edit`, `TimerFires`, `Press` | `applyEdit` with `scheduleSave`; its timer; `flush` of Save and Retry: the pending document or the last attempted |
| `Issue`, `Serve`, `Breaks`, `Saved`, `Refused` | `runSave` before its `await`, `ExerciseService.Update`, a lost request or answer, `runSave` after it |
| `ReloadWorks`, `ReloadFails`, `RetryReload` | the page's effect on `conflict` and its banner: the other writer's row replaces the document (`seed`, `resolveConflict`) |
| `Leave`, `Return`, `Refetch`, `RefetchFails` | the page unmounts (`Unmount`: `beaconPending`), mounts on what the query holds, swaps to its locked or error view |
| `BeaconServed`, `BeaconLost`, `ForeignSave`, `Lock` | the last save; another editor, which saves in none of the windows of section 5.7; the first attempt of a student |
| `FormOpens`, `FormSaves` | the metadata dialog of the library (`ExerciseFormDialog`), in this tab or another: all of its fields, as they were in the list when it opened, under the stamp the row has now |

A refetch and the reload of a conflict are atomic; 404 and 422 are failures; of the AI dialog only the fragment it inserts is kept, as an
`Edit`. The dialog's precondition is the row's stamp at any later time: it fetches it when it opens, and again after a 409, so a save that the server takes may have
fields of any age; a save that is refused changes nothing and is left out. `MetaEdits` are the edits to the fields the dialog has; it never touches the
sections. `accepted`, `reloaded`, `behind`, `restamped` and `elsewhere` are history variables.

### 2.8 SpeakingAttempt

A take is numbered when it is recorded, and a content is the number of the take whose key it holds, 0 for none: so "older" and
"newer" can be said. The work exists as the `take` in memory, as the key in `cache`, in `mirror` and in what the hook of the page has seen (`shot`), and as `stored`, the row. `rec` is the
`MediaRecorder`, `asked` and `ghosts` the prompts of `getUserMedia` that are open for this shell and for those that are gone, `uploads` what is on its way to
the object store. `chain`, `wire`, `fin` and `strays` are those of `AttemptDraft`, in a page that saves only what an upload produced. The slot of the draft is collected here as
there (`Collect`): every save after that, and every save in the background whose turn comes, carries the empty draft until the next upload fills the slot, while the page and
its submit dialog go on showing the key.

| action | code |
|---|---|
| `Start`, `Granted`, `Denied`, `GhostGranted`, `Stop`, `Seized`, `Dropped`, `Settled`, `ReRecord` | `useMediaRecorder` before and after each of its `await`s and events; `SpeakingRecorderLeaf` stops it when the page locks |
| `UploadDone`, `UploadFails`, `RetryUpload`, with `StartUpload` | `useSpeakingUpload` and `uploadSpeakingAudio`; a new upload aborts the one before, whose caller runs its `finally` later; `persistUploadedKey` |
| `Issue`, `ServeSave`, `SaveBreaks`, `SaveSettles` | `useAttemptAutosave`, of which only the flushes are used, and the boundary flush of the shell |
| `Confirm`, `Expire`, `SubmitWithoutAudio`, `ServeSubmit`, `SubmitBreaks`, `Submitted` | `runFinalize`: `ensureLatestTakeUploaded`, the final flush, the submit, the retry dialog |
| `Load`, `Remount`, `BootstrapRefused`, `BootstrapFails`, `Leave`, `Reload`, `Collect` | the ways a shell and its draft come and go, with `Unmount`: the stream is closed, the upload aborted, saves and submit go on |
| `StraySaved`, `StraySubmitted`, `StrayLost` | what a shell that is gone has left |
| `GoOffline`, `GoOnline`, `Lock`, `DeadlineSeen`, `TimePasses`, `ForeignSubmit`, `ForeignHeard` | network, assignment, clocks, another tab |

An upload with its retries is one; a file that is too large is an upload that fails. `fin = "retry"` is the open retry dialog. A track that ends
after the recorder was stopped by the student is left out (`Seized` needs a recording that was not interrupted). What another device has saved is there from the start (`stored`).
`promised`, `committed`, `overtaken`, `blanked` (a save since the final flush found the slot collected) and `hidden` (the shell mounted over a collected slot) are history variables.

## 3. Runs

| run | question | instance | states |
|---|---|---|---|
| `job_queue` | can workers, a sweep, retries and a fault lose or double a credit, a job or an outcome, or break the promise of `PaidJob`? which waits can be circular? | 3 jobs, 2 of them charged and for one submission; 2 workers, 1 sweep; `MaxRetries = 1`, `StuckTimeout = 0`, 1 fault, month ends | 1.40 M |
| `job_queue_live` | does every job end? | 2 charged jobs, the same processes, `StuckTimeout = 1`, month ends, fairness | 148 k |
| `credit_ledger` | do buckets, ledger and the abstract balance stay together? | 3 jobs, 2 orders, plans of 0, 1 and 2 credits, packs of 1, 2 month ends | 225 k |
| `credit_rollout` | does switching the flag on under jobs in flight lose a purchase? | 2 jobs, flag off at first, one change | 38 k |
| `grace_clock` | with everything that disturbs the clock: does it implement `GracePeriod` (dunning exact, no early downgrade)? | 3-day window in half days, 2 ticks, 1 retry, 1 death, updates of unpaid subscriptions, reconciles, month ends | 1.13 M |
| `grace_runs` | with live workers and no reconcile: does the chain hold and every grace period end? | the real window (7 days; e-mails 0, 3, 5, 6; re-collects 3, 5) in half days | 831 k |
| `attempt` | do interleaved requests do what they would do one at a time, do locks, guards and the unique index keep attempt, exercise and grades together? | 2 open transactions of any kind; 2 assignments of 1 exercise, 1 student, 2 contents, 2 questions, 1 edit, 2 grade versions | 2.86 M |
| `session` | do tabs, with reloads, lost answers, sign-ins and sign-outs, act as one client, and never look like a replay or hang? | 2 tabs, 1 login, 2 generations of its token, 1 reload, 1 fault, Web Locks | 683 k |
| `draft` | can an order of saves, submit, unmount, reload and network lose work, or call it saved? | an essay and a quiz without a limit and a timed quiz; 2 fields, 2 edits (1 of the timed quiz), 1 trouble, collections of the slot | 2.69 M |
| `editor` | do saves, conflicts, beacons and remounts lose an edit somebody saved? | 2 edits, 1 of another editor or of the metadata dialog, 1 press, 1 navigation, 1 trouble | 827 k |
| `speaking` | can prompts, takes, uploads, saves, submit and the ways a page goes leave the microphone open, lose a key, submit an older take or never end? | with and without a time budget; 2 takes, 1 trouble, collections of the slot | 1.92 M |
| `editor_clobber` | what a comment of the code promises and the code does not do (section 6) | its smallest instance | |

**Why the bounds are enough.** The hazards are races of two contenders (worker and worker,
worker and sweep, two requests for one submission, two ticks of one center, tick and webhook), so
each kind has two where two can meet; jobs beyond the pair interact through the queue order only, and the
third (uncharged, without a submission) is there to be claimed and swept next to them. One retry
climbs the whole ladder: the first attempt, the retry, the exhaustion. One fault is placed at every
point of every transaction. In `job_queue` a job may be stuck at once (`StuckTimeout = 0`), so the sweep comes in at any time; a month ends as often as it likes. Plans of 0, 1 and 2 credits make every comparison of `used`, `alloc`
and the add-on bucket come out both ways; two month ends let a refund cross one and two resets.
Half days separate the start of a calendar day from the middle of it, which is what the deadline
(end of day) and the tick times (24 hours) disagree on; `MaxNow` lets a second grace period begin
after the first. In `attempt` two transactions make every pair of handlers meet at every pair of steps;
two assignments of one exercise separate the lock of the one from the lock of the other, two questions make a lost
override visible, and a second version is what two revisions race for. A second student would only add rows that
share no lock with the first's but the assignment's and the exercise's, for which the second assignment and the editor contend already. In `session` two tabs are the coordinator and
everyone it keeps waiting; two generations let a token be replayed after its rotation. In `draft` two edits
are the one that is saved and the one made meanwhile, two questions the one answered and the one not; one trouble is
placed at every point, and so is the collection of the slot. In `editor` two edits, one foreign write and one return make every save meet a conflict, its own
successor and the chain of the editor before it; the first and the third edit that are made are to fields of the dialog, the second is to a section. In `speaking` a second take (or the first, when another device has recorded one) is what an older
upload, save or key can be mistaken for, and the trouble is placed at every point. A larger instance was run by hand: `editor` with two presses (4.59 M).
`MaxNow`, `MaxMonths`, `MaxFlips` and `MaxFaults` bound the environment,
`Jobs`, `Purchases` and `Ticks` the rows; the theorems of section 5 remove all of them for
safety, with the restrictions stated there.

**Deadlock** is checked in `JobQueue`. It is not in `CreditLedger` and `GraceClock`, where months
or the clock and the orders of the instance run out, nor in `Attempt`, where deleting the only exercise before it is assigned
ends everything, nor in the four modules of the browser, where a page may come to rest; that transactions do not wait for each other in a circle is `LocksAcyclic` there.

**Symmetry** is used for the workers of `job_queue` and for requests, assignments and questions of `attempt`
(safety only); jobs and ticks are not
symmetric, they differ in their constants or in order.

## 4. Fairness

* `JobQueue!Fairness`. Weak fairness of `Tick`, of each worker's `Claim`, of its handler's three outcomes
  together (the handler returns: its calls have a time limit), of each sweep, of `Commit` and of
  `DeadlockVictim`: the loops run on tickers for the life of the process (`Start`, `claimLoop`, `sweepLoop`), and
  PostgreSQL breaks deadlocks. Strong fairness of the refund only, written or failed (`Refund` or `RefundFails`): waiters for the advisory lock are
  queued. `EveryJobSettles` assumes
  `<>[](CenterOf[j] \notin due)`: from some time on the month is rolled over and does not end again, for a month of the model may end between any two steps. Nothing makes a user roll it over: a center nobody uses does keep such a job. Nothing is assumed of `Enqueue` or of which outcome a handler has, and faults are bounded, not fair.
* `SessionRefresh!Fairness`. Web Locks are granted in the order they were asked for, so a tab that waits gets in
  although others come and go: `SF(Enter(t))`. Requests are answered or fail, queued tasks and messages of a tab
  run, a navigation is carried out: `WF`. `FairSpec` adds that five seconds pass (`DebounceEnds`). Nothing is assumed of users.
* `AttemptDraft!Fairness`. Timers fire, a save whose turn it is is sent, it is answered or fails, its handler runs. Nothing is assumed
  of the student, of the submit or of the network coming back.
* `SpeakingAttempt!Fairness`. Uploads end (each leg and retry of `uploadSpeakingAudio` has a time limit), saves and submits are answered or fail, promises
  run on. Nothing is assumed of the student, the recorder, the prompt or the network.
* `ExerciseEditor!FairSpec`. Timers, the chain (`Issue`, `Serve`, `Saved`, `Refused`), the reload of a conflict, the
  refetch of an *invalidated* query and the arrival of a beacon. Nothing of refetches on focus, presses or other writers.
* `GraceClock!FairSpec`. A claimed or due tick is worked on, `WF(Work(i))`, and a reconcile that has its
  lock goes on. Time need not pass: `EveryGraceEnds` is about centers past their deadline.

## 5. Proofs

Every theorem holds for all values of the constants that meet the module's named assumption
(finite sets, natural numbers, a backoff ladder that is not empty, a Free plan with no credits).

### 5.1 JobQueueProofs

`IInv` conjoins the properties with what makes them inductive. `RowsOK`: an uncommitted write
is to a row that is still `processing`, and two transactions never have the same row: the row lock.
`RefundsOK`: a transaction that commits a failure has already written its refund. `WorkersOK`: a worker's
uncommitted writes are to its own job, and the retry count it read at the claim is the row's as long as the job is
processing; this is what the unguarded read of `retry_count` before the work rests on. `SweepsOK`: a
sweep only fails jobs. Without `RowsOK` a commit could refund a job twice; without `WorkersOK` a
reschedule could push `retry_count` past the maximum.

| theorem | says |
|---|---|
| `TypeCorrect` | the table is well-formed, `retry_count` within its limit |
| `CreditConserved` | a charged job is refunded if and only if it failed |
| `InflightUnique` | one job in flight per submission |
| `DriverUnique` | one worker per job |
| `LadderRespected` | a job was claimed as often as it was rescheduled, plus the claim it is in or ended with |
| `ExhaustionExplained` | exhausted means 1 + max_retries claims |
| `OutcomeFinal` | no step changes the outcome of a settled job |
| `DeadlocksExplained` | a circle of waits contains a sweep that goes on to a row with the credit lock of its center |
| `Implements` | the queue implements `PaidJob` |

In `Implements` an enqueue is an `Order`, a claim a `Call` (`LadderRespected` gives its bound), a commit a `Deliver`, a `GiveUp` or, if it reschedules, nothing
(`CommitSettles`: the rows a transaction has written are still in flight, so no outcome is given twice); every other step leaves the owner's view alone.

`DeadlocksExplained` rests on one more layer, `LocksOK`: who waits for the credit lock does not
hold it, a sweep has one center at a time, and nobody holds a lock twice. The proof follows the waits round the
circle: the holder of a row somebody waits for either waits for the credit lock or has it (`RefundsOK`), so some
transaction in the circle has the lock; a worker that has it only commits, so it is a sweep on its way to another row.

A refund that fails (`RefundFails`) is a transaction that is cut: it writes nothing, and all of the above holds over month ends.

`OneDriver` and the sweep need an explanation: the sweep never returns a job to `pending`, it fails
it, so a slow worker and a new one cannot meet. That is the step of `ClaimInv` to read.

### 5.2 CreditLedgerProofs

Three invariants, each with the hypothesis it needs and no more.

* `Shape` (whatever the flag does): the row is well-formed, the ledger and the job sets are what the operations can leave. From it `TypeCorrect` and `LossIsBounded`.
* `RInv` (`NeverDisarmed`: the flag may be switched on, not off again): the lower bound of the add-on bucket. While the flag is off nothing was taken from it
  (`SpareAddons`); once it is on, every purchased credit that is gone was taken for a job that has it neither delivered nor returned. It
  needs the finiteness of jobs and orders, because a refund moves one job out of a counted set.
* `IInv` (`AlwaysArmed`: on from the start): the projection (head of the ledger = buckets), the sum of the ledger, `refunded` = failed jobs.

| theorem | assumes | says |
|---|---|---|
| `TypeCorrect` | - | never more used than allocated, no bucket negative |
| `LossIsBounded` | - | purchased credits are missing for jobs only, at most one for each |
| `PurchasesKept` | `NeverDisarmed` | no purchased credit is lost, also with jobs in flight when the flag is switched on |
| `DisarmedIsFree` | `NeverDisarmed` | while the flag is off no purchased credit is used |
| `ProjectionHolds` | `AlwaysArmed` | spendable = balance of the newest row |
| `LedgerComplete` | `AlwaysArmed` | the changes add up to it |
| `Implements` | `AlwaysArmed` | the engine implements `CreditBalance` |

Neither hypothesis can be dropped. With a flag that is switched off again under a job in flight TLC finds a purchase lost (section 6);
a job charged while the flag was off has a row in the ledger and no credit in the buckets, so they part.

`Implements` needs one fact more, `AllocGranted`: what a reset restores is an amount some plan grants.
A charge that finds a reset due is *one* step of `CreditBalance`, the reset included.

### 5.3 GraceClockProofs

Three invariants, each on top of the one before.

* `Safe` (no restriction): one tick at most is in the downgrade, only past the
  deadline of the grace period that is running, with the center past due or, by a reconcile, active; and the dunning counters are what the high-water marker
  says. From it `TypeCorrect`, `ScheduleKept`, `DowngradeOnTime` and `Implements`. The arithmetic (calendar days do not decrease, deadlines
  do not come forward) is in `DayBounds`, `DayMonotone`, `DeadlineOrder`.
* `Held` (no reconciles): whoever is in the downgrade holds the subscription lock, so the center is still past due.
  From it `RecoveryIsSafe`.
* `Running` (no reconciles, month ends or deaths): a next tick that was computed is early enough for
  any clock started since. From it `ChainUnbroken`.

| theorem | assumes | says |
|---|---|---|
| `TypeCorrect` | - | row, ticks and counters are well-formed |
| `ScheduleKept` | - | re-collects exactly once each, warnings at most once each |
| `DowngradeOnTime` | - | no downgrade before the end of the last day |
| `Implements` | - | the clock implements `GracePeriod`: ticks, retries, crashes and late webhooks amount to its five operations |
| `RecoveryIsSafe` | no reconciles | no downgrade of a center that pays |
| `ChainUnbroken` | no reconciles, month ends or deaths | a center past due has a tick that comes in time |

The restrictions of the last two are not conveniences. With reconciles a paying center can be downgraded
(section 6); and a worker that dies with a tick in hand (`Die`) stops the clock: the sweep fails the tick and reschedules nothing.

### 5.4 AttemptProofs

For any number of students, assignments, requests open at once and versions of a grade: all seven properties of the
run and that submitted attempts are final. `IInv` says what a request may rely on between its read and its write.

* `OneHolder`: no two requests hold one lock.
* `Reliable(r)`, by kind. A start or a submit that has its assignment's row finds it open until it ends (a close waits
  for the row). An editor that holds the exercise's lock and has seen no attempt sees none until it ends (an attempt
  needs that lock). A grader that has the submission's row finds no grade, the content and the marks it has
  read. A revision has no lock; it relies on `graded` being final and on versions that only grow.
* `RowsOK`: the properties of the rows, and marks only on attempts that were submitted.
* `Justified(r)`, on top of it: a grader goes on only with an attempt of an exercise it may grade, and that does not change, because an exercise with an attempt is frozen.

`Implements` is read off these: `Reliable` says that what a request has read still holds when it writes, which makes its write the operation of `Coursework`.

Nothing in the proof depends on the autosave's missing lock: the guard on `in_progress` does all of its work. And the
order of locks is needed for `LocksAcyclic` alone: a chain of waiting requests has at most three members.

| theorem | says |
|---|---|
| `TypeCorrect` | rows and requests are well-formed |
| `GradesKeepOrder` | versions 1, 2, ...; graded = has a grade |
| `GradesMatchContent` | every version is for the content the attempt has |
| `NoOverrideLost` | overrides count, the release is the working row |
| `AttemptFreezes` | an exercise that was begun is neither edited nor deleted |
| `WrittenUnderOpen` | attempts begin and are submitted under open assignments |
| `SubmittedStays` | a submitted attempt is final |
| `NoLockCycle` | some open request can go on |
| `Implements` | interleaved requests implement `Coursework`, the same operations one at a time |

### 5.5 SessionRefreshProofs

Under `WebLocks`. `IInv` says why the lock is enough: at most one tab is between `fetch` and its end (`OneInside`), a family has one
row (`OneRowPerFamily`), a request that was answered carries the token the server gave it (`AnswersCarry`), and while nothing was lost the cookie, or the token under
way, *is* the row of its family (`NothingLost`). So a token the server does not know belongs to a family without rows, which is a refusal and
not a replay. `Stamped` keeps requests out of the debounce window.

| theorem | says |
|---|---|
| `TypeCorrect` | a tab has a refresh under way exactly as long as somebody in it waits |
| `ReuseExplained` | a replay is seen only after an answer was lost |
| `RotationNotBurned` | no refresh is on its way while the stamp is fresh |
| `Implements` | the tabs implement `OneClient` |

The refinement rests on `OneInside` (what a tab asks for is the only thing asked for), on `AnswersCarry`, and on `Stamped` for the messages: one that
announces a refresh arrives while the stamp it would write is still fresh.

### 5.6 AttemptDraftProofs

For any number of questions, edits and troubles. `Submitting`: a submit is only under way, in the page or in the background, when the
row has what the final flush read or something sent later, or the row takes no writes any more; the second alternative is why a flush that was
*refused* may be followed by a submit. `Acknowledging`: a save in flight that is still `fresh` (no edit since: `editGenRef`) carries what is on screen, or the empty draft of a collected
slot, or another is queued behind it. `Surviving`, on its own: until the mirror is cleared it holds everything committed that is not lost, so does the slot as long as there is one, and so does the page
for what is not hidden. What is lost is named at the two places where the code loses it: an answer to another question while the slot is empty, and a commit of an essay that was mounted on an older text.

| theorem | says |
|---|---|
| `TypeCorrect` | the shape of the chain and of the page |
| `SubmitNotLossy` | the student's own submit seals what the final flush read, or something newer |
| `WorkSurvives` | reloads, crashes, remounts, navigation and collected slots keep what was committed, but for what `fate` calls hidden or lost |
| `SavedIsShown` | "saved" means what is on screen (an action property) |

### 5.7 ExerciseEditorProofs

For any number of edits, writers, presses, mounts and troubles. The core is a statement about the *line* of an editor, its
request under way, its queue, what waits for the debounce and what is on screen: each contains the one before (`LineAppend`,
`LineIssue`, `LineServed`, ...), and while nobody else wrote the row (`elsewhere`) the precondition is the row's stamp. A save that
the server takes therefore contains the row. A save of the dialog contains the row when its stamp is the one its fields were read under.

| theorem | says |
|---|---|
| `TypeCorrect` | the title gate holds wherever a document waits |
| `LossExplained` | a saved edit is lost only in the three named windows: after a conflict was resolved (`reloaded`), when Save queued an attempted document behind another (`behind`), when the dialog saved fields older than its stamp (`restamped`) |
| `SavesSerialized` | an editor does not conflict with its own saves |
| `RetryNeverDead` | a failed save leaves something to retry |

### 5.8 SpeakingAttemptProofs

For any number of takes and troubles: all safety properties of the run. Four layers, each on top of the one before.

* `Shells`: types, and what a page without a shell cannot have; at most one upload, one prompt, one flush of a finalizer in the chain; a locked page
  has a server that takes no saves. The microphone is one of its parts (`RecorderInv`).
* `Order`: takes only grow, so whatever is uploaded is at least the key the draft has, and at most the take at hand (`TakesInv`); while saves are accepted no
  body, copy or row is newer than the last committed key (`BodiesInv`).
* `SurvivesInv`: mirror and slot, as long as there is one, have the last committed key, and so has the page unless it mounted over an empty slot (`hidden`). The case that needs
  an argument is an *empty* mirror while the attempt is open: then either nothing was ever committed, or nothing is under way and the row still has it (`Fresh`).
* `SubmitInv`: while the server takes saves, every way to the submit carries the promise, or an excuse has been entered: the upload a submit waits for (`UploadsPromise`), the request in
  flight once a flush is queued (`WirePromise`), each queue of a shell that is gone (`KeepsPromise`), and the last committed key as long as one of those is
  going to submit (`HoldsPromise`). A page that opens meanwhile starts from a mirror that has it, so its saves cannot undo the submit behind it.

| theorem | says |
|---|---|
| `TypeCorrect` | the shape of the page, the recorder and the chain |
| `MicShown` | one stream at most, and only while the page shows it |
| `KeysSurvive` | no reload, error, empty mirror or collected slot brings an older key back into the copies of the open page |
| `ConfirmedIsSubmitted` | what the student's submit seals is the confirmed take or a later one, but for the three exceptions |

The three exceptions in `SubmittedAsConfirmed` are needed. After the grace time the server takes submits and no saves; two shells that are gone can have saves under
way in either order (`overtaken`); and a save that reads a collected slot sends the empty draft (`blanked`, section 6).

### 5.9 Only model-checked

`EveryJobSettles`, `EveryGraceEnds`, `RefreshSettles`, `DirtyIsSent`, `EditsSettle`, `SubmitEnds` (liveness is out of the prover's reach) and the
violation run. Every invariant, action property and refinement of a passing run is proved, `PurchasedNeverLost` and what is above it under the hypotheses named in 5.2, `ClockRuns` under
those of 5.3, the session's under Web Locks.

## 6. What the models found

One with a run whose counterexample shows it; `PROJECT.json` quotes the lines.

* **A conflict is overwritten silently** (`editor_clobber`). After a 409 the rejected document is still at hand; Save, a debounce
  that was running or the last save of the page sends it again with the fresh precondition, over the other writer's edit.

The rest was seen in counterexamples while the models were built, or while reading; the models contain it.

### Billing and jobs

* **A downgrade can be stuck.** A worker's tenant context has no user, and once the month has ended the lazy reset needs one: the last tick fails until
  its retries are used up, and the center stays on its plan unpaid. With `MonthEnds = TRUE` in `GraceClockRuns.cfg` TLC finds `EveryGraceEnds` violated.
* A database error in a worker is fatal: the reschedule is written in the transaction the failed statement has aborted
  (`dispatcher.go`, `handleFailure`), and the sweep later fails the job with retries left, although "a momentary failure must not permanently kill a viable job".
* **A job can be stuck in `processing`.** A refund meets the same obstacle as the downgrade above, and rolls back the failure it belongs to; in a sweep, with those of all other stuck jobs of the
  center. The job ends only after somebody of the center has charged, read or bought credits (`RefundFails` in `JobQueue`; without `<>[](CenterOf[j] \notin due)` TLC refutes `EveryJobSettles`).
* An update that does not make a center paid still writes `active` when the period differs (`setPlanFromPolarTx`).
* A paid plan can be replaced by Free: the reconcile of a checkout takes the credit lock but not the subscription lock, and can
  come between the read and the write of a downgrade. `RecoveryIsSafe` is proved without reconciles only.
* The sweep works through a list it read earlier, so it may fail a job that was rescheduled and claimed again since. A job charged
  while the flag was off is refunded into buckets that never paid for it. An add-on order in another currency is granted and its
  invoice dead-lettered. A tick that comes only at the deadline skips the re-collects before it. A tick and a
  reconcile lock the subscription row and the credit lock in opposite orders (`LockCycle`). A transfer of a
  student has no cap check. The release of grades publishes its event before its job commits. A grace tick whose worker died is never replaced.

* **The rollback of the credit flag loses purchases.** The completion notes of story 9-2b
  (`_bmad-output/implementation-artifacts/9-2b-upgrade-downgrade-and-ai-credit-add-ons-frontend-completion-notes.md:87`) describe the rollback as
  switching `BILLING_ENFORCEMENT_ENABLED` off, "No data migration involved". A job charged to the add-on bucket while it was on and failing after it is off is
  refunded in the ledger only (`refundCredit`): the purchased credit does not come back. TLC finds it in `CreditLedger` with `ArmedAtStart = TRUE`, `MaxFlips = 1`.

### Attempts on the server

An autosave may land just after its assignment was closed, and any write just after its student was withdrawn, because both are
checked without a lock. An objective attempt whose auto-grader failed has no working row, and no operation makes one. A comment on
`LockSubmissionForGrading` says that revisions take it; they do not (as `MaxGradeVersion`'s comment explains).

### Session

* `App.tsx` says of the boot probe "Failure is silent (no toast, no redirect)". In the tab that probes it is; the refused probe posts
  `refresh-failed`, and every sibling tab leaves for the login page, also one that has just signed in. One network failure in one tab signs all of them out.
* A reload within five seconds of a refresh hits the debounce with an empty cache: requests are refused a second time and the user is
  thrown to the login page with a valid cookie. A debounce hit also retries with the old token when the sibling's message has not been handled yet.
* A 200 whose body cannot be read does not "retry cleanly": the cookie rotates, the cache does not.
* A sign-out that races a sibling's refresh leaves a live cookie. A sign-out whose request fails clears the cache only, and a reload signs back in.

### Draft

* **A page that is open for more than five minutes loses its draft slot.** `useAttemptDraft` keeps the draft in a query without an observer, and `query-client.ts` sets no `gcTime`, so the slot
  goes five minutes after it was made, edits or not. On a quiz the next answer or flag is then built on the empty draft and replaces all others on screen, in the mirror and,
  with the next save, in the row; a flush without an answer in between writes the empty draft to the row and can submit it. "It survives remount" (`useAttemptDraft.ts:5`) does not
  hold either when the slot is gone. With `fate` left out of `CommittedSurvives` TLC finds `Load`, `Answer`, `Collect`, `Answer`. The final flush reads the same slot: `NoLossySubmit` is about what it read.
* A failed refetch of the bootstrap query unmounts the shell; after the retry the essay mounts again with the `initialText` of
  the first load, and what was typed and committed since is not on screen, although `useAttemptDraft.ts` says the draft "survives remount". The trace is
  `Load`, `Type`, `Commit`, `BootstrapFails`, `Remount`.
* `SUBMISSION_LOCKED` on submit is treated as "already final" (`finalizeAttempt.ts`): a confirmation is shown and the mirror removed while the row stays in progress.
* The second expiry of a shell confirms and clears the mirror although the first flush may still fail.
* Up to 600 ms of typing go with a navigation or a foreign submit; a failed autosave is not retried before the next edit; a recovered
  mirror is not sent before an edit or the submit; a save that ends while offline shows "saved" over later edits.
* A late beacon can overtake the final flush (`overtaken`). An edit made after a submit whose answer was lost is confirmed but is not in the row.
* On a quiz the row wins over the mirror, so a *changed* answer that was not saved is lost in a crash; `CommittedSurvives` says
  for a quiz only that a question keeps *an* answer.

### Speaking

* **The key of a take goes the same way.** Five minutes after the page was opened the slot is collected. The take that was resumed, or uploaded before that, is still on screen
  and in the submit dialog, and the final flush sends an empty key, which is submitted (`blanked`; without it TLC refutes `SubmittedAsConfirmed` with `Load`, `Collect`, `Confirm`). The mirror keeps the key until the submit has removed it.
* A submit confirmed, or forced by the timer, *while a recording is still running* goes out with the key of an older take, or with none; the recording is lost without a warning.
* `submitWithoutAudio` is described as a submit without a key. It sends whatever key the draft holds, which can be that of a take the student has discarded.
* An upload under way when the page turns read-only goes on to its PUT and its save, although the shell means that nothing is uploaded "after the flip". Its key
  goes to the cache and not to the mirror.
* A background upload that a submit aborts runs its `finally` behind the start of the new one and clears `uploadInFlightRef`: a reconnect or a retry can then
  abort the submit's own upload. The submit reopens its dialog, so nothing is lost (`SubmitEnds`), but the student has to ask again.
* Re-recording while the discarded take is being uploaded persists the discarded take's key.
* A failing refetch of the bootstrap unmounts the shell and drops a take that was not uploaded, without the question a navigation asks.
* A key of this device wins over a newer one that another device has saved (`makeSpeakingMerge`).

### Editor

* **The metadata dialog overwrites what was saved after its list was read.** `ExerciseFormDialog` seeds title, skill, tags, description and band once from the row of the library's list
  (line 79) and takes `updatedAt` from a detail query it fetches when it opens (69) and again after a 409 (122-124), with the comment that "the next save is against current data". The fields are
  not: the save passes the precondition and puts the old metadata back (`restamped`).
* Save pressed while a save is queued appends the last *attempted* document behind the newer one: the row ends with the older, the
  screen says "saved" for the newer (`behind`).
* The last save of a page goes past the queue: it conflicts with the editor's own save under way and the last edit is lost. It also does not
  update the query cache, so a quick return mounts a document whose first save conflicts. A lost answer has the same effect: the
  conflict is with oneself and the reload discards newer edits.
* A save that settles after the title was cleared replaces "unsaved" by "saved". The queued save of an editor that is gone leaves the shared status at "saving".
* `flush` during a conflict stops the timer but keeps the pending document. An AI fragment accepted while a conflict reloads is discarded. The guard
  `mySeq < latestSeq` of `runSave` is never true, as the saves are serialized.

## 7. Not modelled

| part | why |
|---|---|
| delivery of released grades | an outbox job of `JobQueue` whose handler publishes in memory; only e-mail follows |
| checkout, webhook inbox, downgrade scheduling | their effects on plan and credits are in `GraceClock` and `CreditLedger`; the inbox itself is insert-or-skip |
| plan gates, enrollment, invites, files | count and insert under one advisory lock, one transaction per operation |
| the grading pages | the AI panel's job polling and the drafts in `localStorage`; their server side is `Attempt` and `JobQueue` |
| what AI handlers write, prompts, media, calibration | `JobQueue` needs their outcome only |
| invoices, accountant e-mail, read-only guards of a downgraded center, backfill of old centers | no influence on the state modelled |
| classes, sessions, attendance, calendar, questions, onboarding, settings | one transaction per operation, few rules across rows |
| search, analytics, dashboard | no state |
| HTTP layer, configuration, migrations, seed, Google, e-mail transport, other web pages, landing site | input and output, or start-up |

Two abstractions of the server models to know of. Transactions that hold their advisory lock from the first read to the end are
one action; where the lock is missing or late they are split. And SQL is modelled at READ COMMITTED, as the pool uses it. The browser
models take the code between two `await`s, timers or messages as one action.

**How much of the code this is.** The state machines of the program are a small part of its text. Of the TypeScript, one line in seven is
generated from the API description (`client.ts`, 15 000 lines), and most of the rest renders: pages, dialogs, forms, tables and
their wording, with server state behind a query cache and no order of their own to get wrong. The modules here cover the files
where one does exist. Lines of presentation could be listed next to a definition but no definition would be a translation of them.

## 8. Plan

What would add most next, in this order.

1. `GradingDesk`: the drafts of a grading page in `localStorage` against release, revision and navigation, with the AI job it follows.
2. `GradeRelease`: the outbox job of each version over the queue's promise, its event and its e-mail.
3. `PlanGate` with `Enrollment`: caps under the advisory locks, baselines captured at a downgrade.
4. `PolarIntake`: webhook inbox, duplicates, order, two-transaction downgrade scheduling; it
   refines the `PlanEvent` of `GraceClock` and the `PolarPlan` of `CreditLedger`.
5. The composition of `SessionRefresh` with the saves of `AttemptDraft`: a save refused with 401 in the middle of the chain.

Left to prove: abstract specifications of the three other modules of the browser (a draft, a take, a document, as the student or teacher sees them); so far
only their invariants and action properties are proved.

# A TLA+ model of mailviz

mailviz is a mail, calendar and task server (`server/`, TypeScript on Node, PostgreSQL through
Prisma) with a browser client (`client/`). Several users connect a Google account each; the server
mirrors their mail and calendar in its own tables, lets them work on the mirror, and pushes their
changes back. What is hard in it is not any one request but what happens between two awaits: cron
jobs, requests, Google and the end of the process all work on the same rows.

These modules model that part. Line numbers are of `server/src/` unless said otherwise;
`PROJECT.json` maps every definition to the lines it stands for.

| Module | What it is |
|---|---|
| `ScheduledSend.tla` | rows of scheduled mail, their owners, and the processes that send them |
| `SendPromise.tla` | what scheduled send promises an owner: the abstract specification |
| `ScheduledSendProofs.tla` | theorems about `ScheduledSend`, for any number of everything |
| `PerUserRunner.tla` | the per-account guard of both sync schedulers; its theorems stand in `MailSyncProofs` |
| `CalendarPush.tla`, `CalendarPushProofs.tla` | calendar edits, their push, the retry sweep and the pull; theorems |
| `MailSync.tla`, `MailSyncProofs.tla` | initial sync, history feed, catch-up and retry of mail; theorems, also of the runner that starts it |
| `TaskGraph.tla`, `TaskGraphProofs.tla` | dependencies and parents of tasks under requests that check and then write; theorems |
| `TaskCompletion.tla`, `TaskCompletionProofs.tla` | the gate, the three calls that finish tasks, and the next occurrence of a repeating one; theorems |
| `Snooze.tla`, `SnoozeProofs.tla` | reminders of a thread, beside the owner's moves and the label changes of the sync; theorems |
| `GoogleGrant.tla`, `GoogleGrantProofs.tla` | the stored grant of an account: refresh, refusal, reconnect, disconnect; theorems |
| `Drafts.tla`, `DraftsProofs.tla` | drafts at Gmail and their mirror: sync, save, open, send, remove; theorems |
| `MC*.tla` | the instance of each module that the `.cfg` files check |

## Inventory

### The parts that keep state over several steps

**Scheduled send** (`services/emailService.ts` 1870–2099, `jobs/scheduledSendScheduler.ts`). State:
`scheduled_emails` rows with a status, `sendAt`, `updatedAt` and a retry count. Operations: schedule,
reschedule, cancel; a tick every 30 seconds that fails interrupted sends, lists the due rows, claims
each and sends it. Hard: several processes on one table, reschedules and cancels between the list
and the claim, lost answers of Gmail, crashes with a row in hand, a sweep that overtakes a slow send,
SIGTERM. Correct when a message goes out once, not early, not after a cancel, is always settled, and
what the owner is told is true.

**Per-user runner** (`jobs/perUserRunner.ts`, used by `jobs/emailSyncScheduler.ts` and
`jobs/calendarSyncScheduler.ts`). State: a set of accounts in flight and, per batch, a queue and its
workers. Operations: `runAll` (cron), `runOne` (after a login), `runExclusive` (Sync button). Hard:
batches overlap as the cron does not wait, a sync may throw or hang. Correct when an account has one
sync at a time, the guard is exact, a batch keeps to its cap, and a hung account starves nobody.

**Calendar** (`services/calendarService.ts`, `jobs/calendarPendingPush.ts`). State: `calendar_events`
rows with a Google id and a pending marker, the sync token, the events at Google. Operations:
create, update, delete, respond, each with a push; a scheduled run that retries what is pending and
pulls what changed. Hard: pushes and pulls interleave at every await, answers get lost, tokens
expire, a listing is older than what it is applied to. Correct when an edit stays marked and visible
until Google has it, a pull reverts no such edit, nothing is imported twice or removed wrongly, and
both sides come to agree.

**Mail sync** (`services/emailService.ts` 178–773). State: `emails` rows, the history position, the
list of ids to retry. Operations: initial sync, incremental sync, catch-up, retry, store. Hard: mail
arrives during a sync of hours, single fetches fail, Gmail forgets the position, the process dies
halfway. Correct when no message, deletion or label change is lost.

**Snooze and follow-up** (`services/snoozeService.ts`, `jobs/snoozeScheduler.ts`). State: reminders
`armed`, `fired` or `cancelled`, and the labels of the thread. Operations: create (which replaces), cancel,
fire, the scan for replies. Hard: create is three statements and a Gmail call, fire restores the
thread before it claims the reminder, and the labels cannot say where a thread came from that is
snoozed already. Correct when mail the owner has in the inbox comes back to it, and a thread has one
armed reminder of a kind.

**Owner's mailbox actions** (`services/emailService.ts` 1151–1478). Read, star, archive, trash, single
and in batches: a best-effort Gmail call and a write of the row. Hard: the labels written are those
read before the call, which the sync may have changed. Correct under the same property as Snooze.

**Drafts** (`services/draftService.ts`). State: a mirror of the drafts at Gmail. Operations: sync, save,
open, send, remove. Hard: a sync fetches before a save and writes after it, prunes what its list did
not name, and a lost answer leaves a draft nobody knows to be a reply. Correct when a reply stays a
reply, no living draft loses its row, and the mirror comes to show what Gmail has.

**Google grant** (`services/googleAuthService.ts`). State: one `google_auth` row per user with tokens and
the last refusal. Operations: connect, sign in, disconnect, refresh, record and clear a refusal. Hard:
a refresh, a refusal, a reconnect and a restart race over one row. Correct when a refusal is shown of
a dead grant only, of every one, and not for ever, and no token crosses a disconnect.

**Task graph** (`services/taskService.ts` 150–175, 270–310, 1119–1139, 1540–1566). State: tasks with
parents and blockers. Hard: each check is several queries and the write a later one; three requests
write a parent after different checks. Correct when blocking is acyclic and subtasks have no subtasks.

**Task completion** (`services/taskService.ts` 316–334, 863–1117, 1286–1330, 1642–1706). State: statuses,
recurrence rules, `recurrenceNextId`. Operations: update, batchStatus, reorder, each with the dependency
gate before and the spawn after. Hard: gate, write and spawn are separate, and statuses are compared
with those read at the start. Correct when no task is finished over a blocker its gate could see, and
a finished occurrence has one successor.

**Task timers** (`services/taskService.ts` 1442). State: time entries. Hard: the check for a running timer
and the insert are two statements. Correct when a user has one running.

**Notifications** (`services/notificationService.ts`, `jobs/notificationScheduler.ts`). State:
notifications and reminder stamps. Hard: overlapping checks that look and then insert.

**Lifecycle** (`lib/lifecycle.ts`, `index.ts`). State: draining flag, running jobs, open requests.
Operations: track, drain, close, forced exit. Hard: what starts while the process stops.

**WebSocket** (`websocket.ts`). State: sockets per user and who answered the last ping. Hard: a socket
that closes, errors and is swept at once, and a shutdown meanwhile.

### How they interact

Cron starts `runAll` and the scheduled-send, snooze and notification jobs through `runJob`, which refuses
them while draining. `runAll` runs a mail sync or, in the other scheduler, the calendar sweep and
then the calendar pull, for each account, under that scheduler's guard. Requests of the owner enter
the same services without any guard. All of them share database rows and Google; nothing takes a
lock, so a conditional update (`updateMany ... where`) or a unique index is what decides a race.
`wsEmitToUser` tells the client afterwards; nothing waits for it.

### The parts without such state

The CRM records (customers, contacts, deals, RFPs, references), search and dashboards, labels and
templates, sessions, validation, text conversion, configuration, the client and the deployment are
listed in `PROJECT.json` with the reason each is left out: single-statement or single-transaction
edits, read-only queries, pure conversions, or a user interface.

## The modules and the code

An action is what the code does between two awaits: one database statement, one Google call, or the
synchronous code between them. Node runs one callback at a time, so nothing finer is visible.

### ScheduledSend

`Schedule`, `Reschedule` and `Cancel` are the owner's requests; a refused one changes nothing. The
conditional updates of the code are single actions. A process goes through `StartTick` →
`FailInterruptedSends` → `ListDue` → for each id `TakeNext`, `Claim` or `ClaimMissed`, one of
`GmailAccepts`, `SendRefused` and `AnswerLost`, and `RecordSent` or `RecordFailure` → `FinishTick`.
`SentNotRecorded` is the caught failure of the last write, `TickThrows` any other database error.
`Sigterm` sets draining, `Exit` follows once the tick is over, `Crash` is a kill or the forced exit, and
`Restart` brings the process back. Time is two flags per row, `due` (`sendAt` has passed) and `stale`
(the claim is older than ten minutes), so that a send may take any time and a sweep may overtake it.
`accepted` and `lost` are history: how often Gmail took the message, and how often the process was
told otherwise.

`SendPromise` is what the owner sees: a message is queued, withdrawn, delivered or given up, and goes
out at most once, never after a withdrawal. `ImplementsPromise` maps pending and sending to queued.

### PerUserRunner

`StartBatch` is the query, `FilterAccounts` the filter by the guard after it, `Pull` one worker that takes
an account and enters the guard or skips it, `Settle` the `finally`, `EndBatch` the end of `Promise.all`.
`Request` is `runOne` and `runExclusive`, which differ only in what a refused caller is told; `Answer`
is their `finally`. Accounts connect and disconnect. `Hung` accounts never settle: neither the runner nor
the syncs have a timeout.

### CalendarPush

A row has a content of two parts: a title, which a push reads from the row when it starts, and guests, which
stand for every field the push is handed by its caller (colour, recurrence, reminders and visibility
behave the same way). Every edit has a version, so contents are pairs of versions. `Create`,
`Update`, `Delete` and `Respond` are the local half of a request; `ReadRow`, `GetInvitation`,
`GoogleAnswers`, `NotFound`, `ReadBack`, `Settle` and `RemoveRow` the push; `PushFails` and `AnswerLost`
its failures. The scheduled run is `StartRun` and `SweepNext` (the sweep), then, once `Swept`, `List`, `Expire`,
`ApplyEvent`, `Reconcile`, `FetchToken` and `StoreToken` (the pull), with `RunFails` and `Crash`. `young` and `old`
are the two age limits of the sweep. `since` is what the stored sync token covers, `fresh` what the token
about to be stored will cover. `ReadBack` fails, as the unique index makes it, when another row has the id.

Left out, and so status *partly*: disconnecting Google (which clears the markers), a refused grant (which
skips the sweep), deleting a series, the window and the pages of a listing, the order and size (20)
of a sweep, and importing contacts from guests.

### MailSync

`feed` is Gmail's history, a sequence of records; a position is an index in it. `StartSync` chooses
between `Baseline` then `ListAll` (no position) and `ListHistory`; `HistoryExpired` turns the latter into a
listing that has no position. `ProcessRecord` applies one record of a page, `TakeBatch`, `Got`, `GetFails`,
`Upsert` and `UpsertFails` fetch and write messages for the initial sync, the feed and the retry alike,
`EndFetch` and `EndPage` record the failures, `ReadProfile` is the position of a catch-up, `Reread` and
`EndRetry` the retry, `Store` the new position, `RunAborts` any other error or the end of the process.

`Track` is the retry list with its limit (`MaxTracked`, 500 in the code); which ids a full list loses, the oldest, is left
open, and `dropped` is the history of them.

Left out, and so status *partly*: the date window
of a listing (all messages are inside it), the customers, contacts and attachments written with a message.

### TaskGraph

A request that adds a dependency is `StartBlock`, one `Hop` for each query of the breadth-first search, and
`Block`; one that moves a task is `StartNest`, `CountSubtasks` and `Place`; one that creates a
subtask is `StartNest` and `Place`, one that spawns a subtask's next occurrence `StartSpawn` and `Place`. `Refuse` is every refusal. `Create`, `Unnest`, `Unblock` and
`Delete`, with its cascade to subtasks, are one statement each. `Block` follows when the search has ended or has made its last hop
(`MaxHops`, 50 in the code), with whatever is left of its frontier unread. The histories say which writes no check
vouches for: `stale`, the requests under way that a write of another has escaped, `unchecked`, the dependencies they added or that
were added after a search cut short, and `misplaced`, the tasks they placed or copied.

### TaskCompletion

`StartUpdate`, `StartBatch` and `StartReorder` read, `Gate` and `GateAll` ask for open blockers, `Write` writes one
task or all of a drag, `ReadRows` and `Spawn` are `spawnNextOccurrences`, `Answer` ends. `TakeTask` is the loop of a batch, which
compares with the statuses read before it. `Throw` is any error, among them the write of a task that was
deleted meanwhile, and `Die` the end of the process. `late` and `excused` are history; the comments of the
properties say what they excuse. The unique `recurrenceNextId` is the claim inside `Spawn`.

### Snooze

One thread, as nothing here reads two. `StartCreate`, `Prior`, `Replace`, `Insert`, `TakeOut`, `TakeOutAtGmail`, `EndCreate` are
create; `StartCancel` or `StartFire`, then `ReadThread`, `PutBack`, `PutBackAtGmail`, `ResolveStep` are cancel and fire;
`ClearReplied` and `ListDue` the scheduler's check; `StartMove`, `MoveCall`, `MoveWrite`, `EndMove` the owner's moves;
`SyncApply`, `Arrive` and `DeleteMessage` what the sync does to the rows, and `MoveAtGmail` the owner's moves there.
Which reminder is due is the clock's choice. UNREAD is not among the labels, but a restore that only has to mark its
newest message unread writes all the labels it read, so `Unread` has it write that row. `home` is history: the mail the owner has
in the inbox, snoozed or not. `excused` is history too: an action that meets one of the overlaps or faults under Deviations puts
in it the messages that may be lost, and no others. `BeingMoved`, `BeingSnoozed`, `BeingMarked`, `BetweenSnoozes` and `Misled` name
those overlaps.

### GoogleGrant

A sync is `StartSync` (`currentGrant`), `ReadRow` (the client), `Refresh`, `Store`, `Clear` or `Refused`, and `Call` or `CallExpired`, which
stand for all its calls to Google. A 401 sends it back to `ReadRow` with a forced refresh, as `noteAuthFailure` does.
The owner's requests are `Reconnect` or `SignIn`, then `Find`, `WriteGrant` or `WriteSignIn` and `ClearAfter`; and `Disconnect`, `Revoke`, `Delete`.
A grant is a number; tokens are named by the grant they come from. `owner` is history: the row
each grant was stored in.

### Drafts

A draft's text is a version number, its Gmail message id. A sync is `StartSync`, `List`, for each draft `NextDraft` and
`MirrorFetched`, and `Prune`; `touched` is what `updatedAt >= startedAt` tells the prune. `Request` and `RequestNew` are the reads
of a request with what `resolveThreading` looks up, `SaveAtGmail`, `OpenAtGmail`, `MirrorOwn`, `SendText`, `Send`, `RemoveAtGmail` and `DeleteRow` its steps. `reply` of a draft at
Gmail says that it has the headers that thread it; `reply` of a row, that `replyToEmailId` is set. `OriginalGone` is the deletion of the
message a draft replies to: the row keeps the id, and a save or send that looks it up from then on gets no headers.

## The runs

Twelve, one for each question. A run that states fairness also checks safety.

| Run | Instance | Result |
|---|---|---|
| `scheduled_send_safety` | 2 processes, 2 rows, 3 tries, 1 fault, lost answers | holds |
| `scheduled_send_live` | 2 processes, 2 rows, 2 tries, 1 fault | the promise and liveness hold |
| `runner` | 3 accounts, 1 hung, 2 batches of 2 workers, 1 request | holds |
| `calendar_safety` | 4 rows, 2 events, 2 edits, 1 fault, expiring tokens, no overlap | holds |
| `calendar_converges` | the same without expiry | liveness holds |
| `calendar_overlap` | 2 rows, 2 requests that may overlap | `SyncSparesUnpushedEdits` violated |
| `mail_sync` | 2 messages, 1 label, 3 changes, a retry list of 1, 2 faults, expiry | holds |
| `task_graph` | 4 tasks, 2 requests, 4 calls, searches of 2 hops | holds |
| `task_completion` | 2 tasks, 2 successors, 2 requests, 3 calls of up to 2 tasks, 1 fault | holds |
| `snooze` | 2 messages, 2 reminders, 2 requests, 2 calls, 1 event, 1 fault | holds |
| `grant` | 2 syncs, 1 request, 2 grants, 2 rows, 1 call, 1 fault | safety and liveness hold |
| `drafts` | 1 draft, 3 texts, 1 sync, 2 requests, 3 calls, 2 events, 1 fault | safety and liveness hold |

What they show:

* **Scheduled send.** A message is sent again only after an answer of Gmail was lost (`NoDuplicateSend`) and never
  more than three times (`DuplicatesBounded`). A cancelled row was not sent (`CancelledNotSent`), nothing goes
  out early (`NeverEarly`), and sent, failed and cancelled are never queued again (`OutcomeStands`). Without lost
  answers the owner cannot tell the job from `SendPromise`, and a row that stays due is settled.
* **Runner.** `OneSyncPerAccount` holds whichever callers meet, and `NobodyStarves`: with an account hung, every
  other one is synced again and again, as the next batch does not wait.
* **Calendar.** While edits of an event do not overlap a push of it, an edit stays marked and shown until Google
  has it (`EditStaysUntilItLands`), no pull changes it (`SyncSparesUnpushedEdits`), every marked row is pushed or
  ages out (`PendingDrains`), and both sides come to agree (`Converges`). `calendar_overlap` drops that assumption:
  `settlePending` clears the marker of a later save and the pull reverts it.
* **Mail.** Every message at Gmail has a row, is on the retry list, or has its arrival recorded after the stored
  position (`NothingForgotten`); deletions and label changes likewise (`NoGhosts`, `LabelsFollow`). In all
  three a `skipped` record is excepted, one that falls between the listing of a catch-up and the position stored
  after it; and but for `NoGhosts` a `dropped` message, one that failed when the retry list was full. `NoGhosts` also excepts deletions from before the last listing: a listing reports none.
* **Tasks.** Whatever is removed, deleted or moved while a check runs, every set of tasks that waits for itself does so through a
  dependency that no complete check vouches for: its search was cut at the last hop, or another addition escaped it
  (`NoDeadlock`). Every third level has a task that was placed after its check was overtaken by another placing, or copied
  from one (`TwoLevels`). A race charges the one edge or task it let through: all others still obey.
  An occurrence has one successor (`OneSuccessor`), a finished one has its successor or somebody is still to
  spawn it (`NoOccurrenceLost`), and none is finished over a blocker that was there at its gate
  (`NoFinishOverBlocker`). What is excused stands under Deviations.
* **Snooze.** Mail that was in the inbox is in it once nothing is under way, or an armed snooze will bring it
  back (`NothingLost`), through snoozes of snoozed threads, early cancels, fires, moves and label changes that the
  sync applies late. The exceptions are single overlaps and faults, each charged to the messages it touches.
  A thread has one armed reminder of a kind, also when creates of it overlap, unless one inserts between the two
  statements of another, and then until the next create (`OneArmed`).
* **Grant.** A refusal is shown only of a grant that Google refused, however late it comes in (`NoFalseRefusal`),
  of every such grant (`DeadGrantReported`), and goes away when the stored grant works, a restart in the
  middle of a reconnect included (`ReportHeals`). A token that was refreshed before a disconnect is not
  written into the next connection (`TokensOfThisConnection`).
* **Drafts.** The mirror comes to agree with Gmail, whatever sync and requests overlap (`MirrorConverges`). A prune
  removes no row of a living draft (`RemovesOnlyGone`), and a reply is sent as one through edits here and at Gmail, syncs
  and reopenings (`ReplyKept`), unless a fault or gap under Deviations met its draft, or the message it answers was gone.

### Bounds

`MaxFaults`, `MaxVersion`, `MaxHistory`, `MaxCalls`, `MaxEvents` and `MaxEdits` bound what the environment does; sets of ids bound what is ever
created. One fault is enough for each kind of failure to meet every step. Two processes, two requests, or
one request with the scheduler are the pairs the races of the code are between; a third of a kind adds
no race that a pair lacks, and the theorems cover any number. In detail:

* Two edits of an event are a create and an update of it, or one on each side. Three changes at Gmail are
  an arrival, a change of its labels and a deletion, on both sides of a listing. Two failures are what fills a retry list of one and
  more, and what meets a run twice. `calendar_converges` needs
  four rows, as each of two events may get one from its creator and one from the pull. `MaxTries` is 3 as in the
  code, and 2 in the liveness run, where the third try adds states and no behaviour.
* `task_graph`: with searches of two hops, a cycle of four tasks is the shortest that a single addition closes unseen; of three, the
  shortest that takes two additions besides an edge. Three tasks make three levels. Four calls are three dependencies and the one that closes
  the cycle, or two subtasks and two more writes. `task_completion`:
  one task that blocks another, with a successor for each; three calls are two that race and one
  that adds the blocker or reopens between them.
* `snooze`: the second message makes a thread whose rows and calls can be half done; two reminders are the one that is
  replaced and its replacement; two calls are every pair of a create, a cancel and a move, beside the scheduler.
* `grant`: two grants and two rows are the connection before and after a reconnect or a disconnect. One request of
  the owner, since what two of them at once do is a deviation (below).
* `drafts`: drafts do not interact, so one will do; three texts are the first, the one a sync has fetched, and a newer
  one. Three calls create a reply, edit or reopen it, and send it, two of them at once; two events are an edit in Gmail and the deletion of the
  message replied to. Syncs may overlap in the code; the run has one, with `open` as the other that fetches before a save
  and writes after it. `DraftsProofs` covers several drafts and syncs.

`CHECK_DEADLOCK FALSE` stands where the bounds on calls and events let the system come to rest.

`PROJECT.json` gives a mutant for every property: a plausible bug in one definition, under which the
same run finds the property violated. The mutated definitions stand beside the ones they replace and
are marked "Mutated".

### Fairness

Weak fairness, and in one place strong. `ScheduledSend`: every process's tick, because cron fires every 30 seconds and an awaited statement or request settles;
`Exit` of a drained process, bounded by the deadline in `lib/lifecycle.ts`; `Restart`, by the platform;
and the two clocks. `PerUserRunner`: cron, workers, and the syncs of accounts that do not hang. `CalendarPush`: the
scheduled run, the pushes, and the minute after which a row may be retried. `MailSync`: the sync. `Drafts`: the syncs, which cron
repeats, and a request that has started. `GoogleGrant`: the syncs, a request that has started and the hour after
which an access token expires; and strongly `Call`, since a sync whose token keeps expiring during its calls
still ends, having finitely many. No fairness is assumed of the owner, of changes at Google, or of failures;
`BecomeOld`, the day after which a row is no longer retried, need not happen. `Snooze`, `TaskGraph` and
`TaskCompletion` state safety only: their properties say what holds when nothing is under way, or at each step.

## The proofs

TLAPS checks these for every value of the constants under the assumptions the modules name (the
bounds are natural numbers, `None` is none of the ids, requests and batches are different things).

* `ScheduledSendProofs`. `IInv` is inductive. The promised bounds are not: that a pending row can be sent says
  nothing of how often it was. `IInv` bounds the accepted messages of each row by its status, its
  retry count (`accepted <= retryCount` while it waits, which is why a retry counts before the next try) and the
  process that holds it (`HolderInv`: the count that process will write is still the row's). From it
  follow `TypeCorrect`, `SendSafety`, `TriesBoundDuplicates`, `CancelHolds`, `OutcomesStand`, `SentWhenDue` and `PromiseKept`, which
  maps every step to a step of `SendPromise` or a stutter, when `LossPossible` is false.
* `CalendarPushProofs`. `TypeCorrect`, `EditsSafe` and `PullsSpareEdits`, under `Calm` (no overlap). The invariant adds to the property who has a
  row in hand (`Exclusive`), that a request's row is too young for the sweep (`RequestsYoung`), and that what a push
  carries is the owner's last save or one Google has had (`Faithful`), which is what makes it safe to clear the marker.
* `MailSyncProofs`. `TypeCorrect`, `NoMessageLost`, `NoGhostsStay` and `LabelsAreFollowed`. In the middle of a run a message may be in the hands of
  the run only. The invariant says of each phase where: in what it has listed, fetched or failed
  (`Found`), or recorded after the position it has read to (`Mark`), and separately of the database (`Rest`), which
  is what remains when the run dies. Of a message that is gone it says that its deletion is recorded past the position
  read to, or lies before the last listing (`GhostInv`). Of a label that differs (`LabelInv`) it says that a recorded
  change is still ahead or the message is still to be written. It needs that the last change of a label leaves it as
  Gmail has it (`LastChange`), so that applying records in order ends at the truth, and that whatever a run
  fetched earlier and has not written is behind a change it has still to apply (`Follows`).
  The module starts with `RunnerTypeCorrect` and `GuardSafe` of `PerUserRunner`, since `MailSync` has one sync of an account at a
  time and that is what the runner's guard is for. `OneSyncPerAccount` is not inductive without `GuardExact`, that the guard holds
  exactly the accounts that are run, which is what lets a worker start one.
* `TaskGraphProofs`, for any number of tasks and any limit of hops. `NoDeadlockedTasks` needs to know of every search that no addition has
  escaped that what can be reached from the task without passing its frontier has been seen, although edges and tasks go
  meanwhile; then an edge that is added with the frontier empty closes no cycle of checked edges.
  `ChecksComplete` says when a frontier is empty: no search is cut while the hops allowed are as many as the tasks, since every hop
  sees a task it had not. `SubtasksHaveNoSubtasks` needs that what a request under way has found, that its task has no
  subtasks or that its parent is no subtask, still holds unless it is `stale`. And `TypeCorrect`.
* `TaskCompletionProofs`. `OneSuccessorEach`, `OccurrencesKept`, `GateHolds` and `TypeCorrect`. A row that was spawned is the one its
  occurrence names (`Claimed`), so that a second candidate would need a second name. A request about to write has passed its
  gate for what it writes, and what blocks that by now came later (`Gated`). An id not in use yet has no history (`Fresh`).
* `SnoozeProofs`. `TypeCorrect`, `MailComesBack` (`NothingLost`) and `AtMostOneArmed` (`OneArmed`). `NothingLost` speaks of the moments when nothing
  is under way, so it is far from inductive; `LostInv` says what holds in the middle. `In(m)` is where a message will be once
  the sync has caught up: what the last pending change of INBOX says, or the row; Gmail agrees with that change (`FeedAgrees`). Every message
  of the owner's inbox that is not excused is `In`, or a create stands between its `Replace` and `Insert` and remembers it, or
  an armed snooze covers it and any request that is restoring has it still to restore or to claim (`NoneForgotten`). The rest
  keeps that true while others work: what a create has read and is to take out is covered by the snooze it made (`SnoozesSafe`), a
  create that looked too early replaces none that matters (`BlindHarmless`), rows written with labels
  read before do not take a message away (`MarksHarmless`, `AwayStaysAway`), and a message that is being moved is moved by one
  request (`MovesAlone`). Stating this found overlaps that two requests and two reminders do not reach, such as two creates of
  which one looked before the other made its snooze; the property names them now. `OneEach` adds to `OneArmed`
  that a create about to insert finds none armed of its kind, unless another has inserted since it looked (`crossed`).
* `GoogleGrantProofs`. `TypeCorrect`, `RefusalsTrue` and `TokensStay`. The invariant says of each sync that the grant it works
  with was stored in the row it read, and that a grant which was replaced does not come back; hence a
  refusal that is conditional on the grant, and a token that is written by the row's id, can only meet
  their own. `TokensStay` assumes that the owner does one thing at a time.
* `DraftsProofs`. `TypeCorrect`, `PruneIsSafe` and `RepliesThread`. A row that a running sync neither listed nor saw touched is of a draft that is gone
  (`SyncOK`), as a draft that exists was listed, or written since. A reply's draft carries its headers at Gmail,
  its row says so or the save that creates it is about to, and every request that writes it knows (`ReplyOK`). A request that finds the
  message gone does not, and is what ends that for its draft.

Only model-checked: everything under fairness (`DueRowsSettle`, `NobodyStarves`, `PendingDrains`, `Converges`,
`MailArrives`, `DeadGrantReported`, `ReportHeals`, `MirrorConverges`), which is beyond the prover.
Every invariant that a run checks is a theorem. The violated property is, of course, only refuted.

## Deviations

What the models met that a comment or the interface does not say, and that the properties therefore
except. The first is checked by a run; most others are exceptions that a property names, without which
TLC finds it violated.

* *Overlapping edits of an event.* `settlePending` (`calendarService.ts` 117) clears the marker by row id, so the push of
  one save clears the marker of a later one, and the next pull reverts that edit (`calendar_overlap`).
* *Lost answers of Gmail.* The catch of a send takes every error for a refusal (`emailService.ts` 1991), so a message whose
  answer was lost goes out again; the comment "each row exactly once" is too strong.
* *A catch-up after an expired position* stores a position that is read after its listing (`emailService.ts` 230); what falls in
  between is in neither. The comments say that a catch-up recovers everything.
* *A full retry list* (`emailService.ts` 114) loses its oldest ids while the position moves past them, so that an outage of
  more than 500 fetches costs messages; the comment of `retryFailedMessages` says that it is "a delay rather than a message".
* *The cap of the runner* holds for each batch: two that overlap may exceed it together, which the comment of
  `runAll` excludes.
* *The reconciliation of a full listing* (`calendarService.ts` 452, 528) removes the row of an event created meanwhile, and a
  pull that imports an event before its create has read it back leaves a pending row without an id,
  which the sweep inserts again (`calendarPendingPush.ts` 65).
* *Tasks.* Two dependency additions that overlap may close a cycle, and so may one alone when a chain of blockers is longer than
  the 50 hops of the search (`taskService.ts` 292), which then lets it through. Two writes of a parent that overlap may make three
  levels, and the next occurrence of a task on the third stands there too. A batch that throws, because a task of it was deleted, loses the spawns of what it had
  finished. An update that finds the task done, as it read it, gates and spawns nothing when it
  finishes one reopened since. A repeating task that is created finished, or gets its rule when it is,
  spawns nothing.
* *Snooze.* A create that inserts between the cancelling and the inserting statement of another (`snoozeService.ts` 311–316) leaves two armed
  reminders, until the next create of the kind (`doubled`). The rest is what `excused` names. A create that begins, or a process that
  ends, between another's `Replace` and `Insert` loses where the thread came from; so does a create that looked before another made its snooze, which
  it then replaces by one that brings nothing back, and one that finds the wrong of two armed snoozes. A cancel or a fire beside a create
  restores what is still to be taken out, and one that reads rows behind the sync may find them restored, or in the trash. A
  restore that only marks a message unread writes the labels it read over a move made meanwhile. Two moves of a message at once, or
  a move beside a create, may end with the row and Gmail at odds. A failed Gmail call is not repeated, and the sync may
  then undo the row. Untrash puts INBOX on the row only, over the labels it read, which the sync may have changed; and mail that was snoozed,
  trashed and restored goes to the archive.
* *Grant.* A sign-in that overlaps a disconnect and a connect may write the tokens of the old connection into
  the new row. A sync in flight at a disconnect goes on storing mail after "all synced data" was deleted
  (`SettingsPage.tsx` 1155 promises it); this is outside `GoogleGrant`, which keeps the row only.
* *Drafts.* When the answer to `drafts.create` is lost, or the process dies before the row, the draft is
  later found by a sync and nothing knows it is a reply; the next save creates a second draft. A draft
  opened in that gap is saved without its reply headers, and one that Gmail refuses to delete returns, also no longer a reply. A reply
  that is saved or sent when the row of the message it answers is gone carries no reply headers (`draftService.ts` 576–584), although its
  draft had them and its row still names the message: the recipients get a new conversation. A reply begun when that
  message is gone already is a plain draft, and `RequestNew` counts it as one.

## Assumptions

One process runs the syncs (`jobs/schedulers.ts` 14–18), so that the guard, which is in memory, is one guard. Several may run
scheduled send. Database statements are atomic, and a conditional update decides and writes in one
step. Gmail's history has every change in order and its ids are not reused. Google applies a request that it answers.
`CalendarPush` takes the comment of `MIN_AGE_MS` at its word: a row becomes ripe for the sweep only when the
request that pushes it is over, except in `calendar_overlap`. `GoogleGrant` takes it that Google revokes all
grants of a user at once, and refuses a revoked one from then on.

## Not modelled

Most of the repository by lines is the browser client and request handlers that read, validate and
write one record: pages, lists, forms, the CRM, search, dashboards, templates, text conversion. They keep no state
over several steps that the database does not already guard, so that a model of them would restate the code;
`PROJECT.json` lists each with its reason, and the share of lines the models cover is small for it.
Of the parts with such state, timers, notifications, the lifecycle and the sockets are not modelled yet.

## The plan

In this order, each with its proofs where they are within reach:

1. `Lifecycle` with `Sockets`, composed with the jobs it waits for.
2. Timers (two starts that both find none running) and notifications (look, then insert).
3. Disconnect composed with the syncs it overtakes; series and the refused grant in `CalendarPush`.
4. `recurrence.ts` as an operator, checked against a reference definition.

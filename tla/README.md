# A TLA+ model of breadbox

breadbox imports bank transactions into PostgreSQL, keeps them up to date with
scheduled and webhook-triggered syncs, and runs LLM workflows over them. One server
process does all of this with goroutines; a command-line tool shares its database.
This directory models the parts whose correctness depends on order, failure and
time, checks them with TLC on small instances and proves the central invariants with
TLAPS for every size.

| module | models | checked by | proved in |
|---|---|---|---|
| `LedgerMirror` | what the sync engine promises: an atomic importer | as a property of `SyncEngine` | `SyncEngineProofs` |
| `SyncEngine` | `internal/sync/engine.go`: concurrent `Engine.Sync` calls for cursor-based providers | `MCSyncEngine.cfg`, `MCSyncEngineLive.cfg`, `SyncEngineGhostRows.cfg` | `SyncEngineProofs` |
| `PollImport` | one sync of a poll-based provider, row by row, and users' deletions | `MCPollImport.cfg`, `PollImportLiveHold.cfg` | `PollImportProofs` |
| `SyncScheduler` | `internal/sync/scheduler.go`, `schedule.go`: ticks, workers, backoff | `MCSyncScheduler.cfg` | `SyncSchedulerProofs` |
| `RuleApply` | `internal/sync/rule_resolver.go`, `internal/service/rules.go`: transaction rules in a sync and on stored rows | `MCRuleApply.cfg` | `RuleFoldProofs`, `RuleApplyProofs` |
| `AccountLinks` | `internal/service/account_links.go`, `internal/sync/matcher.go`: links, matches, attribution | `MCAccountLinks.cfg`, `AccountLinksReject.cfg` | `AccountLinksProofs` |
| `HostedLink` | `internal/service/hosted_links.go`, `internal/api/hosted_link_page.go`: one hosted-link session | `MCHostedLink.cfg` | `HostedLinkProofs` |
| `AgentRuns` | `internal/service/agent_orchestrator.go`: workflow runs, slots, keys | `MCAgentRuns.cfg`, `AgentRunsDebounce.cfg` | `AgentRunsProofs` |

`MC*.tla` modules hold only the symmetry set and the function-valued constants of an
instance. `PROJECT.json` maps every definition to the lines it stands for.

## 1. Inventory

What the repository consists of, the state each part keeps, and what is hard in it.

**Sync engine** (`internal/sync/engine.go`). State: a mutex per connection in memory;
`bank_connections.{status, sync_cursor, consecutive_failures}`, `transactions`,
`sync_logs`. Operations: `Sync`, called by the scheduler, the webhook handler, the
admin page, REST and startup. Hard: pagination that the bank invalidates half-way
(`ErrSyncRetryable`), buffers that must be dropped with it, one transaction for rows
and cursor, statements before and after it that fail one by one (some with a warning
only), deadlines that cut the bookkeeping off, crashes. Correct when rows and cursor
agree but for rows a flush passed over with a warning, no other change of the bank is
lost or applied twice, and a connection left alone catches up.

**Transaction rows within a flush** (same file, `queries/transactions.sql`). State:
rows with `pending` and `deleted_at`, accounts, the `excluded` flag, annotations.
Hard for Teller and SimpleFIN, which return a window of time instead of changes: the
window must overlap the last one, what is *missing* from it decides which holds are
deleted, the window of the request (days for Teller, instants for SimpleFIN) and that
of the deletion (days) are computed apart, and time passes and users edit meanwhile.
Correct when nothing the bank reported in time is missing, no hold survives its end or
is deleted while a sync would still ask for it, and money is never counted twice.

**Sync scheduler** (`internal/sync/scheduler.go`, `schedule.go`). State: cron entry;
per tick a snapshot of due connections, worker slots and a `done` channel. Hard: ticks
overlap each other and the startup job, decisions go stale in the queue, missed fires
must be caught up, failures back off. Correct when every fire is served, no tick
blocks and backoff is respected.

**Connection service and webhook handler** (`internal/service/connections.go`,
`internal/webhook/handler.go`). Disconnect, reactivate, pause, status changes:
statements that race a running sync of the same connection.

**Workflow orchestrator** (`internal/service/agent_orchestrator.go`,
`internal/agent/concurrency.go`). State: a semaphore, a map of cancel functions,
`workflow_runs` rows, one API key per run. Entry points: `RunNowAsyncWith` (page,
REST), `RunOrSkip` (cron), `FireSyncCompleteAgents` (after a sync), `RunNow`
(command line). Hard: five places where a slot must be given back, keys to revoke on
every path, panics, cancellation that races completion, contexts that die before the
cleanup statement runs, restarts with a command-line run in another process. Correct
when every slot taken is held by a run or by the one kind of request that is known to
leak it, no key leaks, and a run's row tells what happened.

**Workflow scheduler** (`internal/service/agent_scheduler.go`): turns definitions
into cron entries; a source of triggers here.

**Server lifecycle** (`internal/cli/serve.go`): startup sweeps of orphaned logs,
rows and keys; shutdown that does not wait for goroutines.

**Rules** (`internal/sync/rule_resolver.go`, `internal/service/rules.go`). State:
`transaction_rules` with their hit counts, and what they write: category, tags,
metadata, series and flag of a row, and its annotations. Operations: the flush of a
sync folds the active rules over each row it has written; `ApplyRuleRetroactively` and
`ApplyAllRulesRetroactively` walk the stored rows in pages. Hard: rules of one pass
read and undo each other's effects; the fold exists twice; pages are read outside the
transaction that writes them while users edit, delete and merge rows, rules, tags and
categories; batches and hit counts fail one by one. Correct when the net intent is what
the rules say one after the other, both lanes agree, and the annotations do not
contradict the row where the writer annotates at all.

**Account links and matcher** (`internal/service/account_links.go`,
`internal/sync/matcher.go`). State: links of a primary and a dependent account,
matches of their rows, `is_dependent_linked`, `attributed_user_id`. Operations:
creating, changing, deleting a link; confirming, rejecting, making a match;
reconciliation after every sync and on request. Hard: no operation uses a transaction,
so pairs of writes that belong together can be split by a fault or by another
operation. Correct when a row is attributed exactly because of a match, a linked
dependent account is marked, and no row with one candidate waits for ever.

**Hosted link sessions** (`internal/service/hosted_links.go`,
`internal/api/hosted_link_page.go`, `internal/middleware/hosted_link.go`). State: one
row per session. Every request reads the row for the bearer check and again for each
service call, decides, and writes it back by id. Hard: stale writers. Correct when the
columns never contradict each other and no result is lost.

Interactions: scheduler, webhook handler and operators call `Engine.Sync`; its flush
applies rules, its hooks reconcile account links and call `FireSyncCompleteAgents`; a
hosted link creates or reactivates connections; orchestrator runs write through the
REST API with their key; everything else meets in the database.

**Not modelled.** Provider HTTP clients apart from the window they ask for, the sidecar
child process, notifications and backup: I/O without state that other parts read. CSV
import, reports, search, feed and overview: data transformations within one statement
or transaction. OAuth, API keys, members, sessions, sync schedules: single-statement
records. REST, MCP and admin transport and rendering. Device codes
(`internal/service/device_codes.go`): approval, denial and expiry are updates guarded by
the pending status; only the poll, which reads the token and clears it in two
statements, would be worth a model. What is left out of a modelled part is said in its
section.

## 2. Plan

All of it is carried out; the order was that of importance.

1. `LedgerMirror`, `SyncEngine`, `SyncEngineProofs`: the core.
2. `SyncScheduler`, `SyncSchedulerProofs`: who calls the engine, and when.
3. `AgentRuns`, `AgentRunsProofs`.
4. `PollImport`, `PollImportProofs`: the flush, row by row.
5. `HostedLink`, `HostedLinkProofs`: requests as read-decide-write processes over a row.
6. `AccountLinks`, `AccountLinksProofs`: matches as a relation between the rows of two
   accounts, reconciled while users and syncs change links and rows.
7. `RuleApply`, `RuleFoldProofs`, `RuleApplyProofs`: rules within a flush and over the
   stored rows.

Next would be device codes, the condition trees of rules against a reference
evaluation, and the series detector.

Composition: the scheduler and the engine are checked apart, joined by contract
rather than by product. `SyncScheduler` uses two facts about the engine, that at most one call
per connection works and that every call ends; `SyncEngine` has them as `LockInv`
(proved) and `LockReleased` (checked). `PollImport` and `RuleApply` take the first of them too.
`AccountLinks` takes from the scheduler that connections are synced again and again.

## 3. SyncEngine

*Correspondence.* A member of `Call` is a goroutine inside `Sync`; `pc` names the
statement it is about to run. `CreateSyncLog`, `LoadConnection`, `FetchPage`,
`FetchLastPage`, `MutationDuringPagination`, `ReauthRequired`, `CommitFlush`,
`MarkActive`, `UpdateSyncLog` and `CountAndReturn` are the statements of `Sync` and
`runSync` in their order, each with its failing form. The flush transaction is one
action at its commit, because nothing else can see it earlier;
`CommitUnacknowledged` is the commit that takes effect though the call sees an error.
A `TryLock` that fails has no effect and is a stuttering step. `DeadlinePasses` is
the scheduler's timeout (`syncTimeout`): every later statement of the call fails.
`DeleteConnection`, `ReactivateConnection` and the webhook actions are the other
writers of the row. `Crash` drops all goroutines; `Restart` sweeps the logs.

*Rows passed over.* When `ListAccountsByConnection` fails, the engine only warns
(`engine.go:252`); each row's account is then looked up outside the transaction
(`resolveAccountID`), and a row whose lookup fails is passed over with a warning while
the cursor commits (`engine.go:564`). `WriteBatch` takes any set of such rows when
statements may fail. The history variable `missed` collects them per connection; only a
later change of the row by the bank makes up for one, which is why the properties name
the exception instead of assuming it away.

*Environment.* The bank is `feed`, a sequence of states it has published. A cursor
is an index into it, and a pagination returns the difference of two states in pages
of any cut, as the provider documents. The credentials of a disconnected connection
do not come back (the update of credentials is SimpleFIN's). Rows of excluded or
unknown accounts are left to `PollImport`.

*Runs.*
- `sync_safety`: two overlapping calls, two transactions, two bank states, one crash,
  failing statements; 1 401 858 states. `LedgerMatchesCursor`: live rows are exactly the
  bank state the stored cursor names, but for the rows in `missed`.
  `CursorNeverRegresses`. `CounterAgreesWithLog`: the failure counter that
  drives backoff does not contradict the newest log row. `RefinesLedgerMirror`: seen
  through `creds`, `cursor`, `ledger` and `missed`, the engine is the one-step importer
  of `LedgerMirror`, which misses only changes between its two cursors. With one connection calls overlap only if the mutex is broken,
  which is what the mutant without it shows; connections share nothing else.
- `sync_liveness`: `LockReleased` and `EventuallyMirrored` (rows in `missed` excepted)
  under `FairSpec`; one call, one transaction, two bank states; 110 289 states.
- `sync_ghost_rows`: a statement of the documentation that the code does not keep (see
  section 10).

*Bounds.* Two states of the bank are enough for every kind of difference (post,
amend, withdraw) and for one mutation during a pagination; two failures for counting,
saturating and resetting; one crash reaches every state a second one could start
from, since `Restart` leaves nothing behind but database rows.

*Fairness.* Weak for a call's own steps (a goroutine runs) and for `Restart` (the
supervisor restarts the server). Strong for `CronSync` (the tick comes every 15
minutes and TryLock must not lose every time) and, per connection, for the successful
form of opening the log, loading, fetching and committing: an outage of bank or
database that recurs for ever at the same step would rightly prevent a mirror.

## 4. PollImport

*Correspondence.* `BeginSync` is the snapshot at the start of `runSync` together with
the client reading the clock; `FetchAccount` the requests for one account;
`Flush` the transaction: discovered accounts, `processTransaction` for each row
(`Written`, `Annotate`), `cleanStalePending` (`StaleHolds`), the cursor. `SyncFails`
is every way not to get there. `DeleteTransaction`, `RestoreTransaction` and
`SetExcluded` are the service calls. The bank is free: it may report a transaction any
time late, let a hold expire, or settle it under another identifier.

*Time.* The clock counts instants, `PerDay` to a day; rows carry whole dates. `Asked`
is what a request covers: whole days from Teller (`byDay`), from the cursor's instant
minus `Overlap` to the clock from SimpleFIN, the end exclusive
(`simplefin/sync.go:84,90,98`). `CleanDays` is what the cleanup covers: always whole
days (`engine.go:1280,1296`). The first sync has no cursor; it asks `Backfill` back (365
days from SimpleFIN) and cleans `FirstClean` back (two years). `since` is where the
first committed sync began to ask.

*Properties.* `InTime` is what a window can promise, by the clock: the bank changed
the transaction at most `Overlap` after its own instant (ten days in the code) and
before the last sync read the clock. Under it, `NothingMissed` for what is not older
than `since`, `NoGhostHolds` and `CountedOnce`. `HoldsKept`: a provider asked for whole
days never loses a live hold; one asked for instants loses none that a sync would still
ask for. Without that condition it is false of the code, since the cleanup covers the
whole first day and the request only its end: `LiveHoldsStay` (section 10).
`TimelineTruthful` has no condition. What is *not* in time is lost or stays for good, by
design of the window: a hold that disappears after eleven days keeps its row.

*Runs.* `poll_import`: a provider of either kind; two transactions of one account, so
that one can replace the other; the account known or discovered; six instants, two to a
day, `Overlap` 2, so that the cursor can fall within a day and a date can leave the
window while the cursor is behind; `Backfill` 3 and `FirstClean` 4, so that both first
windows end inside the run and differ; one user edit; 13 699 319 states.
`poll_live_hold`: section 10.

*Left out.* Amounts; rules, which `RuleApply` has; the classification by clocks within
two seconds, which the header of the module turns into an assumption. The pages and
windows of one account, fetched at different moments, are one read. The bridge filters
by the instant that also dates the row; a hold without one is dated by the client at the
fetch. A row passed over because the lookup of its account fails is `missed` in
`SyncEngine`; the cleanup goes by the identifiers returned and does not notice.

## 5. SyncScheduler

*Correspondence.* `Tick` are the goroutines a cron tick may run in, `Startup` that of
`RunStartupSync`. `TakeSnapshot` is listing, resolving schedules and deciding
(`ScheduleDue`, `Suppressed`); `Skip`, `Spawn`, `Drop` are the loop and its workers;
`Report` the send on `done`; `EndJob` the drain. `EndSync` is `Engine.Sync` seen from
outside: it succeeds, fails, or is cut off before it can count (the context is dead).
Time advances only when no goroutine can run (`Settled`).

*Run* `scheduler`: two connections, one due at times 1 and 2, the other at 1 plus a jitter of one unit, one worker
slot, one tick goroutine beside the startup job (its overlap with the tick is the
overlap of two ticks), timeout longer than the tick interval so that jobs do overlap;
1 127 528 states. `JobInv`: every listed connection is to do, in a worker or
reported, exactly once, which is why the drain ends. `FireServed`: a tick serves every
fire of the connections it listed. `BackoffHonoured`: a job never overlooks an error
that was there when it took its snapshot. `JobsEnd` under fair goroutines.
`events`, `MaxTime` and `MaxFailures` are bounds; the clock stopping at `MaxTime` is
the only deadlock, hence `CHECK_DEADLOCK FALSE`.

*Left out.* `Stop`, the daily log cleanup, the merge of schedules for household, user
and connection, which `Fires` stands for.

## 6. AgentRuns

*Correspondence.* A member of `Run` is one trigger with its goroutine, row and key.
`pc` walks through `checkHouseholdCeiling`, `Semaphore.Acquire`, `prepareRun`
(`CreateRow`, `MintKey`, `AssembleSpec`), the sidecar, `CompleteAgentRunDB`, the
deferred revocation, release and deregistration, with the failing form of each
statement, the statements that run on a context which may be dead (`MarkError`,
`MarkSkipped`) and those on a fresh one. Kinds of run: `async` (goroutine of its own,
cancellable, recovers panics), `cron`, `webhook`, and `cli`, another process with its
own semaphore whose row the server's sweep can close under it. `Panics` is a panic in
the goroutine, which recovers it; `PanicsPreparing` one in the request itself, after
`Acquire` (`agent_orchestrator.go:311`) and before the goroutine starts. The recovery
of the HTTP layer (`api/router.go`) takes that one: the stage is `leaked`, slot, row
and key stay as they are, and only a restart gives them back. `Crash` ends every
goroutine of the server, `Restart` sweeps rows and keys.

*History variables.* `unwritten` and `lost` are runs whose last row update or key
revocation failed or was cut off; `asked` those an operator cancelled. The invariants
say that only these are exceptions.

*Run* `agents`: two triggers of any kind, one slot, one unit of budget, failing
statements, one crash; 2 503 400 states. `SlotInv`: the tokens are exactly the runs
between acquire and release and the leaked ones. `KeyInv`: a valid key has a run that
will revoke it, and a running run has its key. `RowInv`: a row in progress has someone
who will close it. `CancelledOnRequest`. `OutcomeStays`: only a command-line run's row
is written twice. `RunsEnd`: every run ends or is leaked, from weak fairness of each run
(the sidecar exits: 10 and 30 minute contexts; a cron run has none and rests on the
sidecar's own turn and budget limits, which is an assumption) and of `Restart`. A
trigger is used once, so `RunsEnd` says that again and again no run is under way, and
the system stops when all triggers have been: `CHECK_DEADLOCK FALSE`. Two runs are
enough for contention, since what distinguishes a third is only a count against
`MaxConcurrent` and `Ceiling`.

*Left out.* Prompt assembly, `hit_cap`, quiet hours, reload and retention; the 30-day
window of the ceiling (a charge stays); how far simultaneous runs overshoot it.

## 7. RuleApply

*Correspondence.* A rule is a record of trigger, one condition and a sequence of
actions; the rule table is a sequence in pipeline order. `SetCategory`, `AddTag`,
`RemoveTag`, `SetMetadata`, ... are the cases of `ResolveWithContext` on the live
context and the net intent, with the sources they add and drop; `RetroSetCategory` and
`RetroRemoveMetadata` are where the second copy of the fold, in `service/rules.go`,
differs, `SingleIntent` the lane that applies one rule and does not fold. The loops over
rules and actions are the recursive functions `RuleRun` and `ActionRun`: their value at n
is the state of the loop after n turns.
`SyncLoad`, `SyncResolve`, `SyncCommit`, `SyncAbort`, `FlushHitCounts` are a flush that
applies the rules it loaded at its start to one row, holding its row lock from the upsert
to the commit; tags are in a table of their own and are not covered by that lock.
`ReadPage` and `CommitBatch` are the two halves of a retroactive page, `ApplyFails` and
`ApplyFinish` its ends; `Listed` is what `transactionContextQuery` returns, which leaves
out matched rows of dependent accounts (`rules.go:1632`).

*Other writers.* `Edits` has whoever changes rows, rules, tags or categories meanwhile:
categories, tags, metadata and flags set on one row, deleting and restoring a row,
matches that come and go (`ToggleMatch`), `BulkRecategorize`, `MergeCategories`,
`DeleteTag`, `ToggleRule`, and `DeleteCategory` with `ReassignOrphans`, its second
statement, which can fail or come late.

*Properties.* `NetIntent`: what the fold computes is what `Direct`, a reference that
runs the matching rules one after the other on the row itself, would leave, save the
documented cancellation of tags; and the audit trail names each write once and credits
the last rule that asked for it. `LanesAgree`: applying all rules to a listed row leaves
what a sync would. Both take the code's word where the documentation has another
(section 10). `HistoryTruthful`: annotations never contradict the row, whoever edits it
between the read of a page and its commit, where the writer annotates at all. The
exceptions are named in it: the code tells nobody of a bulk recategorization, a merge or
the deletion of a tag or category, and a row that was ever deleted may carry the
annotation of a category that its UPDATE did not set. `PassAccounted`: no hit is counted
twice or for a row that was rolled back, and the page walk skips no row that was listed
throughout.

*Run* `rules`: two rows and every pipeline of up to three rules from three families that
can interfere (tags; metadata; category, flag, comment and series through conditions), 89
rule tables and two tables of rows (both live; one deleted, one not yet there), pages of
one row so that the walk has a boundary, one edit; 2 419 070 states. One edit is enough to invalidate any read of a pass. One
flush and one retroactive pass are run, so the system stops: `CHECK_DEADLOCK FALSE`.

*Left out.* Trees of conditions and the operators on strings, amounts and dates;
counterparties, which are bound like series; children of categories, creating categories
and tags anew under an old slug; validation, preview and the editing of rules; comments
but for the audit trail.

## 8. AccountLinks

*Correspondence.* A member of `Op` is a goroutine that serves one operation at a time:
a request on a link or a match, or the post-sync hook. `pc` names its next statement;
nothing runs in a transaction, so every statement is an action. Its locals `l`, `row`,
`m`, `links`, `rows`, `pri`, `dep` are those of the Go functions, read once and possibly
stale. `Candidates`, `Score` and `Best` are the query and the name comparison of the
matcher; names are abstract, with equality and containment. Unique indexes and foreign
keys are part of the statements they guard (`Insertable`, `InsertLink`, `DropLink`).
`Abort` ends an operation at any statement, `CarryOn` is every error the code logs and
passes over.

*History.* `torn` records that a pair of writes was split by a fault, or that a
rejection or deletion overlapped another writer (`"attribution"`), or that two operations
on links overlapped (`"flag"`): there the code promises nothing. Reconciliations may
overlap at will without tearing anything.

*Runs.* `links`: two goroutines, an account with two mirrors, four rows of which two
compete, two links from the start, two requests or faults; 576 729 states.
`AttributionInv`, `DependentMarked`, `NoMutualLinks` and, under fairness,
`LonePairsMatched`: no row with a single candidate waits for ever. Two goroutines are
what it takes for every pair of overlapping statements, two events for a request that
meets a request or a fault. A state in which users are done and no link is enabled has
no step, hence `CHECK_DEADLOCK FALSE`. `links_reject`: section 10.

*Fairness.* Weak for the steps of each operation (a goroutine that has begun goes on),
strong for each connection's hook: connections are synced again and again
(`SyncScheduler`), and the hook runs in the goroutine of its own sync, whatever the others do.

*Left out.* Changes of an account's owner, amended amounts and dates, the direct edit of
`is_dependent_linked` by the accounts API.

## 9. HostedLink

*Correspondence.* A member of `Req` is one HTTP request. `Enter` is the bearer check,
the `ReadFor...` actions are `fetchHostedLinkRow` with the checks that follow,
`MarkStarted`, `AppendResult`, `CompleteSession`, `FailSession` the UPDATE by id with what
the request remembers. `Exchange` and `Reactivate` make the connection. `Expire` is the
clock passing `expires_at`, which no row records; `Shown` is the status as the service
overrides it.

*Run* `hosted`: four requests of any kind, sessions of both actions, for one use or more,
one failing statement; 75 883 states, requests interchangeable. `StatusTruthful`,
`ResultsTrue`, `ResultsKept`, `OneUse`. What does not hold, and is not claimed: a stale
request can turn `completed` into `active` or `failed`, and a page that sends two
requests at once can connect twice in a single-use session; `OneUse` therefore asks for a
page that waits for its answers (`smooth`). Requests are used once, hence
`CHECK_DEADLOCK FALSE`. Four requests are enough for a session that is opened, connected,
finished and hit by a straggler; the theorems are for any number.

## 10. Where documentation and code differ

Four runs end in a counterexample, a disagreement that needs several steps to show:

| run | the documentation | the code |
|---|---|---|
| `sync_ghost_rows` | disconnecting soft-deletes the rows in one transaction (`docs/api-reference.md:439`) | a sync that was paging commits its rows afterwards |
| `poll_live_hold` | SimpleFIN returns the full window each sync, so what it does not return is stale (`docs/simplefin-integration.md:56`) | the request starts at a time of day, the cleanup at the day's beginning: a hold dated earlier that day is deleted though the bank still has it |
| `links_reject` | rejecting marks the match as rejected (`openapi.yaml:2471`) | the row is deleted, and the next reconciliation makes the same match again |
| `agents_debounce` | syncs in rapid succession coalesce to one run (`agent_runs.sql:264`) | the check reads a row the other trigger has not inserted yet |

No failing statement is needed for them (`DbFails` is off, or no fault occurs).

Met while modelling, visible in the actions named, and without a run of their own:

- `ReactivateConnection` and a sync in flight make a disconnected connection active
  again, without credentials (`SyncEngine`: `ReactivateConnection`, `MarkActive`).
- After the timeout of a sync its log row stays `in_progress` until a restart
  (`UpdateSyncLog`).
- A row passed over because the lookup of its account failed is gone from the provider's
  difference once the cursor commits (`SyncEngine`: `WriteBatch`, `missed`).
- A connection queued before it failed is synced inside its backoff window
  (`SyncScheduler`: `Spawn`); `BackoffHonoured` is what does hold.
- The upsert clears `deleted_at`, so a row a user deleted comes back with the next sync
  that returns it (`PollImport`: `Flush`).
- A panic while a manual run is prepared keeps its slot until the server restarts
  (`AgentRuns`: `PanicsPreparing`).
- A rule that adds and removes the same tag cancels out in a sync, as
  `docs/rule-dsl.md:392` says, but applied alone to stored rows it deletes the tag
  (`RuleApply`: `SingleIntent`).
- A metadata key that one rule sets and a later one removes is deleted from the stored
  row (`rule_resolver.go:813`, `RuleApply`: `RemoveMetadata`, which `NetIntent`
  asserts), though `docs/rule-dsl.md:339` says that the two cancel and neither hits the
  database.
- Applying all rules links a row to its series (`rules.go:2401`, `RuleApply`:
  `BulkIntent`, `Materialize`, which `LanesAgree` asserts), though
  `docs/rule-dsl.md:312` says that this path does not materialize `assign_series`.
- `prompts/agents/review-depth-thorough.md:10` tells agents that the timeline has every
  tag and category change; `BulkRecategorizeByFilter` (`categories.go:583`),
  `MergeCategories` (`categories.go:323`) and the foreign keys of deleted tags and
  categories write none (`RuleApply`: `BulkRecategorize`, `MergeCategories`,
  `DeleteTag`, `DeleteCategory`).
- `categories.go:258` says that the system category cannot be deleted, but a merge into
  another category deletes it; from then on no rule resolver loads, and syncs apply no
  rules (`RuleApply`: `MergeCategories`, `SyncLoad`).
- Conditions on the category see no category retroactively (`RetroContext`), though
  `docs/rule-dsl.md` says that both entry points share condition evaluation. A later
  unknown category slug cancels an earlier valid one in a sync, not retroactively.

## 11. What is proved

`tlapm` checks every proof; nothing is assumed but the `ASSUME`s of the modules, which
only type the constants and separate the special values. All sets of connections,
calls, transactions, accounts, runs and requests and all bounds are arbitrary; `Run`,
`Conn`, `Linked` are finite where a cardinality is taken.

**SyncEngineProofs.** `SyncInvariant` is `Spec => []SyncInv`. `LedgerMatchesCursor`
alone is not inductive: a commit establishes it only if the buffers of the call are
the whole difference between the row's cursor and the target. So `SyncInv` adds that
calls hold their mutex (`LockInv`: else another call could move the cursor meanwhile),
that buffers agree with the target state, hold only what differs from the state before
and are complete when the flush begins (`BufferInv`), that the cursor is still the one the call started from until it commits
(`OutcomeInv`), and what the newest log row says at each stage (`LogInv`). Each action
has its lemma step, one per conjunct it disturbs. From the invariant follow
`TypeCorrect`, `LedgerIsCursorState` (but for rows in `missed`), the action properties `CursorMonotone` and
`CounterFollowsLog`, and `EngineImplementsMirror`: initial states map to initial
states of `LedgerMirror`, commits, disconnects and publications to its steps, all else
to stuttering; that a commit misses only rows the bank changed between the two cursors
is what the buffers' second half is for.

**AgentRunsProofs.** `AgentInvariance` is `Spec => [](TypeOK /\ AgentInv)`. `KeyInv`
and `RowInv` need to know at which stages rows and keys can exist at all and that no
server run outlives the server; that is `StageInv`. `SlotInv` is a statement about a
cardinality, of the runs between acquire and release and the leaked ones
(`Holders`): `HoldersStep` shows that each action adds one holder and one token,
removes one of each, clears both or touches neither, and `SlotsStep` counts.
`SlotsConserved`, `KeysHaveOwners`, `RowsHaveOwners`, `CancellationsAreRequested`,
`AgentTypeCorrect` and the action property `OutcomesStay` follow.

**SyncSchedulerProofs.** `JobInv` counts: each action moves one connection from to do to
a worker or to the count of tokens, or one worker to that count, and is inductive with
the types. `FireServed` needs the clock facts `Clocked` and the decision of
`ScheduleDue`: a connection is passed over only if its last sync is at or after the last fire.
`BackoffHonoured` needs `Patient`: an error older than a job's snapshot has been waited
out by every connection the job still has to start.

**PollImportProofs.** `BaseInv` ties the locals of a sync to the bank's past. `Times`
orders clock, fetch and cursor; `RowsSeen` and `GotSeen` say that what was read of a
transaction is a state it is or was in, and by a request for instants only before the
request; `Fetched` that of an account already fetched the sync holds exactly what the
bank said of every transaction that has not changed since the clock was read; `Heirs`
that a replaced hold is gone and never returned together with its successor; `Grown` and
`NoRows` that discovery and rows come with the first commit. On top of it
`HoldsAreKept`, `NothingIsMissed`, `NoHoldIsAGhost` and `MoneyIsCountedOnce` are each one
induction whose only hard step is the flush. What a request does not ask for although it
is new enough was reported before the last cursor (`NotAsked`), so the induction
hypothesis speaks of it; what the cleanup leaves out is older than what a sync asks for
(`NotCleaned`). Days and instants meet in `Dates`, which has what the proofs need of the
division. `TimelineIsTruthful` needs only the types. The theorems cover both kinds of
provider, any length of a day, any overlap and first windows, several accounts, and
providers that discover accounts or do not; their conditions (`InTime`, `since`, and for
requests by instants the hold that a sync would still ask for) are those of the code's
windows.

**AccountLinksProofs.** `BaseInv` is the types with `Remembered`: the snapshots operations
carry still name the ends of the rows they were read from, since ids are never reused
and a row never changes its ends. `Alone` says what `torn` means: as long as it is empty,
no clearing operation has company. `AttrInv` and `FlagInv` add what each operation knows
between its two writes (`Half`) and between its read and its write (`Deciding`). From
them `LinksTypeCorrect`, `AttributionFollowsMatches`, `DependentsAreMarked`,
`LinksAreOneWay`.

**HostedLinkProofs.** `SessionInv` adds `RequestInv`, what a request may rely on between
read and write whatever others write: it carries no error over, the session was and stays
started, the connection it records exists. `SmoothInv` follows the one connection of a
single-use session from its exchange into the row.

**RuleFoldProofs** is about the fold itself, for every rule table, row and trigger.
Recursive functions come with no defining equation: that one exists has to be proved.
`LeastNatural` gets the least element of a set of numbers from the well-founded order of
the library, `UpTo` is induction along an interval stated for a set, and `RecursionDefines`
builds from it the function that `ActionRun`, `RuleRun`, `DirectActions` and `DirectRules`
name (`ActionRunDef`, `RuleRunDef`, ...). The induction for `SyncIntent` runs over rules
and, inside, over actions. It carries `Tracks`: the live context is the row that the direct
run has reached, and the net intent is the difference of that row and the first one, save
the cancelled tags, for which it has to remember that a queued remove is of a tag the row
had and the pass never added. Beside it `TrailTo` says that the sources are exactly what
the intent names, once each, credited to the last rule that asked; since a rule is credited
before its later actions have run, `Trail` says the same in the middle of a rule. Each
action is described once, by what it drops and adds (`Effect`), and one lemma takes the
trail over such an effect. `BulkAgrees` is an induction over both folds at once: `Twins`
differ in the category they see, in their sources, and in deletes of keys that the stored
row does not have, which materialize to nothing.

**RuleApplyProofs.** `RulesSafe` is `Spec => []RuleInv`. `SyncInv` says that the intent of a
flush is the fold of what it read, that no tag is both added and removed by it, and that
the row lock keeps the category it read: without these a commit could write back a category
a user has replaced, or announce a tag it detaches. `HistoryInv` strengthens
`HistoryTruthful` from live rows to all (`Told`), since a sync or a user revives deleted
ones, and adds
for the rows of a batch that they are live or have been deleted (`Kept`): `RetroNote`
records a category even when the row is gone by then. `HitsInv` counts what is between the
commit of a write and that of its hit (`Pending`, `InBatch`). `OwedInv` is the page walk: a
row not visited is behind the cursor; `PageIsFirst` and `LastOfPage` show that a page is an
initial part of the rows behind it, and all of them when it is short. `TypesCorrect`,
`NetIntentHolds`, `LanesAgreeHolds`, `HistoryHolds` and `PassAccountedHolds` follow, for any
number of rules, actions, rows, edits and any page size.

**Only model-checked.** Liveness (`LockReleased`, `EventuallyMirrored`, `JobsEnd`,
`RunsEnd`, `LonePairsMatched`): it rests on fairness and ENABLED, which the prover does
not handle. Every safety property the passing runs check is proved.

## 12. Checking it

`tlc -config X.cfg M` for the module and configuration of a run in `PROJECT.json`,
`tlapm M.tla` for the eight modules of proofs. Every property has a mutant in
`PROJECT.json`, an operator named after the slip it makes (`ReturnKeepsLock`,
`MutationKeepsBuffers`, `FetchFromNoOverlap`), with which the property fails.

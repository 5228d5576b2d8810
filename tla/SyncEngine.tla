----------------------------- MODULE SyncEngine -----------------------------
(***************************************************************************)
(* The sync engine of internal/sync/engine.go for cursor-based providers:  *)
(* Engine.Sync and Engine.runSync, called concurrently by the cron         *)
(* scheduler, the webhook handler and operators, against a provider that   *)
(* keeps changing, connection-level operations of the other services, call *)
(* deadlines, crashes and restarts of the single server process.           *)
(*                                                                         *)
(* A call is one goroutine inside Engine.Sync.  Each of its database       *)
(* statements outside a transaction is an action of its own; the           *)
(* transaction that writes the rows and the cursor takes effect at its     *)
(* commit.  Rows of excluded or unknown accounts are outside this module:  *)
(* Txn holds the identifiers processTransaction would write.               *)
(***************************************************************************)
EXTENDS Integers, Sequences

CONSTANTS Conn,         \* bank connections of a cursor-based provider
          Call,         \* goroutines that can be inside Engine.Sync
          Txn,          \* provider transaction identifiers
          Value,        \* what a transaction row can hold
          Absent,       \* no live row: never written or soft-deleted
          NoChange,     \* the buffers hold nothing for this identifier
          NoCall,       \* the connection's mutex is free
          NoConn,       \* the call is not running
          DbFails,      \* a database statement may fail on a live context
          MaxVersions,  \* bound: states a provider publishes per connection
          MaxFailures,  \* failures are counted up to what backoff tells apart
          MaxCrashes    \* bound: crashes of the server process

ASSUME ConstantsAssumption ==
  /\ Absent \notin Value
  /\ NoChange \notin Value \cup {Absent}
  /\ NoCall \notin Call /\ NoConn \notin Conn
  /\ DbFails \in BOOLEAN
  /\ MaxVersions \in Nat /\ MaxFailures \in Nat \ {0} /\ MaxCrashes \in Nat

VARIABLES
  feed,      \* external: provider states of each connection, oldest first
  \* bank_connections, transactions and sync_logs
  status,    \* bank_connections.status
  creds,     \* encrypted_credentials is not NULL
  cursor,    \* sync_cursor: how many provider states it covers, 0 for NULL
  failures,  \* consecutive_failures
  ledger,    \* live rows of transactions
  missed,    \* history: rows whose last change was skipped by its import
  lastLog,   \* status of the newest sync_logs row
  staleLog,  \* connections with an older row still in_progress
  \* the process
  up,        \* the server runs
  crashes,   \* crashes so far
  lock,      \* Engine.locks: the call that holds the connection's mutex
  \* locals of the calls
  pc,        \* where the call is
  conn,      \* its connectionID
  deadline,  \* its context: "none", "running" (cron) or "passed"
  prev,      \* previousCursor
  target,    \* the provider state its pages lead to, NoPage before the first
  buf        \* pendingRemovals, pendingAdded and pendingModified

dbVars   == <<status, creds, cursor, failures, ledger, missed, lastLog, staleLog>>
procVars == <<up, crashes>>
callVars == <<pc, conn, deadline, prev, target, buf>>
vars     == <<feed, dbVars, procVars, lock, callVars>>

NoPage == -1

Snapshot == [Txn -> Value \cup {Absent}]
Buffer   == [Txn -> Value \cup {Absent, NoChange}]

Status   == {"active", "error", "pending_reauth", "disconnected"}
LogState == {"none", "in_progress", "success", "error"}
Stage    == {"idle", "locked", "logged", "paging", "flushing", "committed",
             "marked", "failed", "closed_ok", "closed_err"}

Nothing   == [t \in Txn |-> Absent]
EmptyBuf  == [t \in Txn |-> NoChange]

\* The provider's state of connection c after k publications.
StateAt(c, k) == IF k = 0 THEN Nothing ELSE feed[c][k]

\* What the provider still has to return to a call that pages towards state k.
Undelivered(r, k) ==
  {t \in Txn : /\ StateAt(conn[r], prev[r])[t] # StateAt(conn[r], k)[t]
               /\ buf[r][t] = NoChange}

\* The buffers of call r after a page with the transactions of S at state k.
AddPage(r, S, k) ==
  [t \in Txn |-> IF t \in S THEN StateAt(conn[r], k)[t] ELSE buf[r][t]]

\* Mutant of Overlay: the buffers taken for a full snapshot.
OverlayDropsUnchanged(r, S) == buf[r]

\* The ledger once the buffers of call r have been written over it, the rows of
\* S left as they were.
Overlay(r, S) ==
  [t \in Txn |-> IF t \in S \/ buf[r][t] = NoChange THEN ledger[conn[r]][t]
                 ELSE buf[r][t]]

\* A row is added or modified only once its account is found.  When neither the
\* query before the first page nor the one for this row answers, both outside the
\* transaction, the row is skipped and the rest of the batch commits.
Skippable(r) == {t \in Txn : DbFails /\ buf[r][t] \in Value}

\* A later change of the row, or its removal, makes up for the skipped one.
StillMissed(r, S) == S \cup {t \in missed[conn[r]] : buf[r][t] = NoChange}

Expired(r) == deadline[r] = "passed"

\* A statement of call r can come back with an error.
StatementFails(r) == Expired(r) \/ DbFails

Goto(r, stage) == pc' = [pc EXCEPT ![r] = stage]

-----------------------------------------------------------------------------
Init ==
  /\ feed = [c \in Conn |-> <<>>]
  /\ status = [c \in Conn |-> "active"]
  /\ creds = [c \in Conn |-> TRUE]
  /\ cursor = [c \in Conn |-> 0]
  /\ failures = [c \in Conn |-> 0]
  /\ ledger = [c \in Conn |-> Nothing]
  /\ missed = [c \in Conn |-> {}]
  /\ lastLog = [c \in Conn |-> "none"]
  /\ staleLog = {}
  /\ up = TRUE
  /\ crashes = 0
  /\ lock = [c \in Conn |-> NoCall]
  /\ pc = [r \in Call |-> "idle"]
  /\ conn = [r \in Call |-> NoConn]
  /\ deadline = [r \in Call |-> "none"]
  /\ prev = [r \in Call |-> 0]
  /\ target = [r \in Call |-> NoPage]
  /\ buf = [r \in Call |-> EmptyBuf]

-----------------------------------------------------------------------------
(* Engine.Sync and Engine.runSync                                          *)

\* Mutant of StartSync: no mutex.
StartSyncUnlocked(r, c, d) ==
  /\ up
  /\ pc[r] = "idle"
  /\ lock' = [lock EXCEPT ![c] = r]
  /\ conn' = [conn EXCEPT ![r] = c]
  /\ deadline' = [deadline EXCEPT ![r] = d]
  /\ Goto(r, "locked")
  /\ UNCHANGED <<feed, dbVars, procVars, prev, target, buf>>

\* TryLock succeeds.  When it fails Sync returns nil without any effect, so
\* that outcome is a stuttering step.  Only the scheduler sets a deadline.
StartSync(r, c, d) ==
  /\ up
  /\ pc[r] = "idle"
  /\ lock[c] = NoCall
  /\ lock' = [lock EXCEPT ![c] = r]
  /\ conn' = [conn EXCEPT ![r] = c]
  /\ deadline' = [deadline EXCEPT ![r] = d]
  /\ Goto(r, "locked")
  /\ UNCHANGED <<feed, dbVars, procVars, prev, target, buf>>

\* The context of a scheduled call reaches syncTimeout.
DeadlinePasses(r) ==
  /\ pc[r] # "idle"
  /\ deadline[r] = "running"
  /\ deadline' = [deadline EXCEPT ![r] = "passed"]
  /\ UNCHANGED <<feed, dbVars, procVars, lock, pc, conn, prev, target, buf>>

\* Mutant of Return: Unlock not deferred, and skipped once the deadline passed.
ReturnKeepsLock(r) ==
  /\ lock' = IF Expired(r) THEN lock ELSE [lock EXCEPT ![conn[r]] = NoCall]
  /\ Goto(r, "idle")
  /\ conn' = [conn EXCEPT ![r] = NoConn]
  /\ deadline' = [deadline EXCEPT ![r] = "none"]
  /\ prev' = [prev EXCEPT ![r] = 0]
  /\ target' = [target EXCEPT ![r] = NoPage]
  /\ buf' = [buf EXCEPT ![r] = EmptyBuf]

\* The call returns: the deferred Unlock.  What its locals held is dropped.
Return(r) ==
  /\ lock' = [lock EXCEPT ![conn[r]] = NoCall]
  /\ Goto(r, "idle")
  /\ conn' = [conn EXCEPT ![r] = NoConn]
  /\ deadline' = [deadline EXCEPT ![r] = "none"]
  /\ prev' = [prev EXCEPT ![r] = 0]
  /\ target' = [target EXCEPT ![r] = NoPage]
  /\ buf' = [buf EXCEPT ![r] = EmptyBuf]

\* A new in_progress row becomes the newest log of the connection.
CreateSyncLog(r) ==
  LET c == conn[r] IN
  /\ pc[r] = "locked"
  /\ ~Expired(r)
  /\ lastLog' = [lastLog EXCEPT ![c] = "in_progress"]
  /\ staleLog' = IF lastLog[c] = "in_progress" THEN staleLog \cup {c} ELSE staleLog
  /\ Goto(r, "logged")
  /\ UNCHANGED <<feed, status, creds, cursor, failures, ledger, missed, procVars, lock,
                 conn, deadline, prev, target, buf>>

\* The insert fails: Sync returns the error at once.
CreateSyncLogFails(r) ==
  /\ pc[r] = "locked"
  /\ StatementFails(r)
  /\ Return(r)
  /\ UNCHANGED <<feed, dbVars, procVars>>

\* GetBankConnectionForSync returns a row that is not disconnected; its
\* cursor and credentials are copied into the call.
LoadConnection(r) ==
  LET c == conn[r] IN
  /\ pc[r] = "logged"
  /\ ~Expired(r)
  /\ status[c] # "disconnected"
  /\ creds[c]
  /\ prev' = [prev EXCEPT ![r] = cursor[c]]
  /\ Goto(r, "paging")
  /\ UNCHANGED <<feed, dbVars, procVars, lock, conn, deadline, target, buf>>

\* No such row, NULL credentials the provider cannot decrypt, or a failed query.
LoadConnectionFails(r) ==
  LET c == conn[r] IN
  /\ pc[r] = "logged"
  /\ StatementFails(r) \/ status[c] = "disconnected" \/ ~creds[c]
  /\ Goto(r, "failed")
  /\ UNCHANGED <<feed, dbVars, procVars, lock, conn, deadline, prev, target, buf>>

\* A page arrives and HasMore is set.  The pages of one pagination lead to
\* one provider state, fixed by the first of them.
FetchPage(r) ==
  LET head == Len(feed[conn[r]]) IN
  /\ pc[r] = "paging"
  /\ ~Expired(r)
  /\ target[r] \in {NoPage, head}
  /\ \E S \in SUBSET Undelivered(r, head) :
        S # {} /\ buf' = [buf EXCEPT ![r] = AddPage(r, S, head)]
  /\ target' = [target EXCEPT ![r] = head]
  /\ UNCHANGED <<feed, dbVars, procVars, lock, pc, conn, deadline, prev>>

\* The last page: everything not yet returned.
FetchLastPage(r) ==
  LET head == Len(feed[conn[r]]) IN
  /\ pc[r] = "paging"
  /\ ~Expired(r)
  /\ target[r] \in {NoPage, head}
  /\ buf' = [buf EXCEPT ![r] = AddPage(r, Undelivered(r, head), head)]
  /\ target' = [target EXCEPT ![r] = head]
  /\ Goto(r, "flushing")
  /\ UNCHANGED <<feed, dbVars, procVars, lock, conn, deadline, prev>>

\* Mutant of MutationDuringPagination: the buffers survive the restart.
MutationKeepsBuffers(r) ==
  /\ pc[r] = "paging"
  /\ ~Expired(r)
  /\ target[r] \notin {NoPage, Len(feed[conn[r]])}
  /\ target' = [target EXCEPT ![r] = NoPage]
  /\ UNCHANGED <<feed, dbVars, procVars, lock, pc, conn, deadline, prev, buf>>

\* ErrSyncRetryable: the provider changed between two pages.  The buffers
\* are cleared and pagination restarts from previousCursor.
MutationDuringPagination(r) ==
  /\ pc[r] = "paging"
  /\ ~Expired(r)
  /\ target[r] \notin {NoPage, Len(feed[conn[r]])}
  /\ buf' = [buf EXCEPT ![r] = EmptyBuf]
  /\ target' = [target EXCEPT ![r] = NoPage]
  /\ UNCHANGED <<feed, dbVars, procVars, lock, pc, conn, deadline, prev>>

\* ErrReauthRequired: the status is written whatever it is by now, and an
\* error of that statement is ignored.
ReauthRequired(r) ==
  /\ pc[r] = "paging"
  /\ ~Expired(r)
  /\ \/ status' = [status EXCEPT ![conn[r]] = "pending_reauth"]
     \/ DbFails /\ UNCHANGED status
  /\ Goto(r, "failed")
  /\ UNCHANGED <<feed, creds, cursor, failures, ledger, missed, lastLog, staleLog,
                 procVars, lock, conn, deadline, prev, target, buf>>

\* Any other provider error, a dead context among them: no state changes.
ProviderFails(r) ==
  /\ pc[r] = "paging"
  /\ Goto(r, "failed")
  /\ UNCHANGED <<feed, dbVars, procVars, lock, conn, deadline, prev, target, buf>>

\* Mutant of WriteBatch: the rows are written, the cursor is not.
WriteBatchWithoutCursor(r) ==
  LET c == conn[r] IN
  /\ \E S \in SUBSET Skippable(r) :
        /\ ledger' = [ledger EXCEPT ![c] = Overlay(r, S)]
        /\ missed' = [missed EXCEPT ![c] = StillMissed(r, S)]
  /\ UNCHANGED <<feed, status, creds, cursor, failures, lastLog, staleLog,
                 procVars, lock, conn, deadline, prev, target, buf>>

\* The transaction of call r takes effect: removals, additions, modifications
\* and the cursor together, whether or not every row found its account.  No
\* statement of it looks at the connection's status.
WriteBatch(r) ==
  LET c == conn[r] IN
  /\ \E S \in SUBSET Skippable(r) :
        /\ ledger' = [ledger EXCEPT ![c] = Overlay(r, S)]
        /\ missed' = [missed EXCEPT ![c] = StillMissed(r, S)]
  /\ cursor' = [cursor EXCEPT ![c] = target[r]]
  /\ UNCHANGED <<feed, status, creds, failures, lastLog, staleLog, procVars,
                 lock, conn, deadline, prev, target, buf>>

CommitFlush(r) ==
  /\ pc[r] = "flushing"
  /\ ~Expired(r)
  /\ WriteBatch(r)
  /\ Goto(r, "committed")

\* The commit takes effect and its acknowledgement is lost: for the call the
\* transaction failed.
CommitUnacknowledged(r) ==
  /\ pc[r] = "flushing"
  /\ ~Expired(r)
  /\ WriteBatch(r)
  /\ Goto(r, "failed")

\* Begin, a statement or the commit fails: the deferred Rollback.
FlushFails(r) ==
  /\ pc[r] = "flushing"
  /\ StatementFails(r)
  /\ Goto(r, "failed")
  /\ UNCHANGED <<feed, dbVars, procVars, lock, conn, deadline, prev, target, buf>>

\* The unconditional status update after the commit, its error ignored.
MarkActive(r) ==
  /\ pc[r] = "committed"
  /\ \/ ~Expired(r) /\ status' = [status EXCEPT ![conn[r]] = "active"]
     \/ StatementFails(r) /\ UNCHANGED status
  /\ Goto(r, "marked")
  /\ UNCHANGED <<feed, creds, cursor, failures, ledger, missed, lastLog, staleLog,
                 procVars, lock, conn, deadline, prev, target, buf>>

\* UpdateSyncLog with the outcome of runSync; when it fails the row stays open.
UpdateSyncLog(r) ==
  LET outcome == IF pc[r] = "marked" THEN "success" ELSE "error" IN
  /\ pc[r] \in {"marked", "failed"}
  /\ \/ ~Expired(r) /\ lastLog' = [lastLog EXCEPT ![conn[r]] = outcome]
     \/ StatementFails(r) /\ UNCHANGED lastLog
  /\ Goto(r, IF pc[r] = "marked" THEN "closed_ok" ELSE "closed_err")
  /\ UNCHANGED <<feed, status, creds, cursor, failures, ledger, missed, staleLog,
                 procVars, lock, conn, deadline, prev, target, buf>>

\* Mutant of NextCount: a call that got as far as a page counts as a success.
NextCountForgives(r) ==
  IF pc[r] = "closed_ok" \/ target[r] # NoPage THEN 0
  ELSE IF failures[conn[r]] = MaxFailures THEN MaxFailures
  ELSE failures[conn[r]] + 1

\* ResetConsecutiveFailures or IncrementConsecutiveFailures.
NextCount(r) ==
  IF pc[r] = "closed_ok" THEN 0
  ELSE IF failures[conn[r]] = MaxFailures THEN MaxFailures
  ELSE failures[conn[r]] + 1

\* The failure counter is the last thing a call writes before it returns.
CountAndReturn(r) ==
  /\ pc[r] \in {"closed_ok", "closed_err"}
  /\ \/ ~Expired(r) /\ failures' = [failures EXCEPT ![conn[r]] = NextCount(r)]
     \/ StatementFails(r) /\ UNCHANGED failures
  /\ Return(r)
  /\ UNCHANGED <<feed, status, creds, cursor, ledger, missed, lastLog, staleLog, procVars>>

-----------------------------------------------------------------------------
(* The other writers of a connection                                       *)

\* service.DeleteConnection: one transaction.
DeleteConnection(c) ==
  /\ up
  /\ status[c] # "disconnected"
  /\ ledger' = [ledger EXCEPT ![c] = Nothing]
  /\ missed' = [missed EXCEPT ![c] = {}]
  /\ status' = [status EXCEPT ![c] = "disconnected"]
  /\ creds' = [creds EXCEPT ![c] = FALSE]
  /\ UNCHANGED <<feed, cursor, failures, lastLog, staleLog, procVars, lock, callVars>>

\* service.ReactivateConnection: only the row's existence is checked.
ReactivateConnection(c) ==
  /\ up
  /\ status' = [status EXCEPT ![c] = "active"]
  /\ UNCHANGED <<feed, creds, cursor, failures, ledger, missed, lastLog, staleLog,
                 procVars, lock, callVars>>

\* The connection_error and pending_expiration webhooks.
ConnectionErrorWebhook(c) ==
  /\ up
  /\ \E s \in {"error", "pending_reauth"} : status' = [status EXCEPT ![c] = s]
  /\ UNCHANGED <<feed, creds, cursor, failures, ledger, missed, lastLog, staleLog,
                 procVars, lock, callVars>>

PendingExpirationWebhook(c) ==
  /\ up
  /\ status' = [status EXCEPT ![c] = "pending_reauth"]
  /\ UNCHANGED <<feed, creds, cursor, failures, ledger, missed, lastLog, staleLog,
                 procVars, lock, callVars>>

-----------------------------------------------------------------------------
(* The environment                                                         *)

\* The bank posts, amends or withdraws transactions.
Publish(c) ==
  /\ Len(feed[c]) < MaxVersions
  /\ \E s \in Snapshot : feed' = [feed EXCEPT ![c] = Append(@, s)]
  /\ UNCHANGED <<dbVars, procVars, lock, callVars>>

\* The process dies, or exits without waiting for its goroutines: the open
\* transactions roll back, the mutexes and the calls are gone.
Crash ==
  /\ up
  /\ crashes < MaxCrashes
  /\ up' = FALSE
  /\ crashes' = crashes + 1
  /\ lock' = [c \in Conn |-> NoCall]
  /\ pc' = [r \in Call |-> "idle"]
  /\ conn' = [r \in Call |-> NoConn]
  /\ deadline' = [r \in Call |-> "none"]
  /\ prev' = [r \in Call |-> 0]
  /\ target' = [r \in Call |-> NoPage]
  /\ buf' = [r \in Call |-> EmptyBuf]
  /\ UNCHANGED <<feed, dbVars>>

\* Startup: CleanupOrphanedSyncLogs runs before anything can call Sync; its
\* error is logged and startup goes on.
Restart ==
  /\ ~up
  /\ up' = TRUE
  /\ \/ /\ lastLog' = [c \in Conn |-> IF lastLog[c] = "in_progress"
                                     THEN "error" ELSE lastLog[c]]
        /\ staleLog' = {}
     \/ DbFails /\ UNCHANGED <<lastLog, staleLog>>
  /\ UNCHANGED <<feed, status, creds, cursor, failures, ledger, missed, crashes,
                 lock, callVars>>

-----------------------------------------------------------------------------
SyncStep(r) ==
  \/ CreateSyncLog(r) \/ CreateSyncLogFails(r)
  \/ LoadConnection(r) \/ LoadConnectionFails(r)
  \/ FetchPage(r) \/ FetchLastPage(r) \/ MutationDuringPagination(r)
  \/ ReauthRequired(r) \/ ProviderFails(r)
  \/ CommitFlush(r) \/ CommitUnacknowledged(r) \/ FlushFails(r)
  \/ MarkActive(r) \/ UpdateSyncLog(r) \/ CountAndReturn(r)

ServiceStep(c) ==
  \/ DeleteConnection(c) \/ ReactivateConnection(c)
  \/ ConnectionErrorWebhook(c) \/ PendingExpirationWebhook(c)

Next ==
  \/ \E r \in Call, c \in Conn, d \in {"none", "running"} : StartSync(r, c, d)
  \/ \E r \in Call : SyncStep(r) \/ DeadlinePasses(r)
  \/ \E c \in Conn : ServiceStep(c) \/ Publish(c)
  \/ Crash
  \/ Restart

Spec == Init /\ [][Next]_vars

-----------------------------------------------------------------------------
(* Properties                                                              *)

\* Every variable keeps its type: in particular a transaction row never holds the
\* buffers' NoChange marker and a counted failure never exceeds the bound.
TypeOK ==
  /\ feed \in [Conn -> Seq(Snapshot)]
  /\ status \in [Conn -> Status]
  /\ creds \in [Conn -> BOOLEAN]
  /\ cursor \in [Conn -> Nat]
  /\ failures \in [Conn -> 0 .. MaxFailures]
  /\ ledger \in [Conn -> Snapshot]
  /\ missed \in [Conn -> SUBSET Txn]
  /\ lastLog \in [Conn -> LogState]
  /\ staleLog \in SUBSET Conn
  /\ up \in BOOLEAN
  /\ crashes \in 0 .. MaxCrashes
  /\ lock \in [Conn -> Call \cup {NoCall}]
  /\ pc \in [Call -> Stage]
  /\ conn \in [Call -> Conn \cup {NoConn}]
  /\ deadline \in [Call -> {"none", "running", "passed"}]
  /\ prev \in [Call -> Nat]
  /\ target \in [Call -> Nat \cup {NoPage}]
  /\ buf \in [Call -> Buffer]

\* The per-connection mutex: a call that is inside Sync holds the lock of its
\* connection, a lock is held by such a call, and no call outlives the server.
LockInv ==
  /\ \A r \in Call : pc[r] # "idle" => /\ up
                                       /\ conn[r] \in Conn
                                       /\ lock[conn[r]] = r
  /\ \A c \in Conn : lock[c] # NoCall => pc[lock[c]] # "idle" /\ conn[lock[c]] = c

\* What the log and the status will say about a call agrees with the data: the
\* cursor is the one the call committed, or still the one it started from.
OutcomeInv ==
  \A r \in Call :
    /\ pc[r] \in {"committed", "marked", "closed_ok"} => cursor[conn[r]] = target[r]
    /\ pc[r] \in {"paging", "flushing"} => cursor[conn[r]] = prev[r]
    /\ pc[r] \in {"failed", "closed_err"} /\ target[r] # NoPage =>
         cursor[conn[r]] \in {prev[r], target[r]}

\* The buffers of a call are empty until it pages; they hold only what the
\* provider had at the state its pages lead to and only what changed, and once
\* the last page is in they hold everything that changed.
BufferInv ==
  \A r \in Call :
    /\ pc[r] \in {"idle", "locked", "logged"} => target[r] = NoPage
    /\ target[r] = NoPage => buf[r] = EmptyBuf
    /\ pc[r] = "flushing" => target[r] # NoPage /\ Undelivered(r, target[r]) = {}
    /\ pc[r] \in {"paging", "flushing"} /\ target[r] # NoPage =>
         /\ target[r] \in prev[r] .. Len(feed[conn[r]])
         /\ \A t \in Txn : buf[r][t] # NoChange =>
              /\ buf[r][t] = StateAt(conn[r], target[r])[t]
              /\ buf[r][t] # StateAt(conn[r], prev[r])[t]

\* The newest log row of a connection whose mutex is held is the holder's own:
\* open while it works, then what it reports unless that update failed.
LogInv ==
  \A r \in Call :
    /\ pc[r] \in {"logged", "paging", "flushing", "committed", "marked", "failed"} =>
         lastLog[conn[r]] = "in_progress"
    /\ pc[r] = "closed_ok" => lastLog[conn[r]] \in {"in_progress", "success"}
    /\ pc[r] = "closed_err" => lastLog[conn[r]] \in {"in_progress", "error"}

CursorInv == \A c \in Conn : cursor[c] \in 0 .. Len(feed[c])

\* No import is lost, doubled or half applied: whatever calls, retries, timeouts
\* and crashes did, the ledger of a connection that still has its credentials is
\* exactly the provider state its stored cursor names, except for rows an import
\* skipped because no query for their account answered.
LedgerMatchesCursor ==
  \A c \in Conn : creds[c] =>
    \A t \in Txn \ missed[c] : ledger[c][t] = StateAt(c, cursor[c])[t]

\* The inductive invariant.
SyncInv == /\ LockInv /\ OutcomeInv /\ BufferInv /\ LogInv
           /\ CursorInv /\ LedgerMatchesCursor

\* A sync never moves a connection back to provider changes it has imported.
CursorNeverRegresses == [][\A c \in Conn : cursor'[c] >= cursor[c]]_cursor

\* The failure counter that drives the scheduler's backoff never contradicts the
\* connection's newest log row: it is not cleared under a row that says error
\* and does not grow under one that says success.
CounterAgreesWithLog ==
  [][\A c \in Conn : /\ failures'[c] < failures[c] => lastLog[c] # "error"
                     /\ failures'[c] > failures[c] => lastLog[c] # "success"]_failures

\* Seen from outside, the engine is the one-step importer of LedgerMirror.
Mirror == INSTANCE LedgerMirror WITH
            linked <- creds,
            cursor <- [c \in Conn |-> IF creds[c] THEN cursor[c] ELSE 0],
            ledger <- [c \in Conn |-> IF creds[c] THEN ledger[c] ELSE Nothing],
            missed <- [c \in Conn |-> IF creds[c] THEN missed[c] ELSE {}]

RefinesLedgerMirror == Mirror!Spec

-----------------------------------------------------------------------------
(* Liveness                                                                *)

\* Some call of connection c completes the step A instead of failing or
\* running out of time there.
CronSync(c) == status[c] = "active" /\ \E r \in Call : StartSync(r, c, "running")
OpensLog(c) == \E r \in Call : conn[r] = c /\ CreateSyncLog(r)
Loads(c)    == \E r \in Call : conn[r] = c /\ LoadConnection(r)
Fetches(c)  == \E r \in Call : conn[r] = c /\ FetchLastPage(r)
Commits(c)  == \E r \in Call : conn[r] = c /\ CommitFlush(r)

\* A running goroutine does not stop for ever and a dead server is restarted.
\* For the connection to catch up, the 15-minute tick must find its mutex free
\* again and again, and a call that gets to a step again and again must
\* sometimes succeed there: no outage of the bank or the database is permanent.
Fairness ==
  /\ \A r \in Call : WF_vars(SyncStep(r))
  /\ WF_vars(Restart)
  /\ \A c \in Conn : /\ SF_vars(CronSync(c)) /\ SF_vars(OpensLog(c))
                     /\ SF_vars(Loads(c)) /\ SF_vars(Fetches(c))
                     /\ SF_vars(Commits(c))

FairSpec == Spec /\ Fairness

\* The mutex of a connection is always given back: a sync that started ends.
LockReleased == \A c \in Conn : lock[c] # NoCall ~> lock[c] = NoCall

\* A linked connection that stays active catches up with its bank, whatever
\* crashes, timeouts, retries and dropped triggers came before: every row does
\* whose last change was not skipped.
EventuallyMirrored ==
  \A c \in Conn :
    <>[](status[c] = "active" /\ creds[c])
      => <>[](\A t \in Txn \ missed[c] : ledger[c][t] = StateAt(c, Len(feed[c]))[t])

-----------------------------------------------------------------------------
(* What the documentation says and the code does not keep                  *)

\* Disconnecting "soft-deletes related transactions in a single DB transaction"
\* (docs/api-reference.md): a disconnected connection has no live rows.
DisconnectedHasNoRows ==
  \A c \in Conn : status[c] = "disconnected" => ledger[c] = Nothing
=============================================================================

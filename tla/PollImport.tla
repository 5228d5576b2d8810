----------------------------- MODULE PollImport -----------------------------
(***************************************************************************)
(* What a sync of a poll-based provider (Teller, SimpleFIN) does to the    *)
(* transaction rows of one connection: internal/sync/engine.go from the    *)
(* snapshot of excluded accounts to the flush, the upsert and soft-delete  *)
(* statements, and the user's own deletions and restorations.              *)
(*                                                                         *)
(* The provider has no cursor of its own.  It is asked for what is dated   *)
(* from Overlap before the last sync until now, and what it returns is     *)
(* taken both as news and as the list of holds that still exist.  Teller   *)
(* is asked for whole days, SimpleFIN for instants; rows have whole dates, *)
(* and so has the cleanup of holds.  The bank is external and free: holds  *)
(* expire, settle under their own or a new identifier, transactions appear *)
(* late.  Syncs of a connection exclude each other (LockInv of             *)
(* SyncEngine).  Rows are classified by clocks compared within two         *)
(* seconds; here two syncs are farther apart than that and a flush reaches *)
(* its first row sooner.                                                   *)
(***************************************************************************)
EXTENDS Integers

CONSTANTS Txn,        \* provider transaction identifiers
          Account,    \* accounts the provider reports
          AccountOf,  \* the account of each transaction
          NoTxn,      \* the transaction replaces no hold
          PerDay,     \* instants in a day
          Overlap,    \* how far a sync looks back behind its cursor
          Backfill,   \* how far the first sync looks back
          FirstClean, \* how far the first cleanup of holds looks back
          Discovers,  \* the provider reports its accounts with every sync
          MaxTime,    \* bound: the last instant
          MaxEdits    \* bound: changes users make

ASSUME PollAssumption ==
  /\ AccountOf \in [Txn -> Account]
  /\ NoTxn \notin Txn
  /\ PerDay \in Nat \ {0}
  /\ Overlap \in Nat /\ Backfill \in Nat /\ FirstClean \in Nat
  /\ MaxTime \in Nat /\ MaxEdits \in Nat
  /\ Discovers \in BOOLEAN

Instant  == 0 .. MaxTime
NoCursor == -1

\* The date of an instant: a DATE column, a from_date in a request.
DateOf(i) == i \div PerDay

\* What the sync and a row hold of a transaction: its date is a whole day.
Entry == [state : {"none", "pending", "posted"}, date : 0 .. DateOf(MaxTime)]
Empty == [state |-> "none", date |-> 0]

\* toTransaction, mapTellerTransaction: what the bank says, as a row says it.
Told(b) == [state |-> b.state, date |-> DateOf(b.at)]

VARIABLES
  now,
  \* external: the bank
  bank,      \* state and instant of each transaction
  changed,   \* when it last changed
  replaces,  \* the hold a settled transaction took the place of
  \* transactions, accounts and bank_connections
  row,       \* what the row of a transaction says, deleted or not
  deleted,   \* rows whose deleted_at is set
  known,     \* accounts that have a row
  excluded,  \* accounts users excluded
  cursor,    \* sync_cursor
  byDay,     \* its provider is asked for whole days (Teller), not for instants
  \* locals of the sync
  syncing,
  prev,      \* previousCursor
  asof,      \* now as the provider client read it
  skip,      \* excludedSet
  todo,      \* accounts still to be fetched
  got,       \* pendingAdded
  \* annotations
  imports,   \* sync_started annotations of each row, up to two
  shown,     \* the state the row's timeline shows
  \* history
  since,     \* the instant from which the first committed sync asked
  passed,    \* transactions a sync returned and passed over as excluded
  byUser,    \* what a user last did to the row
  edits

bankVars == <<bank, changed, replaces>>
dbVars   == <<row, deleted, known, excluded, cursor, byDay>>
syncVars == <<syncing, prev, asof, skip, todo, got>>
noteVars == <<imports, shown>>
vars     == <<now, bankVars, dbVars, syncVars, noteVars, since, passed, byUser, edits>>

-----------------------------------------------------------------------------
Init ==
  /\ now = 0
  /\ bank = [t \in Txn |-> [state |-> "none", at |-> 0]]
  /\ changed = [t \in Txn |-> 0]
  /\ replaces = [t \in Txn |-> NoTxn]
  /\ row = [t \in Txn |-> Empty]
  /\ deleted = {}
  /\ known \in SUBSET Account
  /\ excluded = {}
  /\ cursor = NoCursor
  /\ byDay \in BOOLEAN
  /\ syncing = FALSE
  /\ prev = NoCursor
  /\ asof = 0
  /\ skip = {}
  /\ todo = {}
  /\ got = [t \in Txn |-> Empty]
  /\ imports = [t \in Txn |-> 0]
  /\ shown = [t \in Txn |-> "none"]
  /\ since = 0
  /\ passed = {}
  /\ byUser = [t \in Txn |-> "nothing"]
  /\ edits = 0

-----------------------------------------------------------------------------
(* The bank                                                                *)

Report(t, state, at) ==
  /\ bank' = [bank EXCEPT ![t] = [state |-> state, at |-> at]]
  /\ changed' = [changed EXCEPT ![t] = now]
  /\ UNCHANGED <<now, dbVars, syncVars, noteVars, since, passed, byUser, edits>>

\* A transaction appears, as a hold or settled and then perhaps late.
Appears(t) ==
  /\ bank[t].state = "none"
  /\ \/ Report(t, "pending", now)
     \/ \E i \in 0 .. now : Report(t, "posted", i)
  /\ UNCHANGED replaces

\* A hold settles under its identifier; SimpleFIN then dates it anew.
Settles(t) ==
  /\ bank[t].state = "pending"
  /\ \E i \in {bank[t].at, now} : Report(t, "posted", i)
  /\ UNCHANGED replaces

Expires(t) ==
  /\ bank[t].state = "pending"
  /\ Report(t, "gone", bank[t].at)
  /\ UNCHANGED replaces

\* A hold goes and the settled transaction appears under another identifier.
SettlesAs(p, q) ==
  /\ bank[p].state = "pending" /\ bank[q].state = "none"
  /\ AccountOf[p] = AccountOf[q]
  /\ \E i \in {bank[p].at, now} :
       bank' = [bank EXCEPT ![p].state = "gone", ![q] = [state |-> "posted", at |-> i]]
  /\ changed' = [changed EXCEPT ![p] = now, ![q] = now]
  /\ replaces' = [replaces EXCEPT ![q] = p]
  /\ UNCHANGED <<now, dbVars, syncVars, noteVars, since, passed, byUser, edits>>

Tick ==
  /\ now < MaxTime
  /\ now' = now + 1
  /\ UNCHANGED <<bankVars, dbVars, syncVars, noteVars, since, passed, byUser, edits>>

-----------------------------------------------------------------------------
(* The sync                                                                *)

\* runSync reads the excluded accounts and the cursor, the provider client the
\* clock.
BeginSync ==
  /\ ~syncing
  /\ syncing' = TRUE
  /\ prev' = cursor
  /\ skip' = excluded
  /\ asof' = now
  /\ todo' = Account
  /\ got' = [t \in Txn |-> Empty]
  /\ UNCHANGED <<now, bankVars, dbVars, noteVars, since, passed, byUser, edits>>

\* Mutant of FetchFrom: no overlap.
FetchFromNoOverlap == IF prev = NoCursor THEN asof - Backfill ELSE prev

\* syncStart and its counterpart for Teller.
FetchFrom == IF prev = NoCursor THEN asof - Backfill ELSE prev - Overlap

\* Teller's from_date and to_date are dates, both inclusive; SimpleFIN's start-date
\* and end-date are instants, the end exclusive.
Asked(i) ==
  IF byDay THEN DateOf(i) \in DateOf(FetchFrom) .. DateOf(asof)
           ELSE i \in FetchFrom .. asof - 1

\* The transactions of one account are fetched at a time of their own.
FetchAccount(a) ==
  LET returned == {t \in Txn : /\ AccountOf[t] = a
                               /\ bank[t].state \in {"pending", "posted"}
                               /\ Asked(bank[t].at)} IN
  /\ syncing
  /\ a \in todo
  /\ got' = [t \in Txn |-> IF t \in returned THEN Told(bank[t]) ELSE got[t]]
  /\ todo' = todo \ {a}
  /\ UNCHANGED <<now, bankVars, dbVars, syncing, prev, asof, skip, noteVars,
                 since, passed, byUser, edits>>

\* The locals of the sync are gone.
Return ==
  /\ syncing' = FALSE
  /\ prev' = NoCursor
  /\ asof' = 0
  /\ skip' = {}
  /\ todo' = {}
  /\ got' = [t \in Txn |-> Empty]

\* A request fails, the deadline passes, the commit fails or the process dies.
SyncFails ==
  /\ syncing
  /\ Return
  /\ UNCHANGED <<now, bankVars, dbVars, noteVars, since, passed, byUser, edits>>

Returned == {t \in Txn : got[t].state # "none"}

\* Mutant of Written: an account the flush discovers is not yet resolved.
WrittenBeforeDiscovery ==
  {t \in Returned : AccountOf[t] \in known /\ AccountOf[t] \notin skip}

\* processTransaction upserts a row unless its account is excluded or unknown; the
\* flush creates the accounts the provider discovered first.
Written ==
  {t \in Returned : /\ Discovers \/ AccountOf[t] \in known
                    /\ AccountOf[t] \notin skip}

\* cleanStalePending computes its own range, in whole days.
CleanDays ==
  (IF prev = NoCursor THEN DateOf(now - FirstClean) ELSE DateOf(prev - Overlap))
    .. DateOf(now)

\* Mutants of StaleHolds: without "pending = true"; a day too far back; from the
\* cursor on.
StaleHoldsAnyState ==
  {t \in Txn \ deleted : row[t].date \in CleanDays /\ t \notin Returned}

StaleHoldsDayBefore ==
  {t \in Txn \ deleted : /\ row[t].state = "pending"
                         /\ row[t].date + 1 \in CleanDays
                         /\ t \notin Returned}

StaleHoldsSinceCursor ==
  {t \in Txn \ deleted : /\ row[t].state = "pending"
                         /\ row[t].date \in DateOf(prev) .. DateOf(now)
                         /\ t \notin Returned}

\* cleanStalePending: pending rows of those days that were not returned.
StaleHolds ==
  {t \in Txn \ deleted : /\ row[t].state = "pending"
                         /\ row[t].date \in CleanDays
                         /\ t \notin Returned}

\* Mutant of PriorPending: a deleted row does not count as a prior row.
PriorPendingLive(t) == IF t \in deleted THEN "none" ELSE row[t].state

\* lookupPriorPending does not look at deleted_at.
PriorPending(t) == row[t].state

\* classifyUpsertResult takes a row for new if this flush inserted it.  A new
\* row gets a sync_started annotation, a flip of pending a sync_updated one.
Annotate ==
  LET new  == {t \in Written : row[t].state = "none"}
      flip == {t \in Written \ new : /\ PriorPending(t) # "none"
                                     /\ PriorPending(t) # got[t].state} IN
  /\ imports' = [t \in Txn |-> IF t \in new /\ imports[t] < 2 THEN imports[t] + 1
                               ELSE imports[t]]
  /\ shown' = [t \in Txn |-> IF t \in new \cup flip THEN got[t].state ELSE shown[t]]

\* Mutant of NewCursor: the time of the flush instead of that of the fetch.
NewCursorAtFlush == now

NewCursor == asof

\* The flush transaction: accounts, rows, stale holds and cursor.  The upsert
\* clears deleted_at.
Flush ==
  /\ syncing
  /\ todo = {}
  /\ Return
  /\ known' = IF Discovers THEN Account ELSE known
  /\ row' = [t \in Txn |-> IF t \in Written THEN got[t] ELSE row[t]]
  /\ deleted' = (deleted \ Written) \cup StaleHolds
  /\ Annotate
  /\ cursor' = NewCursor
  /\ since' = IF prev = NoCursor THEN FetchFrom ELSE since
  /\ passed' = (passed \ Written)
                 \cup {t \in Returned : AccountOf[t] \in skip}
  /\ UNCHANGED <<now, bankVars, excluded, byDay, byUser, edits>>

-----------------------------------------------------------------------------
(* Users                                                                   *)

Edit == edits < MaxEdits /\ edits' = edits + 1

\* SoftDeleteTransaction
DeleteTransaction(t) ==
  /\ Edit
  /\ row[t].state # "none" /\ t \notin deleted
  /\ deleted' = deleted \cup {t}
  /\ byUser' = [byUser EXCEPT ![t] = "deleted"]
  /\ UNCHANGED <<now, bankVars, row, known, excluded, cursor, byDay, syncVars, noteVars,
                 since, passed>>

\* RestoreTransaction does not ask who deleted the row.
RestoreTransaction(t) ==
  /\ Edit
  /\ t \in deleted
  /\ deleted' = deleted \ {t}
  /\ byUser' = [byUser EXCEPT ![t] = "restored"]
  /\ UNCHANGED <<now, bankVars, row, known, excluded, cursor, byDay, syncVars, noteVars,
                 since, passed>>

\* UpdateAccount with excluded.
SetExcluded(a) ==
  /\ Edit
  /\ a \in known
  /\ excluded' = IF a \in excluded THEN excluded \ {a} ELSE excluded \cup {a}
  /\ UNCHANGED <<now, bankVars, row, deleted, known, cursor, byDay, syncVars, noteVars,
                 since, passed, byUser>>

-----------------------------------------------------------------------------
Next ==
  \/ \E t \in Txn : Appears(t) \/ Settles(t) \/ Expires(t)
                    \/ \E q \in Txn : SettlesAs(t, q)
  \/ Tick
  \/ BeginSync
  \/ \E a \in Account : FetchAccount(a)
  \/ Flush
  \/ SyncFails
  \/ \E t \in Txn : DeleteTransaction(t) \/ RestoreTransaction(t)
  \/ \E a \in Account : SetExcluded(a)

Spec == Init /\ [][Next]_vars

-----------------------------------------------------------------------------
(* Properties                                                              *)

\* Types; only a row that exists is deleted.
TypeOK ==
  /\ now \in Instant
  /\ bank \in [Txn -> [state : {"none", "pending", "posted", "gone"}, at : Instant]]
  /\ changed \in [Txn -> Instant]
  /\ replaces \in [Txn -> Txn \cup {NoTxn}]
  /\ row \in [Txn -> Entry]
  /\ deleted \subseteq {t \in Txn : row[t].state # "none"}
  /\ known \subseteq Account /\ excluded \subseteq Account
  /\ cursor \in Instant \cup {NoCursor} /\ prev \in Instant \cup {NoCursor}
  /\ byDay \in BOOLEAN /\ syncing \in BOOLEAN /\ asof \in Instant /\ skip \subseteq Account
  /\ todo \subseteq Account
  /\ got \in [Txn -> Entry]
  /\ imports \in [Txn -> 0 .. 2]
  /\ shown \in [Txn -> {"none", "pending", "posted"}]
  /\ since \in -Backfill .. MaxTime
  /\ passed \subseteq Txn
  /\ byUser \in [Txn -> {"nothing", "deleted", "restored"}]
  /\ edits \in 0 .. MaxEdits

\* The bank reported its last change of t within Overlap of its date, before the
\* last sync asked.
InTime(t) == changed[t] - bank[t].at <= Overlap /\ changed[t] < cursor

\* No settled transaction is missed or left pending: if it is not older than what
\* the first sync asked for and the bank reported it in time, however many syncs
\* failed and however long they took from reading the clock to committing, its row
\* is there and says what the bank says.
NothingMissed ==
  \A t \in Txn :
    /\ bank[t].state = "posted" /\ InTime(t) /\ bank[t].at >= since
    /\ AccountOf[t] \in known /\ t \notin passed
    => row[t] = Told(bank[t]) /\ (t \in deleted => byUser[t] = "deleted")

\* No ghost holds: a hold the bank dropped in time has no live row, unless a user
\* brought it back.
NoGhostHolds ==
  \A t \in Txn :
    /\ bank[t].state = "gone" /\ InTime(t)
    /\ row[t].state = "pending" /\ t \notin deleted
    => byUser[t] = "restored"

\* Money is counted once: a settled transaction and the hold it replaced are
\* never both live.
CountedOnce ==
  \A q \in Txn : LET p == replaces[q] IN
    /\ p # NoTxn
    /\ changed[p] - bank[p].at <= Overlap
    /\ row[q].state = "posted" /\ q \notin deleted
    /\ row[p].state = "pending" /\ p \notin deleted
    => byUser[p] = "restored"

\* A hold that still exists is not taken for a stale one: never by a provider asked
\* for whole days; by one asked for instants not while a sync would still ask for
\* it.
HoldsKept ==
  \A t \in Txn :
    /\ bank[t].state = "pending" /\ t \in deleted
    /\ byDay \/ bank[t].at >= cursor - Overlap
    => byUser[t] = "deleted"

\* The claim that every live hold is returned and so no live hold is removed
\* (docs/simplefin-integration.md:56-58).  False for a provider asked for instants:
\* the cleanup covers all of the first day, the request only its end.
LiveHoldsStay ==
  \A t \in Txn :
    bank[t].state = "pending" /\ t \in deleted => byUser[t] = "deleted"

\* The timeline of a row tells its history: imported once, and every flip of
\* pending, also one that happened while the row was deleted.
TimelineTruthful ==
  \A t \in Txn :
    row[t].state # "none" => imports[t] = 1 /\ shown[t] = row[t].state
=============================================================================

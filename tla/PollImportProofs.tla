-------------------------- MODULE PollImportProofs --------------------------
(***************************************************************************)
(* Proofs about PollImport for any set of transactions and accounts, both  *)
(* kinds of provider, any overlap and backfill and any number of instants  *)
(* and edits: the types, the timeline, and that what a flush writes and    *)
(* what it takes for stale agrees with what the bank reported in time.     *)
(* BaseInv says what the fetch knows: an account already fetched holds     *)
(* exactly what the bank said of every transaction that did not change     *)
(* since the clock was read.                                               *)
(***************************************************************************)
EXTENDS PollImport, TLAPS

LEMMA Dates ==
  /\ \A i \in Int : DateOf(i) \in Int
  /\ \A i, j \in Int : i <= j => DateOf(i) <= DateOf(j)
BY PollAssumption DEF DateOf

LEMMA InstantIsInt == Instant \subseteq Int /\ 0 \in Instant
BY PollAssumption DEF Instant

LEMMA InstantDate ==
  ASSUME NEW i \in Instant
  PROVE  DateOf(i) \in 0 .. DateOf(MaxTime)
<1>1. 0 <= i /\ i <= MaxTime /\ i \in Int /\ MaxTime \in Int
  BY PollAssumption DEF Instant
<1>2. DateOf(0) = 0
  BY PollAssumption DEF DateOf
<1> QED
  BY <1>1, <1>2, Dates

LEMMA EmptyIsEntry == Empty \in Entry /\ Empty.state = "none"
<1>1. 0 \in 0 .. DateOf(MaxTime)
  <2>1. DateOf(0) = 0
    BY PollAssumption DEF DateOf
  <2> QED
    BY <2>1, InstantIsInt, InstantDate
<1> QED
  BY <1>1 DEF Empty, Entry

LEMMA ToldIsEntry ==
  ASSUME NEW b \in [state : {"none", "pending", "posted", "gone"}, at : Instant],
         b.state \in {"pending", "posted"}
  PROVE  /\ Told(b) \in Entry
         /\ Told(b).state = b.state /\ Told(b).date = DateOf(b.at)
BY InstantDate DEF Told, Entry

LEMMA InitTypeOK == Init => TypeOK
<1> SUFFICES ASSUME Init PROVE TypeOK
  OBVIOUS
<1>1. /\ bank \in [Txn -> [state : {"none", "pending", "posted", "gone"}, at : Instant]]
      /\ now \in Instant /\ changed \in [Txn -> Instant] /\ asof \in Instant
  BY InstantIsInt DEF Init
<1>2. row \in [Txn -> Entry] /\ got \in [Txn -> Entry]
  BY EmptyIsEntry DEF Init
<1>3. /\ edits \in 0 .. MaxEdits /\ imports \in [Txn -> 0 .. 2]
      /\ since \in -Backfill .. MaxTime
  BY PollAssumption DEF Init
<1> QED
  BY <1>1, <1>2, <1>3 DEF Init, TypeOK

LEMMA TypeStep == TypeOK /\ [Next]_vars => TypeOK'
<1> SUFFICES ASSUME TypeOK, [Next]_vars PROVE TypeOK'
  OBVIOUS
<1> USE PollAssumption
<1>a. ASSUME NEW t \in Txn, NEW s \in {"pending", "posted", "gone"}, NEW d \in Instant,
             Report(t, s, d), replaces' = replaces
      PROVE  TypeOK'
  <2>1. bank' \in [Txn -> [state : {"none", "pending", "posted", "gone"}, at : Instant]]
    BY <1>a DEF Report, TypeOK
  <2>2. changed' \in [Txn -> Instant]
    BY <1>a DEF Report, TypeOK
  <2> QED
    BY <1>a, <2>1, <2>2 DEF Report, TypeOK, dbVars, syncVars, noteVars
<1>1. ASSUME NEW t \in Txn, Appears(t) PROVE TypeOK'
  <2>1. now \in Instant
    BY DEF TypeOK
  <2>2. CASE Report(t, "pending", now)
    BY <1>1, <1>a, <2>1, <2>2 DEF Appears
  <2>3. CASE \E d \in 0 .. now : Report(t, "posted", d)
    <3>1. PICK d \in 0 .. now : Report(t, "posted", d)
      BY <2>3
    <3>2. d \in Instant
      BY <2>1 DEF Instant
    <3> QED
      BY <1>1, <1>a, <3>1, <3>2 DEF Appears
  <2> QED
    BY <1>1, <2>2, <2>3 DEF Appears
<1>2. ASSUME NEW t \in Txn, Settles(t) PROVE TypeOK'
  <2>1. PICK d \in {bank[t].at, now} : Report(t, "posted", d)
    BY <1>2 DEF Settles
  <2>2. d \in Instant
    BY DEF TypeOK
  <2> QED
    BY <1>2, <1>a, <2>1, <2>2 DEF Settles
<1>3. ASSUME NEW t \in Txn, Expires(t) PROVE TypeOK'
  <2>1. bank[t].at \in Instant
    BY DEF TypeOK
  <2> QED
    BY <1>3, <1>a, <2>1 DEF Expires
<1>4. ASSUME NEW p \in Txn, NEW q \in Txn, SettlesAs(p, q) PROVE TypeOK'
  <2>1. PICK d \in {bank[p].at, now} :
          bank' = [bank EXCEPT ![p].state = "gone",
                               ![q] = [state |-> "posted", at |-> d]]
    BY <1>4 DEF SettlesAs
  <2>2. d \in Instant
    BY DEF TypeOK
  <2>3. bank' \in [Txn -> [state : {"none", "pending", "posted", "gone"}, at : Instant]]
    BY <2>1, <2>2 DEF TypeOK
  <2>4. changed' \in [Txn -> Instant] /\ replaces' \in [Txn -> Txn \cup {NoTxn}]
    BY <1>4 DEF SettlesAs, TypeOK
  <2> QED
    BY <1>4, <2>3, <2>4 DEF SettlesAs, TypeOK, dbVars, syncVars, noteVars
<1>5. CASE Tick
  BY <1>5 DEF Tick, TypeOK, Instant, bankVars, dbVars, syncVars, noteVars
<1>6. CASE BeginSync
  BY <1>6, EmptyIsEntry, InstantIsInt DEF BeginSync, TypeOK, bankVars, dbVars, noteVars
<1>7. ASSUME NEW a \in Account, FetchAccount(a) PROVE TypeOK'
  <2>1. got' \in [Txn -> Entry]
    BY <1>7, ToldIsEntry DEF FetchAccount, TypeOK
  <2> QED
    BY <1>7, <2>1 DEF FetchAccount, TypeOK, bankVars, dbVars, noteVars
<1>8. CASE Flush
  <2>1. row' \in [Txn -> Entry]
    BY <1>8 DEF Flush, TypeOK
  <2>2. deleted' \subseteq {t \in Txn : row'[t].state # "none"}
    BY <1>8 DEF Flush, TypeOK, Written, Returned, StaleHolds, Entry
  <2>3. Return /\ cursor' \in Instant \cup {NoCursor} /\ known' \subseteq Account
    BY <1>8 DEF Flush, TypeOK, NewCursor
  <2>4. imports' \in [Txn -> 0 .. 2]
    BY <1>8 DEF Flush, Annotate, TypeOK
  <2>5. shown' \in [Txn -> {"none", "pending", "posted"}]
    BY <1>8 DEF Flush, Annotate, TypeOK, Entry
  <2>6. passed' \subseteq Txn
    BY <1>8 DEF Flush, TypeOK, Returned
  <2>7. /\ syncing' \in BOOLEAN /\ asof' \in Instant /\ skip' \subseteq Account
        /\ todo' \subseteq Account /\ got' \in [Txn -> Entry]
        /\ prev' \in Instant \cup {NoCursor}
    BY <2>3, EmptyIsEntry, InstantIsInt DEF Return
  <2>8. since' \in -Backfill .. MaxTime
    <3>1. since' = IF prev = NoCursor THEN asof - Backfill ELSE since
      BY <1>8 DEF Flush, FetchFrom
    <3>2. /\ asof \in Instant /\ since \in -Backfill .. MaxTime
          /\ Backfill \in Nat /\ MaxTime \in Nat
      BY DEF TypeOK
    <3> QED
      BY <3>1, <3>2 DEF Instant
  <2> QED
    BY <1>8, <2>1, <2>2, <2>3, <2>4, <2>5, <2>6, <2>7, <2>8 DEF Flush, TypeOK, bankVars
<1>9. CASE SyncFails
  BY <1>9, EmptyIsEntry, InstantIsInt DEF SyncFails, Return, TypeOK, bankVars, dbVars, noteVars
<1>10. ASSUME NEW t \in Txn, DeleteTransaction(t) PROVE TypeOK'
  BY <1>10 DEF DeleteTransaction, Edit, TypeOK, bankVars, syncVars, noteVars
<1>11. ASSUME NEW t \in Txn, RestoreTransaction(t) PROVE TypeOK'
  BY <1>11 DEF RestoreTransaction, Edit, TypeOK, bankVars, syncVars, noteVars
<1>12. ASSUME NEW a \in Account, SetExcluded(a) PROVE TypeOK'
  BY <1>12 DEF SetExcluded, Edit, TypeOK, bankVars, syncVars, noteVars
<1>13. CASE UNCHANGED vars
  BY <1>13 DEF vars, TypeOK, bankVars, dbVars, syncVars, noteVars
<1> QED
  BY <1>1, <1>2, <1>3, <1>4, <1>5, <1>6, <1>7, <1>8, <1>9, <1>10, <1>11, <1>12,
     <1>13 DEF Next

\* Every variable holds a value of its type, and only a row that exists is deleted.
THEOREM PollTypeCorrect == Spec => []TypeOK
BY InitTypeOK, TypeStep, PTL DEF Spec

-----------------------------------------------------------------------------
(* The timeline                                                            *)

\* TimelineTruthful with the rows that do not exist yet: they have no annotation.
TimelineInv ==
  \A t \in Txn :
    IF row[t].state = "none" THEN imports[t] = 0 /\ shown[t] = "none"
                             ELSE imports[t] = 1 /\ shown[t] = row[t].state

LEMMA TimelineStep == TypeOK /\ TimelineInv /\ [Next]_vars => TimelineInv'
<1> SUFFICES ASSUME TypeOK, TimelineInv, [Next]_vars PROVE TimelineInv'
  OBVIOUS
<1>1. CASE UNCHANGED <<row, noteVars>>
  BY <1>1 DEF TimelineInv, noteVars
<1>2. CASE Flush
  <2> SUFFICES ASSUME NEW t \in Txn
               PROVE  IF row'[t].state = "none"
                      THEN imports'[t] = 0 /\ shown'[t] = "none"
                      ELSE imports'[t] = 1 /\ shown'[t] = row'[t].state
    BY DEF TimelineInv
  <2>1. IF t \in Written THEN row'[t] = got[t] /\ got[t].state # "none"
                         ELSE row'[t] = row[t]
    BY <1>2 DEF Flush, Written, Returned, TypeOK
  <2>2. imports'[t] = IF t \in Written /\ row[t].state = "none" /\ imports[t] < 2
                      THEN imports[t] + 1 ELSE imports[t]
    BY <1>2 DEF Flush, Annotate
  <2>3. shown'[t] = IF /\ t \in Written
                       /\ row[t].state = "none" \/ row[t].state # got[t].state
                    THEN got[t].state ELSE shown[t]
    BY <1>2 DEF Flush, Annotate, PriorPending
  <2> QED
    BY <2>1, <2>2, <2>3 DEF TimelineInv
<1> QED
  BY <1>1, <1>2 DEF Next, Appears, Settles, Expires, SettlesAs, Report, Tick,
     BeginSync, FetchAccount, SyncFails, DeleteTransaction, RestoreTransaction,
     SetExcluded, vars, dbVars, noteVars

\* The timeline of a row tells its history, whatever syncs and users do and in
\* whatever order: imported once, and every flip of pending.
THEOREM TimelineIsTruthful == Spec => []TimelineTruthful
<1>1. Init => TimelineInv
  <2>1. ASSUME Init, NEW t \in Txn
        PROVE  row[t].state = "none" /\ imports[t] = 0 /\ shown[t] = "none"
    BY <2>1, EmptyIsEntry DEF Init
  <2> QED
    BY <2>1 DEF TimelineInv
<1>2. TimelineInv => TimelineTruthful
  BY DEF TimelineInv, TimelineTruthful
<1> QED
  BY PollTypeCorrect, TimelineStep, <1>1, <1>2, PTL DEF Spec

-----------------------------------------------------------------------------
(* What a step of the bank changes                                         *)

\* A transaction stays as it is, or changes now, one way only.
Moved(t) ==
  \/ bank'[t] = bank[t] /\ changed'[t] = changed[t]
  \/ /\ changed'[t] = now /\ bank'[t].at <= now
     /\ \/ bank[t].state = "none" /\ bank'[t].state \in {"pending", "posted"}
        \/ bank[t].state = "pending" /\ bank'[t].state = "posted"
        \/ /\ bank[t].state = "pending" /\ bank'[t].state = "gone"
           /\ bank'[t].at = bank[t].at

\* A transaction replaces what it did, or from now on a hold that goes as it comes.
Replaced(q) ==
  \/ replaces'[q] = replaces[q]
  \/ \E p \in Txn : /\ replaces'[q] = p /\ AccountOf[p] = AccountOf[q]
                    /\ bank[q].state = "none" /\ bank'[q].state = "posted"
                    /\ bank[p].state = "pending" /\ bank'[p].state = "gone"

BankMoves ==
  /\ \A t \in Txn : Moved(t) /\ Replaced(t)
  /\ UNCHANGED <<now, dbVars, syncVars, noteVars, since, passed, byUser, edits>>

\* The instants of the bank, of the sync and of the cursor in their order.
Times ==
  /\ \A t \in Txn : bank[t].at <= changed[t] /\ changed[t] <= now
  /\ cursor <= now
  /\ syncing => prev = cursor /\ cursor <= asof /\ asof <= now

LEMMA ReportMoves ==
  ASSUME TypeOK, NEW t \in Txn, NEW s, NEW d \in Instant, Report(t, s, d), d <= now,
         replaces' = replaces,
         \/ bank[t].state = "none" /\ s \in {"pending", "posted"}
         \/ bank[t].state = "pending" /\ s = "posted"
         \/ bank[t].state = "pending" /\ s = "gone" /\ d = bank[t].at
  PROVE  BankMoves
<1>1. /\ bank'[t].state = s /\ bank'[t].at = d /\ changed'[t] = now
      /\ \A u \in Txn \ {t} : bank'[u] = bank[u] /\ changed'[u] = changed[u]
  BY DEF Report, TypeOK
<1>2. \A u \in Txn : Moved(u)
  BY <1>1 DEF Moved
<1> QED
  BY <1>2 DEF BankMoves, Replaced, Report

LEMMA BankActions ==
  ASSUME TypeOK, Times,
         \/ \E t \in Txn : Appears(t) \/ Settles(t) \/ Expires(t)
         \/ \E p, q \in Txn : SettlesAs(p, q)
  PROVE  BankMoves
<1> USE InstantIsInt
<1>0. /\ now \in Instant /\ \A t \in Txn : bank[t].at \in Instant /\ bank[t].at <= now
      /\ \A d \in 0 .. now : d \in Instant /\ d <= now
  BY PollAssumption DEF TypeOK, Times, Instant
<1>1. ASSUME NEW t \in Txn, Appears(t) PROVE BankMoves
  <2>1. PICK s \in {"pending", "posted"}, d \in 0 .. now : Report(t, s, d)
    <3>1. now \in 0 .. now
      BY <1>0, PollAssumption DEF Instant
    <3> QED
      BY <1>1, <3>1 DEF Appears
  <2>2. bank[t].state = "none" /\ replaces' = replaces /\ d \in Instant /\ d <= now
    BY <1>0, <1>1 DEF Appears
  <2> QED
    BY <2>1, <2>2, ReportMoves
<1>2. ASSUME NEW t \in Txn, Settles(t) PROVE BankMoves
  <2>1. PICK d \in {bank[t].at, now} : Report(t, "posted", d)
    BY <1>2 DEF Settles
  <2>2. bank[t].state = "pending" /\ replaces' = replaces /\ d \in Instant /\ d <= now
    BY <1>0, <1>2 DEF Settles
  <2> QED
    BY <2>1, <2>2, ReportMoves
<1>3. ASSUME NEW t \in Txn, Expires(t) PROVE BankMoves
  BY <1>0, <1>3, ReportMoves DEF Expires
<1>4. ASSUME NEW p \in Txn, NEW q \in Txn, SettlesAs(p, q) PROVE BankMoves
  <2>1. PICK d \in {bank[p].at, now} :
          bank' = [bank EXCEPT ![p].state = "gone",
                               ![q] = [state |-> "posted", at |-> d]]
    BY <1>4 DEF SettlesAs
  <2>2. p # q /\ d <= now
    BY <1>0, <1>4 DEF SettlesAs
  <2>3. /\ bank'[p].state = "gone" /\ bank'[p].at = bank[p].at
        /\ bank'[q].state = "posted" /\ bank'[q].at = d
        /\ \A u \in Txn \ {p, q} : bank'[u] = bank[u]
    BY <2>1, <2>2 DEF TypeOK
  <2>4. /\ changed'[p] = now /\ changed'[q] = now
        /\ \A u \in Txn \ {p, q} : changed'[u] = changed[u]
    BY <1>4, <2>2 DEF SettlesAs, TypeOK
  <2>5. \A u \in Txn : Moved(u)
    BY <1>0, <1>4, <2>2, <2>3, <2>4, ZenonT(40) DEF Moved, SettlesAs
  <2>6. /\ replaces'[q] = p
        /\ \A u \in Txn \ {q} : replaces'[u] = replaces[u]
    BY <1>4 DEF SettlesAs, TypeOK
  <2>7. \A u \in Txn : Replaced(u)
    BY <1>4, <2>3, <2>6, ZenonT(40) DEF Replaced, SettlesAs
  <2> QED
    BY <1>4, <2>5, <2>7 DEF BankMoves, SettlesAs
<1> QED
  BY <1>1, <1>2, <1>3, <1>4

-----------------------------------------------------------------------------
(* What rows, cursor and locals have in common with the bank               *)

\* x, read at instant last or before, tells of a state t is or was in.
Seen(x, t, last) ==
  /\ x.state # "none" => bank[t].state # "none" /\ x.date <= DateOf(last)
  /\ x.state = "posted" => bank[t].state = "posted"
  /\ x.state = "pending" /\ bank[t].state \in {"pending", "gone"} =>
       x.date = DateOf(bank[t].at) /\ (byDay \/ bank[t].at < last)

RowsSeen == \A t \in Txn : Seen(row[t], t, cursor)
GotSeen  == syncing => \A t \in Txn : Seen(got[t], t, asof)

\* There is no row before the first commit.
NoRows == cursor = NoCursor => \A t \in Txn : row[t].state = "none"

\* What the sync holds of a transaction whose account it has fetched.
AsBankSaid(t) ==
  /\ changed[t] < asof =>
       got[t] = IF bank[t].state \in {"pending", "posted"} /\ Asked(bank[t].at)
                THEN Told(bank[t]) ELSE Empty
  /\ bank[t].state = "pending" /\ row[t].state = "pending" /\ Asked(bank[t].at)
     => got[t].state # "none"

Fetched ==
  syncing => \A t \in Txn : IF AccountOf[t] \in todo THEN got[t] = Empty ELSE AsBankSaid(t)

\* A provider that discovers accounts has done so by the first commit.
Grown == Discovers /\ cursor # NoCursor => known = Account

\* A replaced hold is gone, and not held beside what replaced it.
Heir(q, p) ==
  /\ bank[p].state = "gone" /\ bank[q].state = "posted" /\ AccountOf[p] = AccountOf[q]
  /\ syncing /\ (got[q].state # "none" \/ row[q].state # "none") =>
       got[p].state = "none"

Heirs == \A q \in Txn : replaces[q] # NoTxn => Heir(q, replaces[q])

Base == Times /\ RowsSeen /\ NoRows /\ GotSeen /\ Fetched /\ Grown /\ Heirs

BaseInv == TypeOK /\ Base

\* The types as arithmetic uses them.
LEMMA Ints ==
  ASSUME TypeOK
  PROVE  /\ now \in Int /\ asof \in Int /\ cursor \in Int /\ prev \in Int
         /\ 0 <= now /\ 0 <= asof /\ FetchFrom \in Int /\ Overlap \in Nat
         /\ \A t \in Txn : /\ bank[t].at \in Int /\ row[t].date \in Int
                           /\ got[t].date \in Int /\ changed[t] \in Int
                           /\ 0 <= bank[t].at /\ 0 <= changed[t]
<1>1. \A i \in Instant : i \in Int /\ 0 <= i
  BY DEF Instant
<1>2. now \in Instant /\ asof \in Instant /\ cursor \in Instant \cup {-1}
      /\ prev \in Instant \cup {-1}
  BY DEF TypeOK, NoCursor
<1>3. FetchFrom \in Int /\ Overlap \in Nat
  BY <1>1, <1>2, PollAssumption DEF FetchFrom, NoCursor
<1>4. \A t \in Txn : /\ bank[t].at \in Instant /\ row[t].date \in Int
                     /\ got[t].date \in Int /\ changed[t] \in Instant
  BY DEF TypeOK, Entry
<1> QED
  BY <1>1, <1>2, <1>3, <1>4

\* The window is a function of the locals of the sync.
LEMMA AskedKept ==
  ASSUME prev' = prev, asof' = asof, byDay' = byDay
  PROVE  FetchFrom' = FetchFrom /\ \A i : Asked(i)' <=> Asked(i)
BY DEF FetchFrom, Asked

LEMMA BaseInit == Init => BaseInv
<1> SUFFICES ASSUME Init PROVE BaseInv
  OBVIOUS
<1>1. TypeOK
  BY InitTypeOK
<1>2. Times
  BY DEF Init, Times, NoCursor
<1>3. RowsSeen /\ NoRows /\ GotSeen /\ Fetched /\ Grown /\ Heirs
  BY EmptyIsEntry DEF Init, RowsSeen, NoRows, GotSeen, Fetched, Grown, Heirs, Seen
<1> QED
  BY <1>1, <1>2, <1>3 DEF BaseInv, Base

LEMMA BaseBank ==
  ASSUME BaseInv, BankMoves
  PROVE  Base'
<1> USE Ints DEF BaseInv, Base
<1>0. /\ UNCHANGED <<now, row, cursor, byDay, syncing, prev, asof, todo, got, known>>
      /\ \A i : Asked(i)' <=> Asked(i)
  BY AskedKept DEF BankMoves, dbVars, syncVars
<1>1. Times'
  <2>1. \A t \in Txn : bank'[t].at <= changed'[t] /\ changed'[t] <= now
    BY DEF Times, BankMoves, Moved
  <2> QED
    BY <1>0, <2>1 DEF Times
<1>2. ASSUME NEW x, NEW t \in Txn, NEW last, Seen(x, t, last),
             x.state \in {"none", "pending", "posted"}
      PROVE  /\ x.state # "none" => bank'[t].state # "none" /\ x.date <= DateOf(last)
             /\ x.state = "posted" => bank'[t].state = "posted"
             /\ x.state = "pending" /\ bank'[t].state \in {"pending", "gone"} =>
                  x.date = DateOf(bank'[t].at) /\ (byDay \/ bank'[t].at < last)
  BY <1>2 DEF Seen, BankMoves, Moved
<1>3. \A t \in Txn : row[t].state \in {"none", "pending", "posted"}
                     /\ got[t].state \in {"none", "pending", "posted"}
  BY DEF TypeOK, Entry
<1>4. RowsSeen' /\ NoRows'
  BY <1>0, <1>2, <1>3 DEF RowsSeen, NoRows, Seen
<1>5. GotSeen'
  BY <1>0, <1>2, <1>3 DEF GotSeen, Seen
<1>6. Fetched'
  <2> SUFFICES ASSUME syncing, NEW t \in Txn, AccountOf[t] \notin todo PROVE AsBankSaid(t)'
    BY <1>0 DEF Fetched
  <2>1. AsBankSaid(t)
    BY DEF Fetched
  <2>2. CASE bank'[t] = bank[t] /\ changed'[t] = changed[t]
    BY <1>0, <2>1, <2>2 DEF AsBankSaid
  <2>3. CASE changed'[t] = now /\ bank'[t].state # "pending"
    BY <1>0, <2>3 DEF AsBankSaid, Times
  <2>4. CASE changed'[t] = now /\ bank[t].state = "none"
    BY <1>0, <2>4 DEF AsBankSaid, Times, RowsSeen, Seen
  <2> QED
    BY <2>2, <2>3, <2>4 DEF BankMoves, Moved
<1>7. Grown'
  BY <1>0 DEF Grown
<1>8. Heirs'
  <2> SUFFICES ASSUME NEW q \in Txn, replaces'[q] # NoTxn
               PROVE  Heir(q, replaces[q])'
    BY DEF Heirs
  <2>1. CASE replaces'[q] = replaces[q]
    <3>1. replaces[q] \in Txn /\ Heir(q, replaces[q])
      BY <2>1 DEF Heirs, TypeOK
    <3>2. bank'[q].state = "posted" /\ bank'[replaces[q]].state = "gone"
      BY <3>1 DEF Heir, BankMoves, Moved
    <3> QED
      BY <1>0, <2>1, <3>1, <3>2 DEF Heir
  <2>2. CASE bank[q].state = "none"
    BY <1>0, <1>3, <2>1, <2>2 DEF BankMoves, Replaced, Heir, RowsSeen, GotSeen, Seen
  <2> QED
    BY <2>1, <2>2 DEF BankMoves, Replaced
<1> QED
  BY <1>1, <1>4, <1>5, <1>6, <1>7, <1>8

LEMMA BaseIdle ==
  ASSUME BaseInv, UNCHANGED <<bankVars, row, known, cursor, byDay, syncVars>>,
         now' \in Int, now <= now'
  PROVE  Base'
<1> USE Ints DEF BaseInv, Base, bankVars, syncVars
<1>1. Times'
  BY DEF Times
<1>2. RowsSeen' /\ NoRows' /\ GotSeen'
  BY DEF RowsSeen, NoRows, GotSeen, Seen
<1>3. Fetched'
  BY AskedKept DEF Fetched, AsBankSaid
<1>4. Grown' /\ Heirs'
  BY DEF Grown, Heirs, Heir
<1> QED
  BY <1>1, <1>2, <1>3, <1>4

LEMMA BaseBegin == BaseInv /\ BeginSync => Base'
<1> SUFFICES ASSUME BaseInv, BeginSync PROVE Base'
  OBVIOUS
<1> USE Ints, EmptyIsEntry DEF BaseInv, Base, BeginSync, bankVars, dbVars
<1>1. Times'
  BY DEF Times
<1>2. RowsSeen' /\ NoRows' /\ GotSeen'
  BY DEF RowsSeen, NoRows, GotSeen, Seen
<1>3. \A t \in Txn : AccountOf[t] \in todo' /\ got'[t] = Empty
  BY PollAssumption
<1>4. Fetched'
  BY <1>3 DEF Fetched
<1>5. Grown' /\ Heirs'
  BY <1>3 DEF Grown, Heirs, Heir, TypeOK
<1> QED
  BY <1>1, <1>2, <1>4, <1>5

\* What a fetch may return is dated in its window.
LEMMA AskedBefore ==
  ASSUME TypeOK, NEW i \in Int, Asked(i)
  PROVE  DateOf(i) <= DateOf(asof) /\ (byDay \/ i < asof)
BY Ints, Dates DEF Asked

LEMMA BaseFetch ==
  ASSUME BaseInv, NEW a \in Account, FetchAccount(a)
  PROVE  Base'
<1> USE Ints, EmptyIsEntry DEF BaseInv, Base
<1>0. /\ UNCHANGED <<now, bank, changed, replaces, row, known, cursor, byDay, syncing, prev, asof>>
      /\ \A i : Asked(i)' <=> Asked(i)
      /\ syncing /\ a \in todo /\ todo' = todo \ {a}
  BY AskedKept DEF FetchAccount, bankVars, dbVars
<1>1. \A t \in Txn :
        got'[t] = IF /\ AccountOf[t] = a
                     /\ bank[t].state \in {"pending", "posted"}
                     /\ Asked(bank[t].at)
                  THEN Told(bank[t]) ELSE got[t]
  BY DEF FetchAccount
<1>2. \A t \in Txn : bank[t].state \in {"pending", "posted"} =>
        Told(bank[t]).state = bank[t].state /\ Told(bank[t]).date = DateOf(bank[t].at)
  BY ToldIsEntry DEF TypeOK
<1>3. Times' /\ Grown'
  BY <1>0 DEF Times, Grown
<1>4. RowsSeen' /\ NoRows'
  BY <1>0 DEF RowsSeen, NoRows, Seen
<1>5. GotSeen'
  <2> SUFFICES ASSUME NEW t \in Txn PROVE Seen(got'[t], t, asof)
    BY <1>0 DEF GotSeen, Seen
  <2>1. CASE got'[t] = got[t]
    BY <1>0, <2>1 DEF GotSeen
  <2>2. CASE /\ got'[t] = Told(bank[t]) /\ Asked(bank[t].at)
             /\ bank[t].state \in {"pending", "posted"}
    BY <1>2, <2>2, AskedBefore DEF Seen
  <2> QED
    BY <1>1, <2>1, <2>2
<1>6. Fetched'
  <2> SUFFICES ASSUME NEW t \in Txn
               PROVE  IF AccountOf[t] \in todo' THEN got'[t] = Empty
                                                ELSE AsBankSaid(t)'
    BY DEF Fetched
  <2>1. CASE AccountOf[t] = a
    <3>1. got[t] = Empty /\ AccountOf[t] \notin todo'
      BY <1>0, <2>1 DEF Fetched
    <3> QED
      BY <1>0, <1>1, <1>2, <2>1, <3>1 DEF AsBankSaid
  <2>2. CASE AccountOf[t] # a
    BY <1>0, <1>1, <2>2 DEF Fetched, AsBankSaid
  <2> QED
    BY <2>1, <2>2
<1>7. Heirs'
  <2> SUFFICES ASSUME NEW q \in Txn, NEW p \in Txn, replaces[q] = p, Heir(q, p)
               PROVE  Heir(q, p)'
    BY <1>0 DEF Heirs, TypeOK
  <2>1. got'[p] = got[p]
    BY <1>1 DEF Heir
  <2>2. CASE AccountOf[q] = a
    <3>1. got[p] = Empty
      BY <1>0, <2>2 DEF Fetched, Heir
    <3> QED
      BY <1>0, <2>1, <3>1 DEF Heir
  <2>3. CASE AccountOf[q] # a
    BY <1>0, <1>1, <2>1, <2>3 DEF Heir
  <2> QED
    BY <2>2, <2>3
<1> QED
  BY <1>3, <1>4, <1>5, <1>6, <1>7

LEMMA BaseReturn == BaseInv /\ SyncFails => Base'
BY DEF BaseInv, Base, SyncFails, Return, bankVars, dbVars, Times, RowsSeen, NoRows,
   GotSeen, Fetched, Grown, Heirs, Heir, Seen

LEMMA BaseFlush == BaseInv /\ Flush => Base'
<1> SUFFICES ASSUME BaseInv, Flush PROVE Base'
  OBVIOUS
<1> USE Ints DEF BaseInv, Base
<1>0. UNCHANGED <<now, bank, changed, replaces, byDay>> /\ syncing /\ ~syncing' /\ cursor' = asof
  BY DEF Flush, bankVars, Return, NewCursor
<1>1. Times'
  BY <1>0 DEF Times
<1>2. RowsSeen'
  <2> SUFFICES ASSUME NEW t \in Txn PROVE Seen(row'[t], t, asof)
    BY <1>0 DEF RowsSeen, Seen
  <2>1. CASE row'[t] = got[t]
    BY <1>0, <2>1 DEF GotSeen
  <2>2. CASE row'[t] = row[t]
    <3>1. cursor <= asof /\ DateOf(cursor) <= DateOf(asof)
      BY <1>0, Dates DEF Times
    <3>2. DateOf(cursor) \in Int /\ DateOf(asof) \in Int
      BY Dates
    <3> QED
      BY <2>2, <3>1, <3>2 DEF RowsSeen, Seen
  <2> QED
    BY <2>1, <2>2 DEF Flush
<1>3. GotSeen' /\ Fetched'
  BY <1>0 DEF GotSeen, Fetched
<1>4. NoRows'
  BY <1>0 DEF NoRows, NoCursor
<1>5. Grown'
  BY DEF Flush, Grown
<1>6. Heirs'
  BY <1>0 DEF Heirs, Heir
<1> QED
  BY <1>1, <1>2, <1>3, <1>4, <1>5, <1>6

LEMMA BaseStep == BaseInv /\ [Next]_vars => BaseInv'
<1> SUFFICES ASSUME BaseInv, [Next]_vars PROVE BaseInv'
  OBVIOUS
<1>1. TypeOK'
  BY TypeStep DEF BaseInv
<1>2. now \in Int
  BY Ints DEF BaseInv
<1>3. CASE \/ \E t \in Txn : Appears(t) \/ Settles(t) \/ Expires(t)
           \/ \E p, q \in Txn : SettlesAs(p, q)
  BY <1>1, <1>3, BankActions, BaseBank DEF BaseInv, Base
<1>4. CASE \/ Tick \/ UNCHANGED vars
           \/ \E t \in Txn : DeleteTransaction(t) \/ RestoreTransaction(t)
           \/ \E a \in Account : SetExcluded(a)
  <2>1. /\ UNCHANGED <<bankVars, row, known, cursor, byDay, syncVars>>
        /\ now' \in Int /\ now <= now'
    BY <1>2, <1>4 DEF Tick, vars, DeleteTransaction, RestoreTransaction, SetExcluded,
       bankVars, dbVars, syncVars
  <2> QED
    BY <1>1, <2>1, BaseIdle DEF BaseInv
<1>5. CASE BeginSync
  BY <1>1, <1>5, BaseBegin DEF BaseInv
<1>6. ASSUME NEW a \in Account, FetchAccount(a) PROVE BaseInv'
  BY <1>1, <1>6, BaseFetch DEF BaseInv
<1>7. CASE Flush
  BY <1>1, <1>7, BaseFlush DEF BaseInv
<1>8. CASE SyncFails
  BY <1>1, <1>8, BaseReturn DEF BaseInv
<1> QED
  BY <1>3, <1>4, <1>5, <1>6, <1>7, <1>8 DEF Next

LEMMA BaseInvariance == Spec => []BaseInv
BY BaseInit, BaseStep, PTL DEF Spec

-----------------------------------------------------------------------------
(* The properties                                                          *)

LEMMA Flushed ==
  ASSUME BaseInv, Flush, NEW t \in Txn
  PROVE  /\ UNCHANGED <<now, bank, changed, replaces, byDay, byUser>>
         /\ cursor' = asof /\ prev = cursor
         /\ t \in Written =>
              row'[t] = got[t] /\ got[t].state # "none" /\ (t \in deleted' => FALSE)
         /\ t \notin Written => row'[t] = row[t]
         /\ t \notin Written /\ t \in deleted => t \in deleted'
         /\ t \in deleted' => t \in deleted \/ t \in StaleHolds
         /\ AsBankSaid(t)
<1>1. syncing /\ todo = {}
  BY DEF Flush
<1> QED
  BY <1>1 DEF Flush, bankVars, NewCursor, Written, Returned, StaleHolds, BaseInv, Base,
     Times, Fetched

\* A transaction reported in time that is not asked for was reported before the
\* last sync asked.
LEMMA NotAsked ==
  ASSUME BaseInv, Flush, NEW t \in Txn, changed[t] < asof,
         changed[t] - bank[t].at <= Overlap, bank[t].at >= since',
         ~Asked(bank[t].at)
  PROVE  changed[t] < cursor /\ cursor # NoCursor /\ bank[t].at >= since
<1> USE Ints DEF BaseInv, Base
<1>1. bank[t].at < asof /\ prev = cursor
  BY DEF Times, Flush
<1>2. DateOf(bank[t].at) <= DateOf(asof)
  BY <1>1, Dates
<1>3. bank[t].at < FetchFrom
  <2> SUFFICES ASSUME FetchFrom <= bank[t].at PROVE Asked(bank[t].at)
    OBVIOUS
  <2>1. DateOf(FetchFrom) <= DateOf(bank[t].at)
    BY Dates
  <2>2. DateOf(FetchFrom) \in Int /\ DateOf(bank[t].at) \in Int /\ DateOf(asof) \in Int
    BY Dates
  <2> QED
    BY <1>1, <1>2, <2>1, <2>2 DEF Asked
<1>4. since' = IF prev = NoCursor THEN FetchFrom ELSE since
  BY DEF Flush
<1>5. prev # NoCursor
  BY <1>3, <1>4
<1> QED
  BY <1>1, <1>3, <1>4, <1>5 DEF FetchFrom

\* A pending row the cleanup leaves out is older than what a sync asks for.
LEMMA NotCleaned ==
  ASSUME BaseInv, Flush, NEW t \in Txn, row[t].state = "pending",
         bank[t].state \in {"pending", "gone"}, row[t].date \notin CleanDays
  PROVE  bank[t].at < cursor - Overlap
<1> USE Ints DEF BaseInv, Base
<1>1. row[t].date = DateOf(bank[t].at) /\ row[t].date <= DateOf(cursor)
  BY DEF RowsSeen, Seen
<1>2. prev = cursor /\ prev # NoCursor /\ cursor <= now
  BY DEF Flush, Times, NoRows
<1>3. DateOf(cursor) <= DateOf(now)
  BY <1>2, Dates
<1>4. DateOf(cursor) \in Int /\ DateOf(now) \in Int /\ DateOf(cursor - Overlap) \in Int
  BY Dates
<1>5. DateOf(bank[t].at) < DateOf(cursor - Overlap)
  BY <1>1, <1>2, <1>3, <1>4 DEF CleanDays
<1> QED
  BY <1>4, <1>5, Dates

LEMMA HoldsStep == BaseInv /\ HoldsKept /\ [Next]_vars => HoldsKept'
<1> SUFFICES ASSUME BaseInv, HoldsKept, [Next]_vars PROVE HoldsKept'
  OBVIOUS
<1> USE Ints DEF BaseInv, Base
<1>1. CASE BankMoves
  <2> SUFFICES ASSUME NEW t \in Txn, bank'[t].state = "pending", t \in deleted,
                      byDay \/ bank'[t].at >= cursor - Overlap
               PROVE  byUser[t] = "deleted"
    BY <1>1 DEF BankMoves, dbVars, HoldsKept
  <2>1. bank[t].state # "none"
    BY DEF TypeOK, RowsSeen, Seen
  <2>2. bank[t].state = "pending" /\ bank'[t] = bank[t]
    BY <1>1, <2>1 DEF BankMoves, Moved
  <2> QED
    BY <2>2 DEF HoldsKept
<1>2. CASE Flush
  <2> SUFFICES ASSUME NEW t \in Txn, bank[t].state = "pending", t \in deleted',
                      byDay \/ bank[t].at >= asof - Overlap
               PROVE  byUser[t] = "deleted"
    BY <1>2, Flushed DEF HoldsKept, Flush, bankVars
  <2>0. prev = cursor /\ cursor <= asof
    BY <1>2 DEF Flush, Times
  <2>1. t \notin StaleHolds
    <3>1. SUFFICES ASSUME t \in StaleHolds PROVE FALSE
      OBVIOUS
    <3>2. /\ row[t].state = "pending" /\ row[t].date \in CleanDays
          /\ got[t].state = "none"
      BY <3>1 DEF StaleHolds, Returned
    <3>3. /\ row[t].date = DateOf(bank[t].at) /\ row[t].date <= DateOf(cursor)
          /\ byDay \/ bank[t].at < cursor
          /\ prev # NoCursor
      BY <2>0, <3>2 DEF RowsSeen, NoRows, Seen
    <3>4. ~Asked(bank[t].at)
      BY <1>2, <3>2, Flushed DEF AsBankSaid
    <3>5. DateOf(cursor) <= DateOf(asof) /\ DateOf(cursor) \in Int /\ DateOf(asof) \in Int
      BY <2>0, Dates
    <3>6. DateOf(prev - Overlap) <= row[t].date
      BY <3>2, <3>3 DEF CleanDays
    <3>7. CASE byDay
      BY <3>3, <3>4, <3>5, <3>6, <3>7, Dates DEF Asked, FetchFrom
    <3>8. CASE ~byDay
      BY <2>0, <3>3, <3>4, <3>8 DEF Asked, FetchFrom
    <3> QED
      BY <3>7, <3>8
  <2>2. t \in deleted
    BY <1>2, <2>1, Flushed
  <2> QED
    BY <2>0, <2>2 DEF HoldsKept
<1>3. ASSUME NEW t \in Txn, DeleteTransaction(t) \/ RestoreTransaction(t)
      PROVE  HoldsKept'
  BY <1>3 DEF DeleteTransaction, RestoreTransaction, HoldsKept, bankVars, TypeOK
<1>4. CASE UNCHANGED <<bank, deleted, cursor, byDay, byUser>>
  BY <1>4 DEF HoldsKept
<1> QED
  BY <1>1, <1>2, <1>3, <1>4, BankActions DEF Next, Tick, BeginSync, FetchAccount,
     SyncFails, SetExcluded, vars, bankVars, dbVars

\* A hold that still exists is not taken for a stale one while a sync would ask for
\* it, and never by a provider asked for whole days, whatever is the overlap and
\* however long the fetch and the flush take.
THEOREM HoldsAreKept == Spec => []HoldsKept
<1>1. Init => HoldsKept
  BY DEF Init, HoldsKept
<1> QED
  BY BaseInvariance, HoldsStep, <1>1, PTL DEF Spec

LEMMA MissedStep == BaseInv /\ NothingMissed /\ [Next]_vars => NothingMissed'
<1> SUFFICES ASSUME BaseInv, NothingMissed, [Next]_vars PROVE NothingMissed'
  OBVIOUS
<1> USE Ints DEF BaseInv, Base
<1>1. CASE BankMoves
  <2> SUFFICES ASSUME NEW t \in Txn, bank'[t].state = "posted",
                      changed'[t] - bank'[t].at <= Overlap, changed'[t] < cursor,
                      bank'[t].at >= since, AccountOf[t] \in known, t \notin passed
               PROVE  row[t] = Told(bank'[t]) /\ (t \in deleted => byUser[t] = "deleted")
    BY <1>1 DEF BankMoves, dbVars, NothingMissed, InTime, Told
  <2>1. bank'[t] = bank[t] /\ changed'[t] = changed[t]
    BY <1>1 DEF BankMoves, Moved, Times
  <2> QED
    BY <2>1 DEF NothingMissed, InTime
<1>2. CASE Flush
  <2> SUFFICES ASSUME NEW t \in Txn, bank[t].state = "posted",
                      changed[t] - bank[t].at <= Overlap, changed[t] < asof,
                      bank[t].at >= since', AccountOf[t] \in known', t \notin passed'
               PROVE  row'[t] = Told(bank[t]) /\ (t \in deleted' => byUser[t] = "deleted")
    BY <1>2, Flushed DEF NothingMissed, InTime, Told
  <2>1. CASE Asked(bank[t].at)
    <3>1. got[t] = Told(bank[t]) /\ t \in Returned
      BY <1>2, <2>1, Flushed, ToldIsEntry DEF AsBankSaid, Returned, TypeOK
    <3>2. AccountOf[t] \notin skip
      BY <1>2, <3>1 DEF Flush
    <3>3. t \in Written
      BY <1>2, <3>1, <3>2 DEF Written, Flush
    <3> QED
      BY <1>2, <3>1, <3>3, Flushed
  <2>2. CASE ~Asked(bank[t].at)
    <3>1. changed[t] < cursor /\ cursor # NoCursor /\ bank[t].at >= since
      BY <1>2, <2>2, NotAsked
    <3>2. got[t] = Empty
      BY <1>2, <2>2, Flushed DEF AsBankSaid
    <3>3. t \notin Written
      BY <3>2, EmptyIsEntry DEF Written, Returned
    <3>4. AccountOf[t] \in known
      BY <1>2, <3>1 DEF Flush, Grown
    <3>5. t \notin passed
      BY <1>2, <3>3 DEF Flush
    <3>6. row[t] = Told(bank[t]) /\ (t \in deleted => byUser[t] = "deleted")
      BY <3>1, <3>4, <3>5 DEF NothingMissed, InTime
    <3>7. row[t].state = "posted"
      BY <3>6, ToldIsEntry DEF TypeOK
    <3> QED
      BY <1>2, <3>3, <3>6, <3>7, Flushed DEF StaleHolds
  <2> QED
    BY <2>1, <2>2
<1>3. ASSUME NEW t \in Txn, DeleteTransaction(t) \/ RestoreTransaction(t)
      PROVE  NothingMissed'
  BY <1>3 DEF DeleteTransaction, RestoreTransaction, NothingMissed, InTime, Told, bankVars,
     TypeOK
<1>4. CASE UNCHANGED <<bank, changed, row, deleted, known, cursor, since, passed, byUser>>
  BY <1>4 DEF NothingMissed, InTime, Told
<1> QED
  BY <1>1, <1>2, <1>3, <1>4, BankActions DEF Next, Tick, BeginSync, FetchAccount,
     SyncFails, SetExcluded, vars, bankVars, dbVars

\* What the bank settled and reported in time has a row that says so, for any number
\* of failing syncs and any delay between clock, fetch and commit, asked for by days
\* or by instants.
THEOREM NothingIsMissed == Spec => []NothingMissed
<1>1. Init => NothingMissed
  BY EmptyIsEntry DEF Init, NothingMissed
<1> QED
  BY BaseInvariance, MissedStep, <1>1, PTL DEF Spec

LEMMA GhostStep == BaseInv /\ NoGhostHolds /\ [Next]_vars => NoGhostHolds'
<1> SUFFICES ASSUME BaseInv, NoGhostHolds, [Next]_vars PROVE NoGhostHolds'
  OBVIOUS
<1> USE Ints DEF BaseInv, Base
<1>1. CASE BankMoves
  <2> SUFFICES ASSUME NEW t \in Txn, bank'[t].state = "gone",
                      changed'[t] - bank'[t].at <= Overlap, changed'[t] < cursor,
                      row[t].state = "pending", t \notin deleted
               PROVE  byUser[t] = "restored"
    BY <1>1 DEF BankMoves, dbVars, NoGhostHolds, InTime
  <2>1. bank'[t] = bank[t] /\ changed'[t] = changed[t]
    BY <1>1 DEF BankMoves, Moved, Times
  <2> QED
    BY <2>1 DEF NoGhostHolds, InTime
<1>2. CASE Flush
  <2> SUFFICES ASSUME NEW t \in Txn, bank[t].state = "gone",
                      changed[t] - bank[t].at <= Overlap, changed[t] < asof,
                      row'[t].state = "pending", t \notin deleted'
               PROVE  byUser[t] = "restored"
    BY <1>2, Flushed DEF NoGhostHolds, InTime
  <2>1. t \notin Written /\ t \notin Returned
    BY <1>2, Flushed, EmptyIsEntry DEF AsBankSaid, Written, Returned
  <2>2. row[t].state = "pending" /\ t \notin deleted /\ t \notin StaleHolds
    BY <1>2, <2>1, Flushed DEF Flush
  <2>3. row[t].date \notin CleanDays
    BY <2>1, <2>2 DEF StaleHolds
  <2>4. bank[t].at < cursor - Overlap
    BY <1>2, <2>2, <2>3, NotCleaned
  <2>5. changed[t] < cursor
    BY <2>4
  <2> QED
    BY <2>2, <2>5 DEF NoGhostHolds, InTime
<1>3. ASSUME NEW t \in Txn, DeleteTransaction(t) \/ RestoreTransaction(t)
      PROVE  NoGhostHolds'
  BY <1>3 DEF DeleteTransaction, RestoreTransaction, NoGhostHolds, InTime, bankVars, TypeOK
<1>4. CASE UNCHANGED <<bank, changed, row, deleted, cursor, byUser>>
  BY <1>4 DEF NoGhostHolds, InTime
<1> QED
  BY <1>1, <1>2, <1>3, <1>4, BankActions DEF Next, Tick, BeginSync, FetchAccount,
     SyncFails, SetExcluded, vars, bankVars, dbVars

\* A hold the bank dropped in time has no live row, unless a user brought it back.
THEOREM NoHoldIsAGhost == Spec => []NoGhostHolds
<1>1. Init => NoGhostHolds
  BY EmptyIsEntry DEF Init, NoGhostHolds
<1> QED
  BY BaseInvariance, GhostStep, <1>1, PTL DEF Spec

\* CountedOnce whether or not the row of the settled transaction is deleted.
OnceInv ==
  \A q \in Txn : LET p == replaces[q] IN
    /\ p # NoTxn
    /\ changed[p] - bank[p].at <= Overlap
    /\ row[q].state = "posted"
    /\ row[p].state = "pending" /\ p \notin deleted
    => byUser[p] = "restored"

LEMMA OnceStep == BaseInv /\ NoGhostHolds /\ OnceInv /\ [Next]_vars => OnceInv'
<1> SUFFICES ASSUME BaseInv, NoGhostHolds, OnceInv, [Next]_vars PROVE OnceInv'
  OBVIOUS
<1> USE Ints DEF BaseInv, Base
<1>1. CASE BankMoves
  <2> SUFFICES ASSUME NEW q \in Txn, NEW p \in Txn, replaces'[q] = p,
                      changed'[p] - bank'[p].at <= Overlap, row[q].state = "posted",
                      row[p].state = "pending", p \notin deleted
               PROVE  byUser[p] = "restored"
    BY <1>1, TypeStep DEF BankMoves, dbVars, OnceInv, TypeOK
  <2>1. bank[q].state = "posted"
    BY DEF RowsSeen, Seen
  <2>2. replaces[q] = p
    BY <1>1, <2>1 DEF BankMoves, Replaced
  <2>3. bank[p].state = "gone"
    BY <2>2, PollAssumption DEF Heirs, Heir
  <2>4. bank'[p] = bank[p] /\ changed'[p] = changed[p]
    BY <1>1, <2>3 DEF BankMoves, Moved
  <2> QED
    BY <2>2, <2>4, PollAssumption DEF OnceInv
<1>2. CASE Flush
  <2> SUFFICES ASSUME NEW q \in Txn, NEW p \in Txn, replaces[q] = p,
                      changed[p] - bank[p].at <= Overlap, row'[q].state = "posted",
                      row'[p].state = "pending", p \notin deleted'
               PROVE  byUser[p] = "restored"
    BY <1>2, Flushed DEF OnceInv, TypeOK
  <2>1. Heir(q, p) /\ syncing
    BY <1>2, PollAssumption DEF Heirs, Flush
  <2>2. got[q].state # "none" \/ row[q].state # "none"
    BY <1>2, Flushed
  <2>3. got[p].state = "none"
    BY <2>1, <2>2 DEF Heir
  <2>4. p \notin Written /\ p \notin Returned
    BY <2>3 DEF Written, Returned
  <2>5. row[p].state = "pending" /\ p \notin deleted /\ p \notin StaleHolds
    BY <1>2, <2>4, Flushed DEF Flush
  <2>6. row[p].date \notin CleanDays
    BY <2>4, <2>5 DEF StaleHolds
  <2>7. bank[p].at < cursor - Overlap
    BY <1>2, <2>1, <2>5, <2>6, NotCleaned DEF Heir
  <2>8. changed[p] < cursor
    BY <2>7
  <2> QED
    BY <2>1, <2>5, <2>8 DEF NoGhostHolds, InTime, Heir
<1>3. ASSUME NEW t \in Txn, DeleteTransaction(t) \/ RestoreTransaction(t)
      PROVE  OnceInv'
  BY <1>3 DEF DeleteTransaction, RestoreTransaction, OnceInv, bankVars, TypeOK
<1>4. CASE UNCHANGED <<bank, changed, replaces, row, deleted, byUser>>
  BY <1>4 DEF OnceInv
<1> QED
  BY <1>1, <1>2, <1>3, <1>4, BankActions DEF Next, Tick, BeginSync, FetchAccount,
     SyncFails, SetExcluded, vars, bankVars, dbVars

\* A settled transaction and the hold it replaced are never both live, if the bank
\* dropped the hold within the overlap of its date: money is counted once.
THEOREM MoneyIsCountedOnce == Spec => []CountedOnce
<1>1. Init => OnceInv
  BY EmptyIsEntry DEF Init, OnceInv
<1>2. OnceInv => CountedOnce
  BY DEF OnceInv, CountedOnce
<1> QED
  BY BaseInvariance, NoHoldIsAGhost, OnceStep, <1>1, <1>2, PTL DEF Spec
=============================================================================

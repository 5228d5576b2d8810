-------------------------- MODULE SyncEngineProofs --------------------------
(***************************************************************************)
(* Proofs about SyncEngine for every set of connections, calls and         *)
(* transactions and every bound: type correctness and the inductive        *)
(* invariant SyncInv, which contains the safety property of the engine,    *)
(* LedgerMatchesCursor; from it, the action properties of the cursor and   *)
(* of the counter, and that the engine implements LedgerMirror.            *)
(***************************************************************************)
EXTENDS SyncEngine, TLAPS

\* The inductive invariant: neither half is inductive without the other.
IndInv == TypeOK /\ SyncInv

-----------------------------------------------------------------------------
(* What the helpers return                                                 *)

\* The provider's state at a published index is a snapshot.
LEMMA StateAtType ==
  ASSUME NEW c \in Conn, feed \in [Conn -> Seq(Snapshot)],
         NEW k \in 0 .. Len(feed[c])
  PROVE  StateAt(c, k) \in Snapshot
<1>1. CASE k = 0
  BY <1>1 DEF StateAt, Nothing, Snapshot
<1>2. CASE k # 0
  <2>1. feed[c] \in Seq(Snapshot) /\ k \in 1 .. Len(feed[c])
    BY <1>2
  <2> QED
    BY <2>1, <1>2 DEF StateAt
<1> QED
  BY <1>1, <1>2

\* A page leaves well-formed buffers.
LEMMA AddPageType ==
  ASSUME TypeOK, NEW r \in Call, conn[r] \in Conn, NEW S,
         NEW k \in 0 .. Len(feed[conn[r]])
  PROVE  AddPage(r, S, k) \in Buffer
<1>1. StateAt(conn[r], k) \in Snapshot
  BY StateAtType DEF TypeOK
<1>2. buf[r] \in Buffer
  BY DEF TypeOK
<1> QED
  BY <1>1, <1>2 DEF AddPage, Buffer, Snapshot

\* Writing the buffers over the ledger leaves rows, never buffer marks.
LEMMA OverlayType ==
  ASSUME TypeOK, NEW r \in Call, conn[r] \in Conn, NEW S
  PROVE  Overlay(r, S) \in Snapshot
<1>1. buf[r] \in Buffer /\ ledger[conn[r]] \in Snapshot
  BY DEF TypeOK
<1> QED
  BY <1>1 DEF Overlay, Buffer, Snapshot

-----------------------------------------------------------------------------
(* Type correctness                                                        *)

\* The server starts with no call, no lock and nothing imported.
LEMMA InitInv == Init => IndInv
<1> SUFFICES ASSUME Init PROVE IndInv
  OBVIOUS
<1> USE ConstantsAssumption DEF Init
<1>1. Nothing \in Snapshot /\ EmptyBuf \in Buffer
  BY DEF Nothing, Snapshot, EmptyBuf, Buffer
<1>2. TypeOK
  BY <1>1 DEF TypeOK, Status, LogState, Stage
<1>3. LockInv /\ OutcomeInv /\ BufferInv /\ LogInv
  BY DEF LockInv, OutcomeInv, BufferInv, LogInv
<1>4. CursorInv /\ LedgerMatchesCursor
  BY DEF CursorInv, LedgerMatchesCursor, StateAt
<1> QED
  BY <1>2, <1>3, <1>4 DEF IndInv, SyncInv

\* A call that left "idle" works for a connection and holds its mutex.
LEMMA RunningCall ==
  ASSUME TypeOK, LockInv, NEW r \in Call, pc[r] # "idle"
  PROVE  conn[r] \in Conn /\ lock[conn[r]] = r
BY DEF LockInv

\* No two calls work for the same connection.
LEMMA MutualExclusion ==
  ASSUME TypeOK, LockInv, NEW r \in Call, NEW q \in Call,
         pc[r] # "idle", pc[q] # "idle", conn[r] = conn[q]
  PROVE  r = q
BY DEF LockInv

\* Returning keeps the types of what it resets.
LEMMA ReturnType ==
  ASSUME TypeOK, NEW r \in Call, Return(r)
  PROVE  /\ lock' \in [Conn -> Call \cup {NoCall}]
         /\ pc' \in [Call -> Stage]
         /\ conn' \in [Call -> Conn \cup {NoConn}]
         /\ deadline' \in [Call -> {"none", "running", "passed"}]
         /\ prev' \in [Call -> Nat]
         /\ target' \in [Call -> Nat \cup {NoPage}]
         /\ buf' \in [Call -> Buffer]
<1>1. EmptyBuf \in Buffer
  BY DEF EmptyBuf, Buffer
<1> QED
  BY <1>1 DEF TypeOK, Return, Goto, Stage

\* What the provider has published is a sequence of snapshots.
LEMMA HeadType ==
  ASSUME TypeOK, NEW c \in Conn
  PROVE  Len(feed[c]) \in Nat /\ Len(feed[c]) \in 0 .. Len(feed[c])
<1>1. feed[c] \in Seq(Snapshot)
  BY DEF TypeOK
<1> QED
  BY <1>1

\* Every step keeps the types; a page or a batch needs the call to have a
\* connection and a target, which is what LockInv and BufferInv are cited for.
LEMMA TypeStep == TypeOK /\ LockInv /\ BufferInv /\ [Next]_vars => TypeOK'
<1> SUFFICES ASSUME TypeOK, LockInv, BufferInv, [Next]_vars PROVE TypeOK'
  OBVIOUS
<1> USE ConstantsAssumption
<1>1. CASE \E r \in Call, c \in Conn, d \in {"none", "running"} : StartSync(r, c, d)
  BY <1>1 DEF StartSync, TypeOK, dbVars, procVars, Goto, Stage
<1>2. ASSUME NEW r \in Call, SyncStep(r) PROVE TypeOK'
  <2>0. conn[r] \in Conn \/ pc[r] = "idle"
    BY RunningCall
  <2>1. CASE CreateSyncLog(r)
    BY <2>0, <2>1 DEF CreateSyncLog, TypeOK, procVars, Goto, Stage, LogState
  <2>2. CASE CreateSyncLogFails(r)
    BY <2>2, ReturnType DEF CreateSyncLogFails, TypeOK, dbVars, procVars
  <2>3. CASE LoadConnection(r)
    BY <2>0, <2>3 DEF LoadConnection, TypeOK, dbVars, procVars, Goto, Stage
  <2>4. CASE LoadConnectionFails(r)
    BY <2>4 DEF LoadConnectionFails, TypeOK, dbVars, procVars, Goto, Stage
  <2>5. CASE FetchPage(r)
    <3>1. conn[r] \in Conn
      BY <2>0, <2>5 DEF FetchPage
    <3>2. Len(feed[conn[r]]) \in Nat
      BY <3>1, HeadType
    <3>3. \A S : AddPage(r, S, Len(feed[conn[r]])) \in Buffer
      BY <3>1, AddPageType, HeadType
    <3> QED
      BY <2>5, <3>2, <3>3 DEF FetchPage, TypeOK, dbVars, procVars
  <2>6. CASE FetchLastPage(r)
    <3>1. conn[r] \in Conn
      BY <2>0, <2>6 DEF FetchLastPage
    <3>2. Len(feed[conn[r]]) \in Nat
      BY <3>1, HeadType
    <3>3. \A S : AddPage(r, S, Len(feed[conn[r]])) \in Buffer
      BY <3>1, AddPageType, HeadType
    <3> QED
      BY <2>6, <3>2, <3>3 DEF FetchLastPage, TypeOK, dbVars, procVars, Goto, Stage
  <2>7. CASE MutationDuringPagination(r)
    <3>1. EmptyBuf \in Buffer
      BY DEF EmptyBuf, Buffer
    <3> QED
      BY <2>7, <3>1 DEF MutationDuringPagination, TypeOK, dbVars, procVars
  <2>8. CASE ReauthRequired(r)
    BY <2>8 DEF ReauthRequired, TypeOK, procVars, Goto, Stage, Status
  <2>9. CASE ProviderFails(r) \/ FlushFails(r)
    BY <2>9 DEF ProviderFails, FlushFails, TypeOK, dbVars, procVars, Goto, Stage
  <2>10. CASE CommitFlush(r) \/ CommitUnacknowledged(r)
    <3>1. pc[r] = "flushing" /\ WriteBatch(r)
          /\ (Goto(r, "committed") \/ Goto(r, "failed"))
      BY <2>10 DEF CommitFlush, CommitUnacknowledged
    <3>2. conn[r] \in Conn
      BY <2>0, <3>1
    <3>3. target[r] \in Nat
      BY <3>1 DEF BufferInv, TypeOK
    <3>4. PICK S \in SUBSET Txn :
            /\ ledger' = [ledger EXCEPT ![conn[r]] = Overlay(r, S)]
            /\ missed' = [missed EXCEPT ![conn[r]] = StillMissed(r, S)]
      BY <3>1 DEF WriteBatch, Skippable
    <3>5. Overlay(r, S) \in Snapshot
      BY <3>2, OverlayType
    <3>6. StillMissed(r, S) \in SUBSET Txn
      BY <3>2 DEF StillMissed, TypeOK
    <3> QED
      BY <3>1, <3>3, <3>4, <3>5, <3>6 DEF WriteBatch, TypeOK, procVars, Goto, Stage
  <2>11. CASE MarkActive(r)
    BY <2>11 DEF MarkActive, TypeOK, procVars, Goto, Stage, Status
  <2>12. CASE UpdateSyncLog(r)
    BY <2>12 DEF UpdateSyncLog, TypeOK, procVars, Goto, Stage, LogState
  <2>13. CASE CountAndReturn(r)
    <3>1. conn[r] \in Conn
      BY <2>0, <2>13 DEF CountAndReturn
    <3>2. NextCount(r) \in 0 .. MaxFailures
      BY <3>1 DEF NextCount, TypeOK, ConstantsAssumption
    <3>3. failures' \in [Conn -> 0 .. MaxFailures]
      BY <2>13, <3>2 DEF CountAndReturn, TypeOK
    <3>4. Return(r)
      BY <2>13 DEF CountAndReturn
    <3> QED
      BY <2>13, <3>3, <3>4, ReturnType DEF CountAndReturn, TypeOK, procVars
  <2> QED
    BY <1>2, <2>1, <2>2, <2>3, <2>4, <2>5, <2>6, <2>7, <2>8, <2>9, <2>10,
       <2>11, <2>12, <2>13 DEF SyncStep
<1>3. CASE \E r \in Call : DeadlinePasses(r)
  BY <1>3 DEF DeadlinePasses, TypeOK, dbVars, procVars
<1>4. ASSUME NEW c \in Conn, ServiceStep(c) PROVE TypeOK'
  <2>1. Nothing \in Snapshot
    BY DEF Nothing, Snapshot
  <2>2. CASE DeleteConnection(c)
    BY <2>1, <2>2 DEF DeleteConnection, TypeOK, procVars, callVars, Status
  <2>3. CASE ReactivateConnection(c)
    BY <2>3 DEF ReactivateConnection, TypeOK, procVars, callVars, Status
  <2>4. CASE ConnectionErrorWebhook(c)
    <3>1. PICK s \in {"error", "pending_reauth"} :
            status' = [status EXCEPT ![c] = s]
      BY <2>4 DEF ConnectionErrorWebhook
    <3>2. status' \in [Conn -> Status]
      BY <3>1 DEF TypeOK, Status
    <3> QED
      BY <2>4, <3>2 DEF ConnectionErrorWebhook, TypeOK, procVars, callVars
  <2>5. CASE PendingExpirationWebhook(c)
    BY <2>5 DEF PendingExpirationWebhook, TypeOK, procVars, callVars, Status
  <2> QED
    BY <1>4, <2>2, <2>3, <2>4, <2>5 DEF ServiceStep
<1>5. ASSUME NEW c \in Conn, Publish(c) PROVE TypeOK'
  BY <1>5 DEF Publish, TypeOK, dbVars, procVars, callVars
<1>6. CASE Crash
  <2>1. EmptyBuf \in Buffer
    BY DEF EmptyBuf, Buffer
  <2>2. crashes' \in 0 .. MaxCrashes
    BY <1>6 DEF Crash, TypeOK, ConstantsAssumption
  <2> QED
    BY <1>6, <2>1, <2>2 DEF Crash, TypeOK, dbVars, Stage
<1>7. CASE Restart
  BY <1>7 DEF Restart, TypeOK, callVars, LogState
<1>8. CASE UNCHANGED vars
  BY <1>8 DEF vars, dbVars, procVars, callVars, TypeOK
<1> QED
  BY <1>1, <1>2, <1>3, <1>4, <1>5, <1>6, <1>7, <1>8 DEF Next

-----------------------------------------------------------------------------
(* The mutex                                                               *)

\* A step from one stage inside Sync to another keeps the mutex as it is.
LEMMA AdvanceKeepsLock ==
  ASSUME TypeOK, LockInv, NEW r \in Call, pc[r] # "idle",
         NEW s \in Stage \ {"idle"}, Goto(r, s), UNCHANGED <<lock, conn, up>>
  PROVE  LockInv'
BY DEF TypeOK, LockInv, Goto

\* A return frees the mutex of the connection the call worked for, no other.
LEMMA ReturnFreesLock ==
  ASSUME TypeOK, LockInv, NEW r \in Call, pc[r] # "idle", Return(r), UNCHANGED up
  PROVE  LockInv'
<1>1. conn[r] \in Conn /\ lock[conn[r]] = r
  BY RunningCall
<1>2. ASSUME NEW q \in Call, pc'[q] # "idle"
      PROVE  up' /\ conn'[q] \in Conn /\ lock'[conn'[q]] = q
  <2>1. q # r /\ pc[q] # "idle" /\ conn'[q] = conn[q]
    BY <1>2 DEF Return, Goto, TypeOK
  <2>2. conn[q] # conn[r]
    BY <2>1, MutualExclusion
  <2> QED
    BY <2>1, <2>2 DEF Return, LockInv, TypeOK
<1>3. ASSUME NEW c \in Conn, lock'[c] # NoCall
      PROVE  pc'[lock'[c]] # "idle" /\ conn'[lock'[c]] = c
  <2>1. c # conn[r] /\ lock'[c] = lock[c]
    BY <1>1, <1>3 DEF Return, TypeOK
  <2>2. lock[c] \in Call /\ lock[c] # r
    BY <1>3, <2>1 DEF LockInv, TypeOK
  <2> QED
    BY <1>3, <2>1, <2>2 DEF Return, Goto, LockInv, TypeOK
<1> QED
  BY <1>2, <1>3 DEF LockInv

\* Every step keeps mutexes and running calls in one-to-one correspondence.
LEMMA LockStep == TypeOK /\ LockInv /\ [Next]_vars => LockInv'
<1> SUFFICES ASSUME TypeOK, LockInv, [Next]_vars PROVE LockInv'
  OBVIOUS
<1>1. ASSUME NEW r \in Call, NEW c \in Conn, NEW d \in {"none", "running"},
             StartSync(r, c, d)
      PROVE  LockInv'
  BY <1>1, ConstantsAssumption
     DEF StartSync, LockInv, TypeOK, procVars, Goto, ConstantsAssumption
<1>2. ASSUME NEW r \in Call, SyncStep(r) PROVE LockInv'
  <2>1. CASE CreateSyncLogFails(r) \/ CountAndReturn(r)
    BY <2>1, ReturnFreesLock DEF CreateSyncLogFails, CountAndReturn, procVars
  <2>2. CASE FetchPage(r) \/ MutationDuringPagination(r)
    BY <2>2 DEF FetchPage, MutationDuringPagination, LockInv, procVars
  <2>3. CASE CreateSyncLog(r) \/ LoadConnection(r) \/ LoadConnectionFails(r)
             \/ FetchLastPage(r) \/ ReauthRequired(r) \/ ProviderFails(r)
    <3>1. /\ pc[r] # "idle"
          /\ \E s \in Stage \ {"idle"} : Goto(r, s)
          /\ UNCHANGED <<lock, conn, up>>
      BY <2>3 DEF CreateSyncLog, LoadConnection, LoadConnectionFails,
         FetchLastPage, ReauthRequired, ProviderFails, procVars, Stage
    <3> QED
      BY <3>1, AdvanceKeepsLock
  <2>4. CASE CommitFlush(r) \/ CommitUnacknowledged(r) \/ FlushFails(r)
             \/ MarkActive(r) \/ UpdateSyncLog(r)
    <3>1. /\ pc[r] # "idle"
          /\ \E s \in Stage \ {"idle"} : Goto(r, s)
          /\ UNCHANGED <<lock, conn, up>>
      BY <2>4 DEF CommitFlush, CommitUnacknowledged, FlushFails, WriteBatch,
         MarkActive, UpdateSyncLog, procVars, Stage
    <3> QED
      BY <3>1, AdvanceKeepsLock
  <2> QED
    BY <1>2, <2>1, <2>2, <2>3, <2>4 DEF SyncStep
<1>3. CASE \E r \in Call : DeadlinePasses(r)
  BY <1>3 DEF DeadlinePasses, LockInv, procVars
<1>4. ASSUME NEW c \in Conn, ServiceStep(c) \/ Publish(c) PROVE LockInv'
  <2>1. UNCHANGED <<up, lock, pc, conn>>
    BY <1>4 DEF ServiceStep, DeleteConnection, ReactivateConnection,
       ConnectionErrorWebhook, PendingExpirationWebhook, Publish, procVars, callVars
  <2> QED
    BY <2>1 DEF LockInv
<1>5. CASE Crash
  BY <1>5, ConstantsAssumption DEF Crash, LockInv, ConstantsAssumption
<1>6. CASE Restart
  BY <1>6 DEF Restart, LockInv, callVars
<1>7. CASE UNCHANGED vars
  BY <1>7 DEF vars, procVars, callVars, LockInv
<1> QED
  BY <1>1, <1>2, <1>3, <1>4, <1>5, <1>6, <1>7 DEF Next

-----------------------------------------------------------------------------
(* The data                                                                *)

\* A publication leaves every state published before in its place.
LEMMA PublishKeepsStates ==
  ASSUME TypeOK, NEW c \in Conn, Publish(c), NEW d \in Conn,
         NEW k \in 0 .. Len(feed[d])
  PROVE  k \in 0 .. Len(feed'[d]) /\ StateAt(d, k)' = StateAt(d, k)
<1>1. feed[d] \in Seq(Snapshot)
  BY DEF TypeOK
<1>2. PICK s \in Snapshot : feed' = [feed EXCEPT ![c] = Append(@, s)]
  BY DEF Publish
<1>3. feed'[d] = feed[d] \/ feed'[d] = Append(feed[d], s)
  BY <1>2 DEF TypeOK
<1>4. Len(feed'[d]) \in Nat /\ Len(feed'[d]) >= Len(feed[d])
  BY <1>1, <1>3
<1>5. ASSUME k # 0 PROVE feed'[d][k] = feed[d][k]
  <2>1. k \in 1 .. Len(feed[d])
    BY <1>1, <1>5
  <2> QED
    BY <1>1, <1>3, <2>1
<1> QED
  BY <1>1, <1>4, <1>5 DEF StateAt

\* A call pages towards one published state and drops nothing on the way.
LEMMA BufferStep ==
  TypeOK /\ LockInv /\ OutcomeInv /\ CursorInv /\ BufferInv /\ [Next]_vars => BufferInv'
<1> SUFFICES ASSUME TypeOK, LockInv, OutcomeInv, CursorInv, BufferInv, [Next]_vars
             PROVE  BufferInv'
  OBVIOUS
<1> DEFINE Good(q) ==
      /\ pc[q] \in {"idle", "locked", "logged"} => target[q] = NoPage
      /\ target[q] = NoPage => buf[q] = EmptyBuf
      /\ pc[q] = "flushing" => target[q] # NoPage /\ Undelivered(q, target[q]) = {}
      /\ pc[q] \in {"paging", "flushing"} /\ target[q] # NoPage =>
           /\ target[q] \in prev[q] .. Len(feed[conn[q]])
           /\ \A t \in Txn : buf[q][t] # NoChange =>
                /\ buf[q][t] = StateAt(conn[q], target[q])[t]
                /\ buf[q][t] # StateAt(conn[q], prev[q])[t]
<1>0. (\A q \in Call : Good(q)) /\ ((\A q \in Call : Good(q)') => BufferInv')
  BY DEF BufferInv
\* A call whose locals do not change stays good while the feed is the same.
<1>a. ASSUME NEW q \in Call, UNCHANGED feed, pc'[q] = pc[q], conn'[q] = conn[q],
             prev'[q] = prev[q], target'[q] = target[q], buf'[q] = buf[q]
      PROVE  Good(q)'
  BY <1>0, <1>a DEF Undelivered, StateAt
<1> HIDE DEF Good
\* Neither does one whose stage changes without entering or being in pagination.
<1>b. ASSUME NEW q \in Call, NEW st \in Stage \ {"paging", "flushing"},
             pc'[q] = st, target'[q] = target[q], buf'[q] = buf[q],
             st \in {"idle", "locked", "logged"} => target[q] = NoPage
      PROVE  Good(q)'
  BY <1>0, <1>b DEF Good
<1>1. ASSUME NEW r \in Call, NEW c \in Conn, NEW d \in {"none", "running"},
             StartSync(r, c, d)
      PROVE  BufferInv'
  <2>1. ASSUME NEW q \in Call, q # r PROVE Good(q)'
    BY <1>1, <2>1, <1>a DEF StartSync, TypeOK, Goto
  <2>2. Good(r)'
    BY <1>1, <1>0, <1>b DEF StartSync, TypeOK, Goto, Stage, Good
  <2> QED
    BY <1>0, <2>1, <2>2
<1>2. ASSUME NEW r \in Call, SyncStep(r) PROVE BufferInv'
  <2>0. ASSUME NEW q \in Call, q # r PROVE Good(q)'
    <3>1. UNCHANGED feed /\ pc'[q] = pc[q] /\ conn'[q] = conn[q]
          /\ prev'[q] = prev[q] /\ target'[q] = target[q] /\ buf'[q] = buf[q]
      BY <1>2, <2>0 DEF SyncStep, CreateSyncLog, CreateSyncLogFails, LoadConnection,
         LoadConnectionFails, FetchPage, FetchLastPage, MutationDuringPagination,
         ReauthRequired, ProviderFails, CommitFlush, CommitUnacknowledged,
         FlushFails, WriteBatch, MarkActive, UpdateSyncLog, CountAndReturn,
         Return, Goto, TypeOK
    <3> QED
      BY <3>1, <1>a
  <2>1. CASE CreateSyncLogFails(r) \/ CountAndReturn(r)
    <3>1. Return(r)
      BY <2>1 DEF CreateSyncLogFails, CountAndReturn
    <3>2. pc'[r] = "idle" /\ target'[r] = NoPage /\ buf'[r] = EmptyBuf
      BY <3>1 DEF Return, Goto, TypeOK
    <3>3. Good(r)'
      BY <3>2 DEF Good
    <3> QED
      BY <1>0, <2>0, <3>3
  <2>2. CASE CreateSyncLog(r) \/ LoadConnectionFails(r)
    <3>1. Good(r)'
      BY <2>2, <1>0, <1>b DEF CreateSyncLog, LoadConnectionFails, Goto, TypeOK, Stage, Good
    <3> QED
      BY <1>0, <2>0, <3>1
  <2>3. CASE LoadConnection(r)
    <3>1. Good(r)'
      BY <2>3, <1>0 DEF LoadConnection, Goto, TypeOK, Good
    <3> QED
      BY <1>0, <2>0, <3>1
  <2>4. CASE FetchPage(r) \/ FetchLastPage(r)
    <3> DEFINE head == Len(feed[conn[r]])
    <3>1. conn[r] \in Conn /\ pc[r] = "paging" /\ target[r] \in {NoPage, head}
      BY <2>4, RunningCall DEF FetchPage, FetchLastPage
    <3>2. head \in Nat /\ head \in 0 .. head
      BY <3>1, HeadType
    <3>3. PICK S \in SUBSET Undelivered(r, head) :
            /\ buf' = [buf EXCEPT ![r] = AddPage(r, S, head)]
            /\ pc'[r] = "flushing" => S = Undelivered(r, head)
      BY <2>4, <3>1 DEF FetchPage, FetchLastPage
    <3>4. pc'[r] \in {"paging", "flushing"} /\ target'[r] = head
          /\ buf'[r] = AddPage(r, S, head)
          /\ conn'[r] = conn[r] /\ prev'[r] = prev[r] /\ feed' = feed
      BY <2>4, <3>3, <3>1 DEF FetchPage, FetchLastPage, Goto, TypeOK
    <3>5. target'[r] \in prev'[r] .. Len(feed'[conn'[r]]) /\ target'[r] # NoPage
      BY <3>1, <3>2, <3>4 DEF OutcomeInv, CursorInv, TypeOK, NoPage
    <3>6. \A t \in Txn : buf[r][t] # NoChange =>
            /\ buf[r][t] = StateAt(conn[r], head)[t]
            /\ buf[r][t] # StateAt(conn[r], prev[r])[t]
      BY <3>1, <3>2, <1>0 DEF Good, EmptyBuf, NoPage
    <3>7. \A t \in Txn : AddPage(r, S, head)[t] # NoChange =>
            /\ AddPage(r, S, head)[t] = StateAt(conn[r], head)[t]
            /\ AddPage(r, S, head)[t] # StateAt(conn[r], prev[r])[t]
      BY <3>6 DEF AddPage, Undelivered
    <3>8. /\ StateAt(conn[r], target[r])' = StateAt(conn[r], head)
          /\ StateAt(conn[r], prev[r])' = StateAt(conn[r], prev[r])
      BY <3>4 DEF StateAt
    <3>9. ASSUME pc'[r] = "flushing" PROVE Undelivered(r, target[r])' = {}
      <4>1. S = Undelivered(r, head)
        BY <3>3, <3>9
      <4>2. StateAt(conn[r], head) \in Snapshot
        BY <3>1, <3>2, StateAtType DEF TypeOK
      <4>3. \A t \in S : AddPage(r, S, head)[t] # NoChange
        BY <4>1, <4>2, ConstantsAssumption
           DEF AddPage, Undelivered, Snapshot, ConstantsAssumption
      <4>4. \A t \in Txn \ S : AddPage(r, S, head)[t] # NoChange
                                \/ StateAt(conn[r], prev[r])[t] = StateAt(conn[r], head)[t]
        BY <4>1 DEF AddPage, Undelivered
      <4> QED
        BY <3>4, <3>8, <4>3, <4>4 DEF Undelivered
    <3> HIDE DEF head
    <3>10. Good(r)'
      BY <3>4, <3>5, <3>7, <3>8, <3>9 DEF Good
    <3> QED
      BY <1>0, <2>0, <3>10
  <2>5. CASE MutationDuringPagination(r)
    <3>1. pc'[r] = "paging" /\ target'[r] = NoPage /\ buf'[r] = EmptyBuf
      BY <2>5 DEF MutationDuringPagination, TypeOK
    <3>2. Good(r)'
      BY <3>1 DEF Good
    <3> QED
      BY <1>0, <2>0, <3>2
  <2>6. CASE ReauthRequired(r) \/ ProviderFails(r) \/ FlushFails(r)
    <3>1. Good(r)'
      BY <2>6, <1>b DEF ReauthRequired, ProviderFails, FlushFails, Goto, TypeOK, Stage
    <3> QED
      BY <1>0, <2>0, <3>1
  <2>7. CASE CommitFlush(r) \/ CommitUnacknowledged(r) \/ MarkActive(r)
             \/ UpdateSyncLog(r)
    <3>1. Good(r)'
      BY <2>7, <1>b DEF CommitFlush, CommitUnacknowledged, WriteBatch, MarkActive,
         UpdateSyncLog, Goto, TypeOK, Stage
    <3> QED
      BY <1>0, <2>0, <3>1
  <2> QED
    BY <1>2, <2>1, <2>2, <2>3, <2>4, <2>5, <2>6, <2>7 DEF SyncStep
<1>3. ASSUME NEW r \in Call, DeadlinePasses(r) PROVE BufferInv'
  BY <1>3, <1>0, <1>a DEF DeadlinePasses
<1>4. ASSUME NEW c \in Conn, ServiceStep(c) PROVE BufferInv'
  BY <1>4, <1>0, <1>a DEF ServiceStep, DeleteConnection, ReactivateConnection,
     ConnectionErrorWebhook, PendingExpirationWebhook, callVars
<1>5. ASSUME NEW c \in Conn, Publish(c) PROVE BufferInv'
  <2>1. UNCHANGED <<pc, conn, prev, target, buf>>
    BY <1>5 DEF Publish, callVars
  <2>2. ASSUME NEW q \in Call PROVE Good(q)'
    <3>1. CASE pc[q] \notin {"paging", "flushing"}
      BY <3>1, <2>1, <1>0 DEF Good
    <3>2. CASE target[q] = NoPage
      BY <3>2, <2>1, <1>0 DEF Good
    <3>3. CASE pc[q] \in {"paging", "flushing"} /\ target[q] # NoPage
      <4>1. conn[q] \in Conn /\ Len(feed[conn[q]]) \in Nat
        BY <3>3, RunningCall, HeadType
      <4>2. target[q] \in 0 .. Len(feed[conn[q]])
        BY <3>3, <4>1, <1>0 DEF Good, TypeOK
      <4>3. prev[q] \in 0 .. Len(feed[conn[q]])
        BY <3>3, <4>1, <1>0 DEF Good, TypeOK
      <4>4. target[q] \in prev[q] .. Len(feed'[conn[q]])
        BY <3>3, <1>5, <4>1, <4>2, PublishKeepsStates, <1>0 DEF Good, TypeOK
      <4>5. /\ StateAt(conn[q], target[q])' = StateAt(conn[q], target[q])
            /\ StateAt(conn[q], prev[q])' = StateAt(conn[q], prev[q])
        BY <1>5, <2>1, <4>1, <4>2, <4>3, PublishKeepsStates DEF StateAt
      <4> QED
        BY <2>1, <3>3, <4>4, <4>5, <1>0 DEF Good, Undelivered
    <3> QED
      BY <3>1, <3>2, <3>3
  <2> QED
    BY <1>0, <2>2
<1>6. CASE Crash
  <2>1. ASSUME NEW q \in Call PROVE Good(q)'
    BY <1>6 DEF Crash, Good
  <2> QED
    BY <1>0, <2>1
<1>7. CASE Restart \/ UNCHANGED vars
  BY <1>7, <1>0, <1>a DEF Restart, vars, callVars
<1> QED
  BY <1>1, <1>2, <1>3, <1>4, <1>5, <1>6, <1>7 DEF Next

\* Writing the batch imports exactly the state the pages led to, but for the rows
\* it skips and those skipped before and not returned since.
LEMMA BatchImports ==
  ASSUME TypeOK, SyncInv, NEW r \in Call, pc[r] = "flushing", creds[conn[r]],
         NEW S, NEW t \in Txn \ StillMissed(r, S)
  PROVE  Overlay(r, S)[t] = StateAt(conn[r], target[r])[t]
<1>1. conn[r] \in Conn
  BY RunningCall DEF SyncInv
<1>2. /\ target[r] # NoPage /\ Undelivered(r, target[r]) = {}
      /\ buf[r][t] # NoChange => buf[r][t] = StateAt(conn[r], target[r])[t]
  BY DEF SyncInv, BufferInv
<1>3. t \notin S
  BY DEF StillMissed
<1>4. CASE buf[r][t] # NoChange
  BY <1>2, <1>3, <1>4 DEF Overlay
<1>5. CASE buf[r][t] = NoChange
  <2>1. t \notin missed[conn[r]]
    BY <1>5 DEF StillMissed
  <2>2. ledger[conn[r]][t] = StateAt(conn[r], prev[r])[t]
    BY <1>1, <2>1 DEF SyncInv, OutcomeInv, LedgerMatchesCursor
  <2>3. StateAt(conn[r], prev[r])[t] = StateAt(conn[r], target[r])[t]
    BY <1>2, <1>5 DEF Undelivered
  <2> QED
    BY <1>5, <2>2, <2>3 DEF Overlay
<1> QED
  BY <1>4, <1>5

\* The connection of a call whose transaction is open, and the state it writes.
LEMMA FlushTarget ==
  ASSUME TypeOK, SyncInv, NEW r \in Call, pc[r] = "flushing"
  PROVE  /\ conn[r] \in Conn
         /\ target[r] \in cursor[conn[r]] .. Len(feed[conn[r]])
<1>1. conn[r] \in Conn
  BY RunningCall DEF SyncInv
<1>2. Len(feed[conn[r]]) \in Nat
  BY <1>1, HeadType
<1> QED
  BY <1>1, <1>2 DEF SyncInv, BufferInv, OutcomeInv, TypeOK

\* What a call will report agrees with what its transaction did.
LEMMA OutcomeStep == TypeOK /\ SyncInv /\ [Next]_vars => OutcomeInv'
<1> SUFFICES ASSUME TypeOK, SyncInv, [Next]_vars PROVE OutcomeInv'
  OBVIOUS
<1> USE DEF SyncInv
<1>1. ASSUME NEW r \in Call, NEW c \in Conn, NEW d \in {"none", "running"},
             StartSync(r, c, d)
      PROVE  OutcomeInv'
  BY <1>1 DEF StartSync, OutcomeInv, TypeOK, Goto, dbVars
<1>2. ASSUME NEW r \in Call, SyncStep(r) PROVE OutcomeInv'
  <2>1. CASE CreateSyncLogFails(r) \/ CountAndReturn(r)
    <3>1. Return(r) /\ UNCHANGED cursor
      BY <2>1 DEF CreateSyncLogFails, CountAndReturn, dbVars
    <3> QED
      BY <3>1 DEF Return, Goto, OutcomeInv, TypeOK
  <2>2. CASE CreateSyncLog(r) \/ LoadConnection(r) \/ LoadConnectionFails(r)
    BY <2>2 DEF CreateSyncLog, LoadConnection, LoadConnectionFails, Goto,
       OutcomeInv, BufferInv, TypeOK, dbVars
  <2>3. CASE FetchPage(r) \/ FetchLastPage(r) \/ MutationDuringPagination(r)
    BY <2>3 DEF FetchPage, FetchLastPage, MutationDuringPagination, Goto,
       OutcomeInv, TypeOK, dbVars
  <2>4. CASE ReauthRequired(r) \/ ProviderFails(r) \/ FlushFails(r)
    BY <2>4 DEF ReauthRequired, ProviderFails, FlushFails, Goto, OutcomeInv,
       TypeOK, dbVars
  <2>5. CASE CommitFlush(r) \/ CommitUnacknowledged(r)
    <3>1. pc[r] = "flushing" /\ WriteBatch(r)
          /\ (Goto(r, "committed") \/ Goto(r, "failed"))
      BY <2>5 DEF CommitFlush, CommitUnacknowledged
    <3>2. conn[r] \in Conn
      BY <3>1, FlushTarget
    <3>3. ASSUME NEW q \in Call, q # r, pc[q] # "idle"
          PROVE  conn[q] # conn[r]
      BY <3>1, <3>3, MutualExclusion
    <3> QED
      BY <3>1, <3>2, <3>3 DEF WriteBatch, Goto, OutcomeInv, TypeOK
  <2>6. CASE MarkActive(r) \/ UpdateSyncLog(r)
    BY <2>6 DEF MarkActive, UpdateSyncLog, Goto, OutcomeInv, TypeOK
  <2> QED
    BY <1>2, <2>1, <2>2, <2>3, <2>4, <2>5, <2>6 DEF SyncStep
<1>3. CASE \E r \in Call : DeadlinePasses(r)
  BY <1>3 DEF DeadlinePasses, OutcomeInv, dbVars
<1>4. ASSUME NEW c \in Conn, ServiceStep(c) \/ Publish(c) PROVE OutcomeInv'
  BY <1>4 DEF ServiceStep, DeleteConnection, ReactivateConnection,
     ConnectionErrorWebhook, PendingExpirationWebhook, Publish, OutcomeInv,
     dbVars, callVars
<1>5. CASE Crash
  BY <1>5 DEF Crash, OutcomeInv
<1>6. CASE Restart \/ UNCHANGED vars
  BY <1>6 DEF Restart, vars, dbVars, callVars, OutcomeInv
<1> QED
  BY <1>1, <1>2, <1>3, <1>4, <1>5, <1>6 DEF Next

\* While a call holds the mutex of a connection, the newest log row is its own.
LEMMA LogStep == TypeOK /\ SyncInv /\ [Next]_vars => LogInv'
<1> SUFFICES ASSUME TypeOK, SyncInv, [Next]_vars PROVE LogInv'
  OBVIOUS
<1> USE DEF SyncInv
<1>1. ASSUME NEW r \in Call, NEW c \in Conn, NEW d \in {"none", "running"},
             StartSync(r, c, d)
      PROVE  LogInv'
  BY <1>1 DEF StartSync, LogInv, TypeOK, Goto, dbVars
<1>2. ASSUME NEW r \in Call, SyncStep(r) PROVE LogInv'
  <2>1. CASE CreateSyncLogFails(r) \/ CountAndReturn(r)
    <3>1. Return(r) /\ UNCHANGED lastLog
      BY <2>1 DEF CreateSyncLogFails, CountAndReturn, dbVars
    <3> QED
      BY <3>1 DEF Return, Goto, LogInv, TypeOK
  <2>2. CASE CreateSyncLog(r) \/ UpdateSyncLog(r)
    <3>1. pc[r] # "idle" /\ conn[r] \in Conn
      BY <2>2, RunningCall DEF CreateSyncLog, UpdateSyncLog
    <3>2. ASSUME NEW q \in Call, q # r, pc[q] # "idle"
          PROVE  conn[q] # conn[r]
      BY <3>1, <3>2, MutualExclusion
    <3>3. CASE CreateSyncLog(r)
      BY <3>1, <3>2, <3>3 DEF CreateSyncLog, Goto, LogInv, TypeOK
    <3>4. CASE UpdateSyncLog(r)
      <4>1. PICK o \in {"in_progress", IF pc[r] = "marked" THEN "success" ELSE "error"} :
              lastLog' = [lastLog EXCEPT ![conn[r]] = o]
        BY <3>1, <3>4 DEF UpdateSyncLog, LogInv, TypeOK
      <4>2. /\ pc' = [pc EXCEPT ![r] = IF pc[r] = "marked" THEN "closed_ok" ELSE "closed_err"]
            /\ UNCHANGED conn
        BY <3>4 DEF UpdateSyncLog, Goto
      <4> QED
        BY <3>1, <3>2, <4>1, <4>2 DEF LogInv, TypeOK
    <3> QED
      BY <2>2, <3>3, <3>4
  <2>3. CASE LoadConnection(r) \/ LoadConnectionFails(r) \/ FetchPage(r)
             \/ FetchLastPage(r) \/ MutationDuringPagination(r)
    BY <2>3 DEF LoadConnection, LoadConnectionFails, FetchPage, FetchLastPage,
       MutationDuringPagination, Goto, LogInv, TypeOK, dbVars
  <2>4. CASE ReauthRequired(r) \/ ProviderFails(r) \/ FlushFails(r)
             \/ CommitFlush(r) \/ CommitUnacknowledged(r) \/ MarkActive(r)
    BY <2>4 DEF ReauthRequired, ProviderFails, FlushFails, CommitFlush,
       CommitUnacknowledged, WriteBatch, MarkActive, Goto, LogInv, TypeOK, dbVars
  <2> QED
    BY <1>2, <2>1, <2>2, <2>3, <2>4 DEF SyncStep
<1>3. CASE \E r \in Call : DeadlinePasses(r)
  BY <1>3 DEF DeadlinePasses, LogInv, dbVars
<1>4. ASSUME NEW c \in Conn, ServiceStep(c) \/ Publish(c) PROVE LogInv'
  BY <1>4 DEF ServiceStep, DeleteConnection, ReactivateConnection,
     ConnectionErrorWebhook, PendingExpirationWebhook, Publish, LogInv,
     dbVars, callVars
<1>5. CASE Crash
  BY <1>5 DEF Crash, LogInv
<1>6. CASE Restart
  <2>1. \A r \in Call : pc[r] = "idle"
    BY <1>6 DEF Restart, LockInv, TypeOK
  <2> QED
    BY <1>6, <2>1 DEF Restart, LogInv, callVars
<1>7. CASE UNCHANGED vars
  BY <1>7 DEF vars, dbVars, callVars, LogInv
<1> QED
  BY <1>1, <1>2, <1>3, <1>4, <1>5, <1>6, <1>7 DEF Next

\* Only a transaction that takes effect moves the cursor or the rows of a
\* connection that stays linked.
LEMMA QuietSteps ==
  ASSUME TypeOK, [Next]_vars,
         ~ \E r \in Call : CommitFlush(r) \/ CommitUnacknowledged(r),
         ~ \E c \in Conn : DeleteConnection(c) \/ Publish(c)
  PROVE  UNCHANGED <<feed, cursor, ledger, missed, creds>>
<1>1. CASE \E r \in Call, c \in Conn, d \in {"none", "running"} : StartSync(r, c, d)
  BY <1>1 DEF StartSync, dbVars
<1>2. ASSUME NEW r \in Call, SyncStep(r)
      PROVE  UNCHANGED <<feed, cursor, ledger, missed, creds>>
  BY <1>2 DEF SyncStep, CreateSyncLog, CreateSyncLogFails, LoadConnection,
     LoadConnectionFails, FetchPage, FetchLastPage, MutationDuringPagination,
     ReauthRequired, ProviderFails, FlushFails, MarkActive, UpdateSyncLog,
     CountAndReturn, dbVars
<1>3. CASE \E r \in Call : DeadlinePasses(r)
  BY <1>3 DEF DeadlinePasses, dbVars
<1>4. ASSUME NEW c \in Conn, ServiceStep(c)
      PROVE  UNCHANGED <<feed, cursor, ledger, missed, creds>>
  BY <1>4 DEF ServiceStep, ReactivateConnection, ConnectionErrorWebhook,
     PendingExpirationWebhook
<1>5. CASE Crash \/ Restart \/ UNCHANGED vars
  BY <1>5 DEF Crash, Restart, vars, dbVars
<1> QED
  BY <1>1, <1>2, <1>3, <1>4, <1>5 DEF Next

\* The cursor names a published state, and the ledger of a linked connection
\* is that state but for the rows missed.
LEMMA LedgerStep ==
  TypeOK /\ SyncInv /\ [Next]_vars => CursorInv' /\ LedgerMatchesCursor'
<1> SUFFICES ASSUME TypeOK, SyncInv, [Next]_vars
             PROVE  CursorInv' /\ LedgerMatchesCursor'
  OBVIOUS
<1>1. ASSUME NEW r \in Call, CommitFlush(r) \/ CommitUnacknowledged(r)
      PROVE  CursorInv' /\ LedgerMatchesCursor'
  <2>1. pc[r] = "flushing" /\ WriteBatch(r)
    BY <1>1 DEF CommitFlush, CommitUnacknowledged
  <2>2. conn[r] \in Conn /\ target[r] \in 0 .. Len(feed[conn[r]])
    BY <2>1, FlushTarget DEF TypeOK
  <2>3. PICK S \in SUBSET Skippable(r) :
          /\ cursor' = [cursor EXCEPT ![conn[r]] = target[r]]
          /\ ledger' = [ledger EXCEPT ![conn[r]] = Overlay(r, S)]
          /\ missed' = [missed EXCEPT ![conn[r]] = StillMissed(r, S)]
          /\ UNCHANGED <<feed, creds>>
    BY <2>1 DEF WriteBatch
  <2>4. creds[conn[r]] => \A t \in Txn \ StillMissed(r, S) :
                             Overlay(r, S)[t] = StateAt(conn[r], target[r])[t]
    BY <2>1, BatchImports
  <2>5. CursorInv'
    BY <2>2, <2>3 DEF CursorInv, SyncInv, TypeOK
  <2>6. ASSUME NEW c \in Conn, creds'[c], NEW t \in Txn \ missed'[c]
        PROVE  ledger'[c][t] = StateAt(c, cursor[c])'[t]
    <3>1. CASE c = conn[r]
      <4>1. /\ ledger'[c] = Overlay(r, S) /\ missed'[c] = StillMissed(r, S)
            /\ StateAt(c, cursor[c])' = StateAt(c, target[r])
        BY <2>3, <3>1 DEF TypeOK, StateAt
      <4> QED
        BY <2>3, <2>4, <2>6, <3>1, <4>1
    <3>2. CASE c # conn[r]
      BY <2>3, <2>6, <3>2 DEF LedgerMatchesCursor, SyncInv, StateAt, TypeOK
    <3> QED
      BY <3>1, <3>2
  <2> QED
    BY <2>5, <2>6 DEF LedgerMatchesCursor
<1>2. ASSUME NEW c \in Conn, DeleteConnection(c)
      PROVE  CursorInv' /\ LedgerMatchesCursor'
  BY <1>2 DEF DeleteConnection, CursorInv, LedgerMatchesCursor, SyncInv,
     StateAt, TypeOK
<1>3. ASSUME NEW c \in Conn, Publish(c) PROVE CursorInv' /\ LedgerMatchesCursor'
  <2>1. \A d \in Conn : cursor[d] \in 0 .. Len(feed'[d])
                        /\ StateAt(d, cursor[d])' = StateAt(d, cursor[d])
    BY <1>3, PublishKeepsStates DEF SyncInv, CursorInv, Publish, dbVars, StateAt
  <2> QED
    BY <1>3, <2>1 DEF Publish, dbVars, CursorInv, LedgerMatchesCursor, SyncInv
<1>4. CASE UNCHANGED <<feed, cursor, ledger, missed, creds>>
  BY <1>4 DEF CursorInv, LedgerMatchesCursor, SyncInv, StateAt
<1> QED
  BY <1>1, <1>2, <1>3, <1>4, QuietSteps

-----------------------------------------------------------------------------
(* The theorems                                                            *)

\* The combined invariant is inductive.
LEMMA Inductive == IndInv /\ [Next]_vars => IndInv'
BY TypeStep, LockStep, BufferStep, OutcomeStep, LogStep, LedgerStep
   DEF IndInv, SyncInv

\* Every reachable state satisfies it.
THEOREM Invariance == Spec => []IndInv
<1>1. Init => IndInv
  BY InitInv
<1>2. IndInv /\ [Next]_vars => IndInv'
  BY Inductive
<1> QED
  BY <1>1, <1>2, PTL DEF Spec

\* The variables of Engine.Sync and of the rows it writes keep their types.
THEOREM TypeCorrect == Spec => []TypeOK
BY Invariance, PTL DEF IndInv

\* For any number of calls, connections, crashes and publications: mutexes,
\* buffers, cursors and rows fit together as SyncInv says.
THEOREM SyncInvariant == Spec => []SyncInv
BY Invariance, PTL DEF IndInv

\* No import is lost, doubled or half applied: whatever happened, the live rows of
\* a linked connection are the state its cursor names, but for those skipped since
\* their last change because no query for their account answered.
THEOREM LedgerIsCursorState == Spec => []LedgerMatchesCursor
BY SyncInvariant, PTL DEF SyncInv

\* The cursor only moves to a state published no earlier.
LEMMA CursorStep ==
  ASSUME TypeOK, SyncInv, [Next]_vars
  PROVE  \A c \in Conn : cursor'[c] >= cursor[c]
<1>1. ASSUME NEW r \in Call, CommitFlush(r) \/ CommitUnacknowledged(r)
      PROVE  \A c \in Conn : cursor'[c] >= cursor[c]
  <2>1. pc[r] = "flushing" /\ cursor' = [cursor EXCEPT ![conn[r]] = target[r]]
    BY <1>1 DEF CommitFlush, CommitUnacknowledged, WriteBatch
  <2>2. conn[r] \in Conn /\ target[r] \in cursor[conn[r]] .. Len(feed[conn[r]])
    BY <2>1, FlushTarget
  <2> QED
    BY <2>1, <2>2 DEF TypeOK
<1>2. CASE \E c \in Conn : DeleteConnection(c) \/ Publish(c)
  BY <1>2 DEF DeleteConnection, Publish, dbVars, TypeOK
<1>3. CASE UNCHANGED cursor
  BY <1>3 DEF TypeOK
<1> QED
  BY <1>1, <1>2, <1>3, QuietSteps

\* No call ever moves a connection back to changes it has imported.
THEOREM CursorMonotone == Spec => CursorNeverRegresses
<1>1. TypeOK /\ SyncInv /\ [Next]_vars => [\A c \in Conn : cursor'[c] >= cursor[c]]_cursor
  BY CursorStep
<1> QED
  BY <1>1, Invariance, PTL DEF Spec, IndInv, CursorNeverRegresses

\* The counter is written once per call, after the call's log row.
LEMMA CounterStep ==
  ASSUME TypeOK, SyncInv, [Next]_vars
  PROVE  \A c \in Conn : /\ failures'[c] < failures[c] => lastLog[c] # "error"
                         /\ failures'[c] > failures[c] => lastLog[c] # "success"
<1>1. ASSUME NEW r \in Call, CountAndReturn(r)
      PROVE  \A c \in Conn : /\ failures'[c] < failures[c] => lastLog[c] # "error"
                             /\ failures'[c] > failures[c] => lastLog[c] # "success"
  <2>1. conn[r] \in Conn
    BY <1>1, RunningCall DEF CountAndReturn, SyncInv
  <2>0. failures[conn[r]] \in 0 .. MaxFailures /\ MaxFailures \in Nat
    BY <2>1, ConstantsAssumption DEF TypeOK, ConstantsAssumption
  <2>2. pc[r] = "closed_ok" => lastLog[conn[r]] # "error" /\ NextCount(r) <= failures[conn[r]]
    BY <2>0 DEF SyncInv, LogInv, NextCount
  <2>3. pc[r] = "closed_err" => lastLog[conn[r]] # "success" /\ NextCount(r) >= failures[conn[r]]
    BY <2>0 DEF SyncInv, LogInv, NextCount
  <2>4. /\ pc[r] \in {"closed_ok", "closed_err"}
        /\ failures' = [failures EXCEPT ![conn[r]] = NextCount(r)] \/ failures' = failures
    BY <1>1 DEF CountAndReturn
  <2>5. NextCount(r) \in Nat
    BY <2>0 DEF NextCount
  <2>6. \A c \in Conn : failures[c] \in Nat /\ (c # conn[r] => failures'[c] = failures[c])
    BY <2>0, <2>4 DEF TypeOK
  <2>7. failures'[conn[r]] \in {NextCount(r), failures[conn[r]]}
    BY <2>1, <2>4 DEF TypeOK
  <2> QED
    BY <2>2, <2>3, <2>4, <2>5, <2>6, <2>7
<1>2. CASE UNCHANGED failures
  BY <1>2 DEF TypeOK
<1>3. ASSUME ~ \E r \in Call : CountAndReturn(r) PROVE UNCHANGED failures
  <2>1. CASE \E r \in Call, c \in Conn, d \in {"none", "running"} : StartSync(r, c, d)
    BY <2>1 DEF StartSync, dbVars
  <2>2. ASSUME NEW r \in Call, SyncStep(r) PROVE UNCHANGED failures
    BY <1>3, <2>2 DEF SyncStep, CreateSyncLog, CreateSyncLogFails, LoadConnection,
       LoadConnectionFails, FetchPage, FetchLastPage, MutationDuringPagination,
       ReauthRequired, ProviderFails, CommitFlush, CommitUnacknowledged,
       WriteBatch, FlushFails, MarkActive, UpdateSyncLog, dbVars
  <2>3. CASE \E r \in Call : DeadlinePasses(r)
    BY <2>3 DEF DeadlinePasses, dbVars
  <2>4. ASSUME NEW c \in Conn, ServiceStep(c) \/ Publish(c) PROVE UNCHANGED failures
    BY <2>4 DEF ServiceStep, DeleteConnection, ReactivateConnection,
       ConnectionErrorWebhook, PendingExpirationWebhook, Publish, dbVars
  <2>5. CASE Crash \/ Restart \/ UNCHANGED vars
    BY <2>5 DEF Crash, Restart, vars, dbVars
  <2> QED
    BY <2>1, <2>2, <2>3, <2>4, <2>5 DEF Next
<1> QED
  BY <1>1, <1>2, <1>3

\* The failure counter never contradicts the newest log row of its connection.
THEOREM CounterFollowsLog == Spec => CounterAgreesWithLog
<1>1. TypeOK /\ SyncInv /\ [Next]_vars =>
        [\A c \in Conn : /\ failures'[c] < failures[c] => lastLog[c] # "error"
                         /\ failures'[c] > failures[c] => lastLog[c] # "success"]_failures
  BY CounterStep
<1> QED
  BY <1>1, Invariance, PTL DEF Spec, IndInv, CounterAgreesWithLog

-----------------------------------------------------------------------------
(* The engine implements LedgerMirror                                      *)

\* A fresh engine mirrors a fresh importer.
LEMMA MirrorInit == Init => Mirror!Init
BY DEF Init, Mirror!Init, Nothing, Mirror!Nothing

\* Every step of the engine is a step of the abstract importer or a stutter.
LEMMA MirrorStep ==
  ASSUME TypeOK, SyncInv, [Next]_vars
  PROVE  [Mirror!Next]_(Mirror!vars)
<1> DEFINE mcursor == [c \in Conn |-> IF creds[c] THEN cursor[c] ELSE 0]
           mledger == [c \in Conn |-> IF creds[c] THEN ledger[c] ELSE Nothing]
           mmissed == [c \in Conn |-> IF creds[c] THEN missed[c] ELSE {}]
<1>1. ASSUME NEW r \in Call, CommitFlush(r) \/ CommitUnacknowledged(r)
      PROVE  [Mirror!Next]_(Mirror!vars)
  <2>1. pc[r] = "flushing" /\ WriteBatch(r)
    BY <1>1 DEF CommitFlush, CommitUnacknowledged
  <2>2. PICK c \in Conn : c = conn[r] /\ target[r] \in cursor[c] .. Len(feed[c])
    BY <2>1, FlushTarget
  <2>3. PICK S \in SUBSET Skippable(r) :
          /\ cursor' = [cursor EXCEPT ![c] = target[r]]
          /\ ledger' = [ledger EXCEPT ![c] = Overlay(r, S)]
          /\ missed' = [missed EXCEPT ![c] = StillMissed(r, S)]
          /\ UNCHANGED <<feed, creds>>
    BY <2>1, <2>2 DEF WriteBatch
  <2>4. CASE creds[c]
    <3> DEFINE lost == StillMissed(r, S)
    <3>1. \A k : StateAt(c, k) = Mirror!StateAt(c, k)
      BY DEF StateAt, Mirror!StateAt, Nothing, Mirror!Nothing
    <3>2. mcursor[c] = cursor[c] /\ mledger[c] = ledger[c] /\ mmissed[c] = missed[c]
      BY <2>2, <2>4
    <3>3. /\ \A t \in Txn : buf[r][t] # NoChange <=> t \in Mirror!Changed(c, target[r])
          /\ S \subseteq Txn /\ \A t \in S : buf[r][t] # NoChange
      <4>1. cursor[c] = prev[r] /\ target[r] # NoPage
        BY <2>1, <2>2 DEF SyncInv, OutcomeInv, BufferInv
      <4>2. Mirror!Changed(c, target[r]) =
              {t \in Txn : StateAt(c, target[r])[t] # StateAt(c, prev[r])[t]}
        BY <3>1, <3>2, <4>1 DEF Mirror!Changed
      <4>3. \A t \in Txn : StateAt(c, target[r])[t] # StateAt(c, prev[r])[t]
                             => buf[r][t] # NoChange
        BY <2>1, <2>2 DEF SyncInv, BufferInv, Undelivered
      <4>4. \A t \in Txn : buf[r][t] # NoChange =>
                              StateAt(c, target[r])[t] # StateAt(c, prev[r])[t]
        BY <2>1, <2>2, <4>1 DEF SyncInv, BufferInv
      <4>5. \A t \in S : t \in Txn /\ buf[r][t] # NoChange
        BY ConstantsAssumption DEF Skippable, ConstantsAssumption
      <4> QED
        BY <4>2, <4>3, <4>4, <4>5
    <3>4. lost = S \cup (mmissed[c] \ Mirror!Changed(c, target[r]))
      <4>1. missed[c] \subseteq Txn
        BY <2>2 DEF TypeOK
      <4> QED
        BY <2>2, <3>2, <3>3, <4>1 DEF StillMissed
    <3>5. mcursor' = [mcursor EXCEPT ![c] = target[r]]
      BY <2>2, <2>3, <2>4 DEF TypeOK
    <3>6. mmissed' = [mmissed EXCEPT ![c] = lost]
      BY <2>2, <2>3, <2>4 DEF TypeOK
    <3>7. Overlay(r, S) = [t \in Txn |-> IF t \in lost THEN mledger[c][t]
                                         ELSE Mirror!StateAt(c, target[r])[t]]
      <4>1. \A t \in Txn \ lost : Overlay(r, S)[t] = Mirror!StateAt(c, target[r])[t]
        BY <2>1, <2>2, <2>4, <3>1, BatchImports
      <4>2. \A t \in lost : t \in S \/ buf[r][t] = NoChange
        BY DEF StillMissed
      <4>3. \A t \in Txn : t \in lost => Overlay(r, S)[t] = mledger[c][t]
        BY <2>2, <3>2, <4>2 DEF Overlay
      <4>4. Overlay(r, S) = [t \in Txn |-> Overlay(r, S)[t]]
        BY DEF Overlay
      <4> HIDE DEF lost
      <4> QED
        BY <4>1, <4>3, <4>4
    <3>8. mledger' = [mledger EXCEPT ![c] = Overlay(r, S)]
      BY <2>2, <2>3, <2>4 DEF TypeOK
    <3> HIDE DEF lost, mcursor, mledger, mmissed
    <3>9. Mirror!Import(c)
      <4>1. target[r] \in mcursor[c] .. Len(feed[c])
        BY <2>2, <3>2
      <4>2. S \in SUBSET Txn /\ S \subseteq Mirror!Changed(c, target[r])
        BY <3>3
      <4>3. /\ mcursor' = [mcursor EXCEPT ![c] = target[r]]
            /\ mmissed' = [mmissed EXCEPT ![c] =
                             S \cup (mmissed[c] \ Mirror!Changed(c, target[r]))]
            /\ mledger' = [mledger EXCEPT ![c] =
                 [t \in Txn |-> IF t \in S \cup (mmissed[c] \ Mirror!Changed(c, target[r]))
                                THEN mledger[c][t] ELSE Mirror!StateAt(c, target[r])[t]]]
        BY <3>4, <3>5, <3>6, <3>7, <3>8
      <4>4. creds[c] /\ UNCHANGED <<feed, creds>>
        BY <2>3, <2>4
      <4>5. \E k \in mcursor[c] .. Len(feed[c]), T \in SUBSET Txn :
              /\ T \subseteq Mirror!Changed(c, k)
              /\ mcursor' = [mcursor EXCEPT ![c] = k]
              /\ mmissed' = [mmissed EXCEPT ![c] =
                               T \cup (mmissed[c] \ Mirror!Changed(c, k))]
              /\ mledger' = [mledger EXCEPT ![c] =
                   [t \in Txn |-> IF t \in T \cup (mmissed[c] \ Mirror!Changed(c, k))
                                  THEN mledger[c][t] ELSE Mirror!StateAt(c, k)[t]]]
        BY <4>1, <4>2, <4>3
      <4> QED
        BY <4>4, <4>5, Zenon DEF Mirror!Import, mcursor, mledger, mmissed
    <3> QED
      BY <2>2, <3>9 DEF Mirror!Next
  <2>5. CASE ~creds[c]
    <3>1. mcursor' = mcursor /\ mledger' = mledger /\ mmissed' = mmissed
      BY <2>2, <2>3, <2>5 DEF TypeOK
    <3> QED
      BY <2>3, <3>1 DEF Mirror!vars
  <2> QED
    BY <2>4, <2>5
<1>2. ASSUME NEW c \in Conn, DeleteConnection(c)
      PROVE  [Mirror!Next]_(Mirror!vars)
  <2>1. /\ creds' = [creds EXCEPT ![c] = FALSE]
        /\ ledger' = [ledger EXCEPT ![c] = Nothing]
        /\ missed' = [missed EXCEPT ![c] = {}]
        /\ UNCHANGED <<feed, cursor>>
    BY <1>2 DEF DeleteConnection
  <2>2. mcursor' = [mcursor EXCEPT ![c] = 0]
    BY <2>1 DEF TypeOK
  <2>3. mledger' = [mledger EXCEPT ![c] = Nothing]
    BY <2>1 DEF TypeOK, Nothing
  <2>6. mmissed' = [mmissed EXCEPT ![c] = {}]
    BY <2>1 DEF TypeOK
  <2>4. CASE creds[c]
    <3>1. Mirror!Unlink(c)
      BY <2>1, <2>2, <2>3, <2>4, <2>6 DEF Mirror!Unlink, Nothing, Mirror!Nothing
    <3> QED
      BY <3>1 DEF Mirror!Next
  <2>5. CASE ~creds[c]
    <3>1. creds' = creds
      BY <2>1, <2>5 DEF TypeOK
    <3>2. mcursor' = mcursor /\ mledger' = mledger
      BY <2>2, <2>3, <2>5
    <3>4. mmissed' = mmissed
      BY <2>1, <2>5, <3>1 DEF TypeOK
    <3> QED
      BY <2>1, <3>1, <3>2, <3>4 DEF Mirror!vars
  <2> QED
    BY <2>4, <2>5
<1>3. ASSUME NEW c \in Conn, Publish(c)
      PROVE  [Mirror!Next]_(Mirror!vars)
  <2>1. Mirror!Publish(c)
    BY <1>3 DEF Publish, dbVars, Mirror!Publish, Snapshot, Mirror!Snapshot, Nothing
  <2> QED
    BY <2>1 DEF Mirror!Next
<1>4. CASE UNCHANGED <<feed, cursor, ledger, missed, creds>>
  BY <1>4 DEF Mirror!vars, Nothing
<1> QED
  BY <1>1, <1>2, <1>3, <1>4, QuietSteps

\* Seen from outside, pages, retries, timeouts and crashes are invisible: the
\* ledger of a linked connection jumps from one published state to a later one,
\* and misses only changes known as missed.
THEOREM EngineImplementsMirror == Spec => RefinesLedgerMirror
<1>1. TypeOK /\ SyncInv /\ [Next]_vars => [Mirror!Next]_(Mirror!vars)
  BY MirrorStep
<1> QED
  BY <1>1, MirrorInit, Invariance, PTL
     DEF Spec, IndInv, RefinesLedgerMirror, Mirror!Spec

=============================================================================

------------------------ MODULE SyncSchedulerProofs ------------------------
(***************************************************************************)
(* Theorems about SyncScheduler for any connections, schedules, workers,   *)
(* intervals and number of ticks that overlap.  JobInv counts what a job   *)
(* still waits for; the rest compares times written by one goroutine with  *)
(* times another one read, which needs to know that no time is later than  *)
(* the clock (Clocked) and what a job decided from its snapshot (Patient). *)
(***************************************************************************)
EXTENDS SyncScheduler, FiniteSetTheorems, TLAPS

\* No time is ahead of the clock; a job that has not run has nothing to do.
Clocked ==
  /\ \A j \in Job : /\ at[j] # Never => at[j] <= now
                    /\ at[j] = Never => total[j] = 0 /\ kept[j] = {}
  /\ \A c \in Conn : /\ lastError[c] # Never => lastError[c] <= now
                     /\ since[c] <= now

BaseInv == TypeOK /\ JobInv /\ Clocked

\* JobInv, for one job.
JobOK(j) ==
  /\ Cardinality(todo[j]) + Cardinality(running[j]) + done[j] = total[j]
  /\ todo[j] \cap running[j] = {}
  /\ Cardinality(running[j]) <= (IF j = Startup THEN 1 ELSE MaxWorkers)
  /\ \A c \in Conn : c \in running[j] <=> holder[c] = j

LEMMA JobInvJobOK == JobInv <=> \A j \in Job : JobOK(j)
BY DEF JobInv, JobOK

\* How many connections a set of them holds.
LEMMA Counts ==
  ASSUME NEW S \in SUBSET Conn
  PROVE  /\ Cardinality(S) \in Nat /\ Cardinality(S) <= Cardinality(Conn)
         /\ Cardinality(S) = 0 <=> S = {}
         /\ \A c \in S : Cardinality(S \ {c}) = Cardinality(S) - 1
         /\ \A c \in Conn \ S : Cardinality(S \cup {c}) = Cardinality(S) + 1
<1>1. IsFiniteSet(Conn)
  BY SchedulerAssumption
<1>2. IsFiniteSet(S) /\ Cardinality(S) <= Cardinality(Conn)
  BY <1>1, FS_Subset
<1> QED
  BY <1>2, FS_CardinalityType, FS_EmptySet, FS_RemoveElement, FS_AddElement

LEMMA BaseInit == Init => BaseInv
<1> SUFFICES ASSUME Init PROVE BaseInv
  OBVIOUS
<1> USE SchedulerAssumption
<1>1. Cardinality(Conn) \in Nat /\ Cardinality({}) = 0
  BY FS_CardinalityType, FS_EmptySet
<1>2. TypeOK
  BY <1>1 DEF Init, TypeOK, Time
<1>3. JobInv
  BY <1>1 DEF Init, JobInv, Job
<1>4. Clocked
  BY DEF Init, Clocked
<1> QED
  BY <1>2, <1>3, <1>4 DEF BaseInv

-----------------------------------------------------------------------------
(* Jobs account for their connections                                      *)

LEMMA SnapshotBase ==
  ASSUME BaseInv, NEW j \in Job, TakeSnapshot(j), total[j] = 0, nextTick' \in Nat
  PROVE  BaseInv'
<1> USE SchedulerAssumption
<1>1. /\ todo[j] \in SUBSET Conn /\ running[j] \in SUBSET Conn /\ done[j] \in Nat
      /\ JobOK(j) /\ Listed \in SUBSET Conn
  BY JobInvJobOK DEF BaseInv, TypeOK, Listed
<1>2. Cardinality(Listed) \in Nat /\ Cardinality(Listed) <= Cardinality(Conn)
      /\ Cardinality(Conn) \in Nat
  BY <1>1, Counts
<1>3. Cardinality(running[j]) = 0 /\ done[j] = 0 /\ running[j] = {}
  BY <1>1, Counts, SMTT(20) DEF JobOK
<1>4. TypeOK'
  <2>1. now \in Time /\ now \in Nat
    BY DEF BaseInv, TypeOK, Time
  <2>2. at' \in [Job -> Time \cup {Never}]
    BY <2>1 DEF TakeSnapshot, BaseInv, TypeOK
  <2>3. total' \in [Job -> 0 .. Cardinality(Conn)]
    BY <1>2 DEF TakeSnapshot, BaseInv, TypeOK
  <2>4. todo' \in [Job -> SUBSET Conn] /\ due' \in [Job -> SUBSET Conn]
        /\ kept' \in [Job -> SUBSET Conn]
    BY <1>1 DEF TakeSnapshot, BaseInv, TypeOK
  <2> QED
    BY <2>2, <2>3, <2>4 DEF TakeSnapshot, BaseInv, TypeOK, connVars
<1>5. ASSUME NEW k \in Job PROVE JobOK(k)'
  <2>1. JobOK(k)
    BY JobInvJobOK DEF BaseInv
  <2>2. CASE k = j
    <3>1. todo'[j] = Listed /\ total'[j] = Cardinality(Listed)
      BY DEF TakeSnapshot, BaseInv, TypeOK
    <3>2. running' = running /\ done' = done /\ holder' = holder
      BY DEF TakeSnapshot
    <3>3. Cardinality(todo'[k]) + Cardinality(running'[k]) + done'[k] = total'[k]
      <4>1. /\ Cardinality(todo'[k]) = Cardinality(Listed) /\ total'[k] = Cardinality(Listed)
            /\ Cardinality(running'[k]) = 0 /\ done'[k] = 0
        BY <1>3, <2>2, <3>1, <3>2
      <4> QED
        BY <1>2, <4>1
    <3>4. /\ todo'[k] \cap running'[k] = {}
          /\ Cardinality(running'[k]) <= (IF k = Startup THEN 1 ELSE MaxWorkers)
          /\ \A c \in Conn : c \in running'[k] <=> holder'[c] = k
      BY <1>3, <2>1, <2>2, <3>2 DEF JobOK
    <3> QED
      BY <3>3, <3>4 DEF JobOK
  <2>3. CASE k # j
    <3>1. todo'[k] = todo[k] /\ total'[k] = total[k]
      BY <2>3 DEF TakeSnapshot, BaseInv, TypeOK
    <3> QED
      BY <2>1, <3>1 DEF JobOK, TakeSnapshot
  <2> QED
    BY <2>2, <2>3
<1>6. Clocked'
  BY DEF TakeSnapshot, BaseInv, TypeOK, Clocked, Time, connVars
<1> QED
  BY <1>4, <1>5, <1>6, JobInvJobOK DEF BaseInv, JobInv, JobOK

\* A connection leaves the list of a job: skipped, dropped or given to a worker.
LEMMA LoopBase ==
  ASSUME BaseInv, NEW j \in Job, NEW c \in Conn, Skip(j, c) \/ Drop(j, c) \/ Spawn(j, c)
  PROVE  BaseInv'
<1> USE SchedulerAssumption
<1>1. /\ todo[j] \in SUBSET Conn /\ running[j] \in SUBSET Conn /\ c \in todo[j]
      /\ done[j] \in Nat /\ total[j] \in 0 .. Cardinality(Conn) /\ Cardinality(Conn) \in Nat
      /\ JobOK(j) /\ c \notin running[j] /\ now \in Time
      /\ todo' = [todo EXCEPT ![j] = @ \ {c}]
      /\ UNCHANGED <<now, nextTick, connVars, at, total, due, kept, events>>
  BY JobInvJobOK, FS_CardinalityType DEF BaseInv, TypeOK, Skip, Drop, Spawn, JobOK
<1>2. /\ Cardinality(todo[j]) \in Nat /\ Cardinality(running[j]) \in Nat
      /\ Cardinality(todo[j] \ {c}) = Cardinality(todo[j]) - 1
      /\ Cardinality(todo[j] \ {c}) \in Nat
      /\ Cardinality(running[j] \cup {c}) = Cardinality(running[j]) + 1
  <2>1. todo[j] \ {c} \in SUBSET Conn
    BY <1>1
  <2> QED
    BY <1>1, <2>1, Counts
<1>3. DOMAIN tried' = Conn /\ \A d \in Conn : tried'[d] \subseteq Fires[d]
  <2>1. tried' = tried \/ tried' = [tried EXCEPT ![c] = {f \in Fires[c] : f <= now}]
    BY DEF Skip, Drop, Spawn, NoteAttempt
  <2> QED
    BY <2>1 DEF BaseInv, TypeOK
<1>4. CASE Skip(j, c) \/ Drop(j, c)
  <2>1. done' = [done EXCEPT ![j] = @ + 1] /\ UNCHANGED <<holder, since, running>>
    BY <1>4 DEF Skip, Drop, Report
  <2>2. done[j] + 1 \in 0 .. Cardinality(Conn)
    BY <1>1, <1>2 DEF JobOK
  <2>3. TypeOK'
    BY <1>1, <1>3, <2>1, <2>2 DEF BaseInv, TypeOK, connVars
  <2>4. ASSUME NEW k \in Job PROVE JobOK(k)'
    <3>1. JobOK(k)
      BY JobInvJobOK DEF BaseInv
    <3>2. CASE k = j
      <4>1. todo'[j] = todo[j] \ {c} /\ done'[j] = done[j] + 1
        BY <1>1, <2>1 DEF BaseInv, TypeOK
      <4>2. Cardinality(todo'[k]) + Cardinality(running'[k]) + done'[k] = total'[k]
        <5>1. /\ Cardinality(todo'[k]) = Cardinality(todo[j]) - 1
              /\ Cardinality(running'[k]) = Cardinality(running[j])
              /\ done'[k] = done[j] + 1 /\ total'[k] = total[j]
          BY <1>1, <1>2, <2>1, <3>2, <4>1
        <5> QED
          BY <1>1, <1>2, <5>1 DEF JobOK
      <4> QED
        BY <1>1, <2>1, <3>1, <3>2, <4>1, <4>2 DEF JobOK
    <3>3. CASE k # j
      <4>1. todo'[k] = todo[k] /\ done'[k] = done[k]
        BY <1>1, <2>1, <3>3 DEF BaseInv, TypeOK
      <4> QED
        BY <1>1, <2>1, <3>1, <4>1 DEF JobOK
    <3> QED
      BY <3>2, <3>3
  <2>5. Clocked'
    BY <1>1, <2>1 DEF BaseInv, Clocked, connVars
  <2> QED
    BY <2>3, <2>4, <2>5 DEF BaseInv, JobInv, JobOK
<1>5. CASE Spawn(j, c)
  <2>1. /\ HasSlot(j) /\ holder[c] = Free /\ done' = done
        /\ running' = [running EXCEPT ![j] = @ \cup {c}]
        /\ holder' = [holder EXCEPT ![c] = j]
        /\ since' = [since EXCEPT ![c] = now]
    BY <1>5 DEF Spawn
  <2>2. TypeOK'
    BY <1>1, <1>3, <2>1 DEF BaseInv, TypeOK, connVars
  <2>3. ASSUME NEW k \in Job PROVE JobOK(k)'
    <3>1. JobOK(k) /\ k # Free
      BY JobInvJobOK DEF BaseInv
    <3>2. CASE k = j
      <4>1. /\ todo'[j] = todo[j] \ {c} /\ running'[j] = running[j] \cup {c}
            /\ \A d \in Conn : holder'[d] = IF d = c THEN j ELSE holder[d]
        BY <1>1, <2>1 DEF BaseInv, TypeOK
      <4>2. Cardinality(running[j]) + 1 <= (IF j = Startup THEN 1 ELSE MaxWorkers)
        <5>1. Cardinality({}) = 0
          BY FS_EmptySet
        <5>2. CASE j = Startup
          <6>1. Cardinality(running[j]) = 0
            BY <2>1, <5>1, <5>2 DEF HasSlot
          <6> QED
            BY <5>2, <6>1
        <5>3. CASE j # Startup
          <6>1. Cardinality(running[j]) < MaxWorkers /\ MaxWorkers \in Nat
            BY <2>1, <5>3 DEF HasSlot
          <6> QED
            BY <1>2, <5>3, <6>1
        <5> QED
          BY <5>2, <5>3
      <4>3. Cardinality(todo'[k]) + Cardinality(running'[k]) + done'[k] = total'[k]
        <5>1. /\ Cardinality(todo'[k]) = Cardinality(todo[j]) - 1
              /\ Cardinality(running'[k]) = Cardinality(running[j]) + 1
              /\ done'[k] = done[j] /\ total'[k] = total[j]
          BY <1>1, <1>2, <2>1, <3>2, <4>1
        <5> QED
          BY <1>1, <1>2, <5>1 DEF JobOK
      <4>4. Cardinality(running'[k]) <= (IF k = Startup THEN 1 ELSE MaxWorkers)
        BY <1>2, <3>2, <4>1, <4>2
      <4>5. todo'[k] \cap running'[k] = {} /\ \A d \in Conn : d \in running'[k] <=> holder'[d] = k
        BY <1>1, <2>1, <3>1, <3>2, <4>1 DEF JobOK
      <4> QED
        BY <4>3, <4>4, <4>5 DEF JobOK
    <3>3. CASE k # j
      <4>1. /\ todo'[k] = todo[k] /\ running'[k] = running[k]
            /\ \A d \in Conn : holder'[d] = IF d = c THEN j ELSE holder[d]
        BY <1>1, <2>1, <3>3 DEF BaseInv, TypeOK
      <4> QED
        BY <1>1, <2>1, <3>1, <3>3, <4>1 DEF JobOK
    <3> QED
      BY <3>2, <3>3
  <2>4. Clocked'
    BY <1>1, <2>1 DEF BaseInv, TypeOK, Clocked, connVars, Time
  <2> QED
    BY <2>2, <2>3, <2>4 DEF BaseInv, JobInv, JobOK
<1> QED
  BY <1>4, <1>5

\* What leaves the jobs' counts and the mutexes alone.
LEMMA QuietBase ==
  ASSUME BaseInv, UNCHANGED <<holder, total, todo, running, done>>, TypeOK', Clocked'
  PROVE  BaseInv'
BY DEF BaseInv, JobInv

LEMMA EndJobBase == ASSUME BaseInv, NEW j \in Job, EndJob(j) PROVE BaseInv'
<1>1. /\ todo[j] = {} /\ done[j] = total[j] /\ total[j] \in Nat
      /\ total' = [total EXCEPT ![j] = 0] /\ done' = [done EXCEPT ![j] = 0]
      /\ due' = [due EXCEPT ![j] = {}]
      /\ UNCHANGED <<now, nextTick, connVars, holder, since, at, todo, running, kept, tried, events>>
      /\ running[j] \in SUBSET Conn /\ JobOK(j)
  BY JobInvJobOK DEF BaseInv, TypeOK, EndJob
<1>2. Cardinality({}) = 0 /\ Cardinality(running[j]) \in Nat /\ Cardinality(Conn) \in Nat
  BY <1>1, Counts, FS_EmptySet, FS_CardinalityType, SchedulerAssumption
<1>3. Cardinality(running[j]) = 0
  <2>1. Cardinality(todo[j]) = 0
    BY <1>1, <1>2
  <2> QED
    BY <1>1, <1>2, <2>1 DEF JobOK
<1>4. TypeOK'
  BY <1>1, <1>2 DEF BaseInv, TypeOK, connVars
<1>5. Clocked'
  BY <1>1 DEF BaseInv, TypeOK, Clocked, connVars
<1>6. ASSUME NEW k \in Job PROVE JobOK(k)'
  <2>1. JobOK(k)
    BY JobInvJobOK DEF BaseInv
  <2>2. CASE k = j
    <3>1. /\ Cardinality(todo'[k]) = 0 /\ Cardinality(running'[k]) = 0
          /\ done'[k] = 0 /\ total'[k] = 0
      BY <1>1, <1>2, <1>3, <2>2 DEF BaseInv, TypeOK
    <3>2. todo'[k] = todo[k] /\ running'[k] = running[k] /\ holder' = holder
      BY <1>1
    <3> QED
      BY <2>1, <3>1, <3>2 DEF JobOK
  <2>3. CASE k # j
    <3>1. /\ todo'[k] = todo[k] /\ running'[k] = running[k] /\ holder' = holder
          /\ done'[k] = done[k] /\ total'[k] = total[k]
      BY <1>1, <2>3 DEF BaseInv, TypeOK
    <3> QED
      BY <2>1, <3>1 DEF JobOK
  <2> QED
    BY <2>2, <2>3
<1> QED
  BY <1>4, <1>5, <1>6 DEF BaseInv, JobInv, JobOK

\* A sync returns to the job that waits for it, or to somebody else.
LEMMA ReturnJobs ==
  ASSUME BaseInv, NEW c \in Conn, ReturnSync(c)
  PROVE  /\ holder' \in [Conn -> Job \cup {Other, Free}]
         /\ running' \in [Job -> SUBSET Conn] /\ done' \in [Job -> 0 .. Cardinality(Conn)]
         /\ JobInv'
<1> USE SchedulerAssumption
<1> DEFINE j == holder[c]
<1>1. /\ holder[c] # Free /\ holder' = [holder EXCEPT ![c] = Free]
      /\ UNCHANGED <<total, todo>>
      /\ holder \in [Conn -> Job \cup {Other, Free}]
      /\ \A k \in Job : JobOK(k)
  BY JobInvJobOK DEF ReturnSync, BaseInv, TypeOK
<1>2. holder' \in [Conn -> Job \cup {Other, Free}]
      /\ \A d \in Conn : holder'[d] = IF d = c THEN Free ELSE holder[d]
  BY <1>1
<1>3. CASE j = Other
  <2>1. running' = running /\ done' = done
    BY <1>3 DEF ReturnSync
  <2>2. ASSUME NEW k \in Job PROVE JobOK(k)'
    <3>1. k # Free /\ k # Other
      OBVIOUS
    <3> QED
      BY <1>1, <1>2, <1>3, <2>1, <3>1 DEF JobOK
  <2> QED
    BY <1>2, <2>1, <2>2 DEF BaseInv, TypeOK, JobInv, JobOK
<1>4. CASE j # Other
  <2>1. /\ j \in Job /\ running' = [running EXCEPT ![j] = @ \ {c}]
        /\ done' = [done EXCEPT ![j] = @ + 1]
    BY <1>1, <1>4 DEF ReturnSync, Report
  <2>2. /\ running[j] \in SUBSET Conn /\ todo[j] \in SUBSET Conn /\ c \in running[j]
        /\ done[j] \in Nat /\ total[j] \in 0 .. Cardinality(Conn)
        /\ running' \in [Job -> SUBSET Conn]
    BY <1>1, <2>1 DEF BaseInv, TypeOK, JobOK
  <2>3. /\ Cardinality(running[j]) \in Nat /\ Cardinality(todo[j]) \in Nat
        /\ Cardinality(running[j] \ {c}) = Cardinality(running[j]) - 1
        /\ Cardinality(running[j] \ {c}) \in Nat
        /\ Cardinality(Conn) \in Nat
    <3>1. running[j] \ {c} \in SUBSET Conn
      BY <2>2
    <3> QED
      BY <2>2, <3>1, Counts, FS_CardinalityType
  <2> HIDE DEF j
  <2>4. done[j] + 1 \in 0 .. Cardinality(Conn)
    BY <1>1, <2>1, <2>2, <2>3 DEF JobOK
  <2>5. done' \in [Job -> 0 .. Cardinality(Conn)]
    BY <2>1, <2>4 DEF BaseInv, TypeOK
  <2>6. ASSUME NEW k \in Job PROVE JobOK(k)'
    <3>1. JobOK(k) /\ k # Free /\ k # Other
      BY <1>1
    <3>2. CASE k = j
      <4>1. running'[k] = running[j] \ {c} /\ todo'[k] = todo[j]
            /\ done'[k] = done[j] + 1 /\ total'[k] = total[j]
        BY <1>1, <2>1, <3>2 DEF BaseInv, TypeOK
      <4>2. Cardinality(todo'[k]) + Cardinality(running'[k]) + done'[k] = total'[k]
        <5>1. /\ Cardinality(todo'[k]) = Cardinality(todo[j])
              /\ Cardinality(running'[k]) = Cardinality(running[j]) - 1
          BY <2>3, <4>1
        <5> QED
          BY <2>2, <2>3, <3>1, <3>2, <4>1, <5>1 DEF JobOK
      <4>3. Cardinality(running'[k]) <= (IF k = Startup THEN 1 ELSE MaxWorkers)
        <5>1. Cardinality(running'[k]) = Cardinality(running[k]) - 1
          BY <2>3, <3>2, <4>1
        <5>2. Cardinality(running[k]) <= (IF k = Startup THEN 1 ELSE MaxWorkers)
          BY <3>1 DEF JobOK
        <5>3. Cardinality(running[k]) \in Nat /\ MaxWorkers \in Nat
          BY <2>3, <3>2
        <5> QED
          BY <5>1, <5>2, <5>3
      <4>4. /\ todo'[k] \cap running'[k] = {}
            /\ \A d \in Conn : d \in running'[k] <=> holder'[d] = k
        BY <1>2, <3>1, <3>2, <4>1 DEF JobOK
      <4> QED
        BY <4>2, <4>3, <4>4 DEF JobOK
    <3>3. CASE k # j
      <4>1. running'[k] = running[k] /\ todo'[k] = todo[k]
            /\ done'[k] = done[k] /\ total'[k] = total[k]
        BY <1>1, <2>1, <3>3 DEF BaseInv, TypeOK
      <4>2. \A d \in Conn : d \in running'[k] <=> holder'[d] = k
        BY <1>2, <3>1, <3>3, <4>1 DEF JobOK, j
      <4> QED
        BY <3>1, <4>1, <4>2 DEF JobOK
    <3> QED
      BY <3>2, <3>3
  <2> QED
    BY <1>2, <2>2, <2>5, <2>6 DEF JobInv, JobOK
<1> QED
  BY <1>3, <1>4

LEMMA EndSyncBase == ASSUME BaseInv, NEW c \in Conn, EndSync(c) PROVE BaseInv'
<1> USE SchedulerAssumption
<1>1. /\ ReturnSync(c) /\ UNCHANGED <<now, nextTick, at, total, todo, due, tried, events, paused>>
      /\ since' = [since EXCEPT ![c] = 0]
      /\ now \in Time /\ now \in Nat
  BY DEF EndSync, SyncSucceeds, SyncFails, SyncCutOff, ReturnSync, BaseInv, TypeOK, Time
<1>2. /\ broken' \in [Conn -> BOOLEAN] /\ failures' \in [Conn -> 0 .. MaxFailures]
      /\ lastError' \in [Conn -> Time \cup {Never}] /\ lastSynced' \in [Conn -> Time \cup {Never}]
      /\ \A d \in Conn : lastError'[d] # lastError[d] => lastError'[d] = now
  <2>1. CASE SyncSucceeds(c)
    BY <1>1, <2>1 DEF SyncSucceeds, BaseInv, TypeOK
  <2>2. CASE SyncFails(c)
    <3>1. /\ failures' = [failures EXCEPT ![c] = IF @ = MaxFailures THEN @ ELSE @ + 1]
          /\ lastError' = [lastError EXCEPT ![c] = now] /\ lastSynced' = lastSynced
          /\ \E b \in {broken[c], TRUE} : broken' = [broken EXCEPT ![c] = b]
      BY <2>2 DEF SyncFails
    <3>2. /\ failures \in [Conn -> 0 .. MaxFailures] /\ MaxFailures \in Nat
          /\ lastError \in [Conn -> Time \cup {Never}] /\ broken \in [Conn -> BOOLEAN]
          /\ lastSynced \in [Conn -> Time \cup {Never}]
      BY DEF BaseInv, TypeOK
    <3>3. failures' \in [Conn -> 0 .. MaxFailures]
      BY <3>1, <3>2
    <3>4. broken' \in [Conn -> BOOLEAN]
      BY <3>1, <3>2
    <3> QED
      BY <1>1, <3>1, <3>2, <3>3, <3>4
  <2>3. CASE SyncCutOff(c)
    BY <1>1, <2>3 DEF SyncCutOff, BaseInv, TypeOK
  <2> QED
    BY <2>1, <2>2, <2>3 DEF EndSync
<1>3. kept' \in [Job -> SUBSET Conn] /\ \A j \in Job : kept'[j] \subseteq kept[j]
  BY DEF EndSync, SyncSucceeds, SyncFails, SyncCutOff, NoteListing, BaseInv, TypeOK
<1>4. TypeOK'
  <2>1. /\ holder' \in [Conn -> Job \cup {Other, Free}]
        /\ running' \in [Job -> SUBSET Conn] /\ done' \in [Job -> 0 .. Cardinality(Conn)]
    BY <1>1, ReturnJobs
  <2>2. since' \in [Conn -> Time]
    BY <1>1 DEF BaseInv, TypeOK, Time
  <2> QED
    BY <1>1, <1>2, <1>3, <2>1, <2>2 DEF BaseInv, TypeOK
<1>5. Clocked'
  BY <1>1, <1>2, <1>3 DEF BaseInv, TypeOK, Clocked, Time
<1> QED
  BY <1>1, <1>4, <1>5, ReturnJobs DEF BaseInv

LEMMA BaseStep == BaseInv /\ [Next]_vars => BaseInv'
<1> SUFFICES ASSUME BaseInv, [Next]_vars PROVE BaseInv'
  OBVIOUS
<1> USE SchedulerAssumption
<1>0. nextTick \in Nat /\ now \in Nat /\ now \in Time /\ nextTick + TickEvery \in Nat
      /\ events \in 0 .. MaxEvents /\ Startup \in Job /\ Tick \subseteq Job
  BY DEF BaseInv, TypeOK, Time, Job
<1>1. ASSUME NEW j \in Tick, StartTick(j) PROVE BaseInv'
  BY <1>0, <1>1, SnapshotBase DEF StartTick
<1>2. ASSUME TickFails PROVE BaseInv'
  <2>1. TypeOK' /\ Clocked'
    BY <1>0, <1>2 DEF TickFails, BaseInv, TypeOK, Clocked, connVars, jobVars
  <2> QED
    BY <1>2, <2>1, QuietBase DEF TickFails, jobVars
<1>3. ASSUME StartStartupSync PROVE BaseInv'
  <2>1. total[Startup] = 0
    BY <1>0, <1>3 DEF StartStartupSync, BaseInv, Clocked
  <2> QED
    BY <1>0, <1>3, <2>1, SnapshotBase DEF StartStartupSync
<1>4. ASSUME StartupFails PROVE BaseInv'
  <2>1. TypeOK' /\ Clocked'
    BY <1>0, <1>4 DEF StartupFails, BaseInv, TypeOK, Clocked, connVars
  <2> QED
    BY <1>4, <2>1, QuietBase DEF StartupFails
<1>5. ASSUME NEW j \in Job, JobStep(j) PROVE BaseInv'
  BY <1>5, EndJobBase, LoopBase DEF JobStep
<1>6. ASSUME NEW c \in Conn, EndSync(c) PROVE BaseInv'
  BY <1>6, EndSyncBase
<1>7. ASSUME NEW c \in Conn, OtherSync(c) PROVE BaseInv'
  <2>1. /\ UNCHANGED <<now, nextTick, connVars, since, jobVars, kept>>
        /\ holder' = [holder EXCEPT ![c] = Other] /\ holder[c] = Free
        /\ events' = events + 1 /\ events < MaxEvents
        /\ tried' = [tried EXCEPT ![c] = {f \in Fires[c] : f <= now}]
    BY <1>7 DEF OtherSync, Elsewhere, NoteAttempt
  <2>2. TypeOK'
    BY <1>0, <2>1 DEF BaseInv, TypeOK, connVars, jobVars
  <2>3. Clocked'
    BY <2>1 DEF BaseInv, Clocked, connVars, jobVars
  <2>4. \A d \in Conn : holder'[d] = IF d = c THEN Other ELSE holder[d]
    BY <2>1 DEF BaseInv, TypeOK
  <2>5. JobInv'
    BY <2>1, <2>4 DEF BaseInv, JobInv, jobVars
  <2> QED
    BY <2>2, <2>3, <2>5 DEF BaseInv
<1>8. ASSUME NEW c \in Conn, SetPaused(c) \/ SetStatus(c) PROVE BaseInv'
  <2>1. /\ UNCHANGED <<now, nextTick, failures, lastError, lastSynced, holder, since, jobVars, tried>>
        /\ broken' \in [Conn -> BOOLEAN] /\ paused' \in [Conn -> BOOLEAN]
        /\ events' \in 0 .. MaxEvents
    <3>1. /\ UNCHANGED <<now, nextTick, failures, lastError, lastSynced, holder, since, jobVars,
                        tried>>
          /\ events < MaxEvents /\ events' = events + 1
          /\ \/ paused' = [paused EXCEPT ![c] = ~paused[c]] /\ broken' = broken
             \/ broken' = [broken EXCEPT ![c] = ~broken[c]] /\ paused' = paused
      BY <1>8 DEF SetPaused, SetStatus, Elsewhere
    <3>2. broken \in [Conn -> BOOLEAN] /\ paused \in [Conn -> BOOLEAN]
      BY DEF BaseInv, TypeOK
    <3>3. broken' \in [Conn -> BOOLEAN] /\ paused' \in [Conn -> BOOLEAN]
      BY <3>1, <3>2
    <3> QED
      BY <1>0, <3>1, <3>3
  <2>2. kept' \in [Job -> SUBSET Conn] /\ \A j \in Job : kept'[j] \subseteq kept[j]
    BY <1>8 DEF SetPaused, SetStatus, NoteListing, BaseInv, TypeOK
  <2>3. TypeOK' /\ Clocked'
    BY <2>1, <2>2 DEF BaseInv, TypeOK, Clocked, jobVars
  <2> QED
    BY <2>1, <2>3, QuietBase DEF jobVars
<1>9. ASSUME Advance PROVE BaseInv'
  <2>1. now' \in Time /\ now' = now + 1
    BY <1>0, <1>9 DEF Advance, Time
  <2>2. UNCHANGED <<nextTick, connVars, holder, since, jobVars, kept, tried, events>>
    BY <1>9 DEF Advance
  <2>3. TypeOK'
    BY <2>1, <2>2 DEF BaseInv, TypeOK, connVars, jobVars
  <2>4. Clocked'
    BY <1>0, <2>1, <2>2 DEF BaseInv, TypeOK, Clocked, connVars, jobVars, Time
  <2> QED
    BY <2>2, <2>3, <2>4, QuietBase DEF jobVars
<1>10. ASSUME UNCHANGED vars PROVE BaseInv'
  BY <1>10 DEF vars, connVars, jobVars, BaseInv, TypeOK, JobInv, Clocked
<1> QED
  BY <1>1, <1>2, <1>3, <1>4, <1>5, <1>6, <1>7, <1>8, <1>9, <1>10 DEF Next

\* Types hold: in particular a job never sends more tokens than its channel holds.
THEOREM SchedulerTypeCorrect == Spec => []TypeOK
<1>1. BaseInv => TypeOK
  BY DEF BaseInv
<1> QED
  BY <1>1, BaseInit, BaseStep, PTL DEF Spec

\* Whatever ticks overlap and whoever else holds a mutex, a job waits for exactly
\* the tokens that are still to come and stays within its slots.
THEOREM JobsAccount == Spec => []JobInv
<1>1. BaseInv => JobInv
  BY DEF BaseInv
<1> QED
  BY <1>1, BaseInit, BaseStep, PTL DEF Spec

-----------------------------------------------------------------------------
(* Every fire is served                                                    *)

\* FireServed, for one job, connection and fire.
Served(j, c, f) ==
  \/ f + Jitter[c] > at[j]
  \/ failures[c] > 0
  \/ f \in tried[c]
  \/ lastSynced[c] # Never /\ lastSynced[c] >= f
  \/ c \in todo[j] \cap due[j]

LEMMA FireServedIs ==
  FireServed <=> \A j \in Tick : \A c \in kept[j] : \A f \in Fires[c] : Served(j, c, f)
BY DEF FireServed, Served

\* A fire that is still to be served lies behind the clock.
LEMMA FirePast ==
  ASSUME BaseInv, NEW j \in Job, NEW c \in kept[j], NEW f \in Fires[c],
         ~(f + Jitter[c] > at[j])
  PROVE  f \in Nat /\ f <= now /\ now \in Nat /\ at[j] \in Nat /\ c \in Conn
<1>1. c \in Conn /\ f \in Nat /\ Jitter[c] \in Nat /\ now \in Nat
  BY SchedulerAssumption DEF BaseInv, TypeOK, Time
<1>2. at[j] # Never
  BY DEF BaseInv, Clocked
<1>3. at[j] \in Nat /\ at[j] <= now
  BY <1>2 DEF BaseInv, Clocked, TypeOK, Time
<1> QED
  BY <1>1, <1>3

\* A step after which a job that listed c still does, read its clock no later,
\* and knows no less of what was done for c.
LEMMA ServedStays ==
  ASSUME BaseInv, FireServed, NEW j \in Tick, NEW c \in kept[j], NEW f \in Fires[c],
         at'[j] = at[j],
         \/ tried'[c] = tried[c] \/ tried'[c] = {g \in Fires[c] : g <= now},
         \/ (failures[c] > 0 => failures'[c] > 0) /\ lastSynced'[c] = lastSynced[c]
         \/ lastSynced'[c] = now,
         c \in todo[j] \cap due[j] =>
           c \in todo'[j] \cap due'[j] \/ tried'[c] = {g \in Fires[c] : g <= now}
  PROVE  Served(j, c, f)'
<1> USE SchedulerAssumption
<1>1. Served(j, c, f) /\ j \in Job
  BY FireServedIs DEF Job
<1>2. CASE f + Jitter[c] > at[j]
  BY <1>2 DEF Served
<1>3. CASE ~(f + Jitter[c] > at[j])
  <2>1. f \in Nat /\ f <= now /\ now \in Nat /\ c \in Conn
    BY <1>1, <1>3, FirePast
  <2>2. now # Never
    BY <2>1
  <2>3. CASE tried'[c] = {g \in Fires[c] : g <= now}
    BY <2>1, <2>3 DEF Served
  <2>4. CASE tried'[c] = tried[c] /\ tried'[c] # {g \in Fires[c] : g <= now}
    <3>1. CASE lastSynced'[c] = now
      BY <2>1, <2>2, <3>1 DEF Served
    <3>2. CASE lastSynced'[c] # now
      BY <1>1, <1>3, <2>4, <3>2 DEF Served
    <3> QED
      BY <3>1, <3>2
  <2> QED
    BY <2>3, <2>4
<1> QED
  BY <1>2, <1>3

LEMMA FireInit == Init => FireServed
BY DEF Init, FireServed, Job

LEMMA FireStep == BaseInv /\ FireServed /\ [Next]_vars => FireServed'
<1> SUFFICES ASSUME BaseInv, FireServed, [Next]_vars PROVE FireServed'
  OBVIOUS
<1> USE SchedulerAssumption
<1>0. Tick \subseteq Job /\ Startup \notin Tick /\ now \in Nat
  BY DEF Job, BaseInv, TypeOK, Time
<1>1. ASSUME NEW k \in Job, TakeSnapshot(k) PROVE FireServed'
  <2>1. /\ at' = [at EXCEPT ![k] = now] /\ todo' = [todo EXCEPT ![k] = Listed]
        /\ kept' = [kept EXCEPT ![k] = Listed]
        /\ due' = [due EXCEPT ![k] = {c \in Listed : ScheduleDue(c) /\ ~Suppressed(c)}]
        /\ UNCHANGED <<tried, failures, lastSynced>>
    BY <1>1 DEF TakeSnapshot, connVars
  <2>2. ASSUME NEW j \in Tick, NEW c \in kept'[j], NEW f \in Fires[c]
        PROVE  Served(j, c, f)'
    <3>1. CASE j # k
      <4>1. /\ at'[j] = at[j] /\ kept'[j] = kept[j] /\ todo'[j] = todo[j] /\ due'[j] = due[j]
        BY <1>0, <2>1, <3>1 DEF BaseInv, TypeOK
      <4>2. Served(j, c, f)
        BY <4>1, FireServedIs
      <4> QED
        BY <2>1, <4>1, <4>2 DEF Served
    <3>2. CASE j = k
      <4>1. /\ at'[j] = now /\ kept'[j] = Listed /\ todo'[j] = Listed
            /\ due'[j] = {d \in Listed : ScheduleDue(d) /\ ~Suppressed(d)}
        BY <1>0, <2>1, <3>2 DEF BaseInv, TypeOK
      <4>2. c \in Listed /\ c \in Conn
        BY <4>1 DEF Listed
      <4>3. f \in Nat /\ Jitter[c] \in Nat /\ failures[c] \in Nat
            /\ lastSynced[c] \in Nat \cup {Never}
        BY <4>2 DEF BaseInv, TypeOK, Time
      <4>4. CASE f + Jitter[c] > now
        BY <4>1, <4>4 DEF Served
      <4>5. CASE Suppressed(c)
        BY <2>1, <4>5 DEF Served, Suppressed
      <4>6. CASE lastSynced[c] # Never /\ lastSynced[c] >= f
        BY <2>1, <4>6 DEF Served
      <4>7. CASE /\ f + Jitter[c] <= now /\ ~Suppressed(c)
                 /\ lastSynced[c] = Never \/ f > lastSynced[c]
        <5>1. ScheduleDue(c)
          BY <4>7 DEF ScheduleDue
        <5>2. c \in todo'[j] \cap due'[j]
          BY <4>1, <4>2, <4>7, <5>1
        <5> QED
          BY <5>2 DEF Served
      <4> QED
        BY <1>0, <4>3, <4>4, <4>5, <4>6, <4>7
    <3> QED
      BY <3>1, <3>2
  <2> QED
    BY <2>2 DEF FireServed, Served
<1>2. ASSUME \/ TickFails \/ StartupFails \/ Advance \/ UNCHANGED vars
             \/ \E c \in Conn : SetPaused(c) \/ SetStatus(c)
      PROVE  FireServed'
  <2>1. /\ UNCHANGED <<tried, failures, lastSynced, todo, due>>
        /\ \A j \in Tick : at'[j] = at[j] /\ kept'[j] \subseteq kept[j]
    <3>1. CASE StartupFails
      BY <1>0, <3>1 DEF StartupFails, connVars, BaseInv, TypeOK
    <3>2. CASE TickFails \/ Advance \/ UNCHANGED vars
      BY <3>2 DEF TickFails, Advance, vars, connVars, jobVars
    <3>3. CASE \E c \in Conn : SetPaused(c) \/ SetStatus(c)
      BY <1>0, <3>3 DEF SetPaused, SetStatus, NoteListing, jobVars
    <3> QED
      BY <1>2, <3>1, <3>2, <3>3
  <2>2. ASSUME NEW j \in Tick, NEW c \in kept'[j], NEW f \in Fires[c]
        PROVE  Served(j, c, f)'
    BY <2>1, <2>2, FireServedIs DEF Served
  <2> QED
    BY <2>2 DEF FireServed, Served
<1>3. ASSUME NEW k \in Job, NEW d \in Conn, Skip(k, d) \/ Spawn(k, d) \/ Drop(k, d)
      PROVE  FireServed'
  <2>1. UNCHANGED <<at, kept, due, failures, lastSynced>>
    BY <1>3 DEF Skip, Spawn, Drop, connVars
  <2>2. /\ todo' = [todo EXCEPT ![k] = @ \ {d}]
        /\ \/ tried' = tried /\ d \notin due[k]
           \/ tried' = [tried EXCEPT ![d] = {g \in Fires[d] : g <= now}]
    BY <1>3 DEF Skip, Spawn, Drop, NoteAttempt
  <2>3. ASSUME NEW j \in Tick, NEW c \in kept[j], NEW f \in Fires[c]
        PROVE  Served(j, c, f)'
    <3>1. \/ tried'[c] = tried[c] \/ tried'[c] = {g \in Fires[c] : g <= now}
      <4>1. CASE c = d
        BY <2>2, <4>1 DEF BaseInv, TypeOK
      <4>2. CASE c # d
        BY <1>0, <2>2, <4>2 DEF BaseInv, TypeOK
      <4> QED
        BY <4>1, <4>2
    <3>2. c \in todo[j] \cap due[j] =>
            c \in todo'[j] \cap due'[j] \/ tried'[c] = {g \in Fires[c] : g <= now}
      BY <1>0, <2>1, <2>2 DEF BaseInv, TypeOK
    <3> QED
      BY <2>1, <3>1, <3>2, ServedStays
  <2> QED
    BY <2>1, <2>3 DEF FireServed, Served
<1>4. ASSUME NEW k \in Job, EndJob(k) PROVE FireServed'
  <2>1. /\ UNCHANGED <<at, kept, todo, failures, lastSynced, tried>>
        /\ todo[k] = {} /\ due' = [due EXCEPT ![k] = {}]
    BY <1>4 DEF EndJob, connVars
  <2>2. ASSUME NEW j \in Tick, NEW c \in kept[j], NEW f \in Fires[c]
        PROVE  Served(j, c, f)'
    <3>1. c \in todo[j] \cap due[j] => c \in todo'[j] \cap due'[j]
      BY <1>0, <2>1 DEF BaseInv, TypeOK
    <3> QED
      BY <2>1, <3>1, FireServedIs DEF Served
  <2> QED
    BY <2>1, <2>2 DEF FireServed, Served
<1>5. ASSUME NEW d \in Conn, OtherSync(d) PROVE FireServed'
  <2>1. /\ UNCHANGED <<at, kept, todo, due, failures, lastSynced>>
        /\ tried' = [tried EXCEPT ![d] = {g \in Fires[d] : g <= now}]
    BY <1>5 DEF OtherSync, NoteAttempt, connVars, jobVars
  <2>2. ASSUME NEW j \in Tick, NEW c \in kept[j], NEW f \in Fires[c]
        PROVE  Served(j, c, f)'
    <3>1. \/ tried'[c] = tried[c] \/ tried'[c] = {g \in Fires[c] : g <= now}
      BY <2>1 DEF BaseInv, TypeOK
    <3> QED
      BY <2>1, <3>1, ServedStays
  <2> QED
    BY <2>1, <2>2 DEF FireServed, Served
<1>6. ASSUME NEW d \in Conn, EndSync(d) PROVE FireServed'
  <2>1. UNCHANGED <<at, todo, due, tried>>
    BY <1>6 DEF EndSync, SyncSucceeds, SyncFails, SyncCutOff, ReturnSync
  <2>2. \A j \in Tick : kept'[j] \subseteq kept[j]
    BY <1>0, <1>6 DEF EndSync, SyncSucceeds, SyncFails, SyncCutOff, NoteListing
  <2>3. \A c \in Conn :
          \/ (failures[c] > 0 => failures'[c] > 0) /\ lastSynced'[c] = lastSynced[c]
          \/ lastSynced'[c] = now
    <3>1. CASE SyncSucceeds(d)
      BY <3>1 DEF SyncSucceeds, BaseInv, TypeOK
    <3>2. CASE SyncFails(d)
      <4>1. /\ failures' = [failures EXCEPT ![d] = IF @ = MaxFailures THEN @ ELSE @ + 1]
            /\ lastSynced' = lastSynced
        BY <3>2 DEF SyncFails
      <4>2. failures \in [Conn -> 0 .. MaxFailures]
        BY DEF BaseInv, TypeOK
      <4> QED
        BY <4>1, <4>2
    <3>3. CASE SyncCutOff(d)
      <4>1. /\ failures' = failures
            /\ \E t \in {lastSynced[d], now} : lastSynced' = [lastSynced EXCEPT ![d] = t]
        BY <3>3 DEF SyncCutOff
      <4> QED
        BY <4>1 DEF BaseInv, TypeOK
    <3> QED
      BY <1>6, <3>1, <3>2, <3>3 DEF EndSync
  <2>4. ASSUME NEW j \in Tick, NEW c \in kept[j], NEW f \in Fires[c]
        PROVE  Served(j, c, f)'
    <3>1. c \in Conn
      BY <1>0 DEF BaseInv, TypeOK
    <3> QED
      BY <2>1, <2>3, <3>1, ServedStays
  <2> QED
    BY <2>2, <2>4 DEF FireServed, Served
<1>7. ASSUME NEW j \in Tick, StartTick(j) PROVE FireServed'
  BY <1>0, <1>1, <1>7 DEF StartTick
<1>8. ASSUME StartStartupSync PROVE FireServed'
  <2>1. Startup \in Job
    BY DEF Job
  <2> QED
    BY <1>1, <1>8, <2>1 DEF StartStartupSync
<1>9. ASSUME NEW j \in Job, JobStep(j) PROVE FireServed'
  BY <1>3, <1>4, <1>9 DEF JobStep
<1> QED
  BY <1>2, <1>5, <1>6, <1>7, <1>8, <1>9 DEF Next

\* No scheduled fire is lost for a connection that stays listed and healthy,
\* however late its tick, however long the syncs before it and whoever else
\* synced it in the meantime.
THEOREM FiresAreServed == Spec => []FireServed
BY BaseInit, BaseStep, FireInit, FireStep, PTL DEF Spec

-----------------------------------------------------------------------------
(* No job overlooks a failure                                              *)

\* What a job decided about c from its snapshot still holds of a failure that
\* was there when it looked.
Waited(j, c) ==
  \/ lastError[c] = Never
  \/ lastError[c] >= at[j]
  \/ at[j] >= lastError[c] + Window(failures[c])

Patient == \A j \in Job : \A c \in todo[j] \cap due[j] : Waited(j, c)

LEMMA Windows ==
  /\ Window(0) = 0
  /\ \A n \in Nat : Window(n) \in Nat /\ (n > 0 => Window(n) = BackoffInterval(n))
<1>1. BackoffBase \in Nat
  BY SchedulerAssumption
<1>2. 2^1 = 2 /\ 2^2 = 4 /\ 2^3 = 8 /\ 2^4 = 16
  OBVIOUS
<1>3. Window(0) = 0
  BY <1>1 DEF Window
<1>4. ASSUME NEW n \in Nat PROVE Window(n) \in Nat /\ (n > 0 => Window(n) = BackoffInterval(n))
  <2>1. CASE n = 0
    BY <1>3, <2>1
  <2>2. CASE n = 1
    BY <1>1, <1>2, <2>2 DEF Window, BackoffInterval
  <2>3. CASE n = 2
    BY <1>1, <1>2, <2>3 DEF Window, BackoffInterval
  <2>4. CASE n = 3
    BY <1>1, <1>2, <2>4 DEF Window, BackoffInterval
  <2>5. CASE n = 4
    BY <1>1, <1>2, <2>5 DEF Window, BackoffInterval
  <2>6. CASE n > 4
    BY <1>1, <1>2, <2>6 DEF Window, BackoffInterval
  <2> QED
    BY <2>1, <2>2, <2>3, <2>4, <2>5, <2>6
<1> QED
  BY <1>3, <1>4

\* Jobs that have something to do have read the clock.
LEMMA JobHasRun ==
  ASSUME BaseInv, NEW j \in Job, NEW c \in Conn, c \in todo[j] \/ holder[c] = j
  PROVE  at[j] \in Nat /\ at[j] <= now
<1>1. /\ JobOK(j) /\ todo[j] \in SUBSET Conn /\ running[j] \in SUBSET Conn
      /\ done[j] \in Nat /\ total[j] \in Nat
  <2>1. Cardinality(Conn) \in Nat
    BY FS_CardinalityType, SchedulerAssumption
  <2> QED
    BY <2>1, JobInvJobOK DEF BaseInv, TypeOK
<1>2. c \in todo[j] \/ c \in running[j]
  BY <1>1 DEF JobOK
<1>3. /\ Cardinality(todo[j]) \in Nat /\ Cardinality(running[j]) \in Nat
      /\ Cardinality(todo[j]) = 0 <=> todo[j] = {}
      /\ Cardinality(running[j]) = 0 <=> running[j] = {}
  BY <1>1, Counts
<1>4. total[j] # 0
  <2>1. todo[j] # {} \/ running[j] # {}
    BY <1>2
  <2>2. Cardinality(todo[j]) # 0 \/ Cardinality(running[j]) # 0
    BY <1>3, <2>1
  <2>3. Cardinality(todo[j]) + Cardinality(running[j]) + done[j] = total[j]
    BY <1>1 DEF JobOK
  <2> QED
    BY <1>1, <1>3, <2>2, <2>3
<1>5. at[j] # Never
  BY <1>4 DEF BaseInv, Clocked
<1> QED
  BY <1>5 DEF BaseInv, TypeOK, Clocked, Time

\* A failure is counted when a sync returns, at a time no job has read before.
LEMMA WaitedStays ==
  ASSUME BaseInv, NEW j \in Job, NEW c \in Conn, Waited(j, c),
         at[j] \in Nat, at[j] <= now, at'[j] = at[j],
         \/ lastError'[c] = lastError[c] /\ failures'[c] \in {failures[c], 0}
         \/ lastError'[c] = now
  PROVE  Waited(j, c)'
<1>1. now \in Nat /\ lastError[c] \in Nat \cup {Never}
  BY DEF BaseInv, TypeOK, Time
<1>2. CASE lastError'[c] = now
  BY <1>1, <1>2 DEF Waited
<1>3. CASE lastError'[c] = lastError[c] /\ failures'[c] = failures[c]
  <2>1. Window(failures[c])' = Window(failures[c])
    BY <1>3 DEF Window
  <2> QED
    BY <1>3, <2>1 DEF Waited
<1>4. CASE lastError'[c] = lastError[c] /\ failures'[c] = 0
  <2>1. Window(failures[c])' = 0
    BY <1>4, Windows DEF Window
  <2> QED
    BY <1>1, <1>4, <2>1, SchedulerAssumption DEF Waited
<1> QED
  BY <1>2, <1>3, <1>4

BackoffInv == Patient /\ BackoffHonoured

LEMMA BackoffInit == Init => BackoffInv
<1> SUFFICES ASSUME Init PROVE BackoffInv
  OBVIOUS
<1>1. Free \notin Job
  BY SchedulerAssumption
<1> QED
  BY <1>1 DEF Init, BackoffInv, Patient, BackoffHonoured, StartedInBackoff

\* Steps that start no sync and take no snapshot.
LEMMA BackoffStays ==
  ASSUME BaseInv, BackoffInv,
         \A j \in Job : /\ at[j] # Never => at'[j] = at[j]
                        /\ todo'[j] \cap due'[j] \subseteq todo[j] \cap due[j],
         \A c \in Conn :
           /\ holder'[c] \in Job => holder'[c] = holder[c] /\ since'[c] = since[c]
           /\ \/ lastError'[c] = lastError[c] /\ failures'[c] = failures[c]
              \/ /\ holder'[c] \notin Job
                 /\ \/ lastError'[c] = lastError[c] /\ failures'[c] \in {failures[c], 0}
                    \/ lastError'[c] = now
  PROVE  BackoffInv'
<1>1. ASSUME NEW j \in Job, NEW c \in todo'[j] \cap due'[j] PROVE Waited(j, c)'
  <2>1. c \in todo[j] \cap due[j] /\ c \in Conn
    BY DEF BaseInv, TypeOK
  <2>2. at[j] \in Nat /\ at[j] <= now /\ at'[j] = at[j]
    BY <2>1, JobHasRun, SchedulerAssumption
  <2>3. \/ lastError'[c] = lastError[c] /\ failures'[c] \in {failures[c], 0}
        \/ lastError'[c] = now
    BY <2>1
  <2> QED
    BY <2>1, <2>2, <2>3, WaitedStays DEF BackoffInv, Patient
<1>2. ASSUME NEW c \in Conn, StartedInBackoff(c)'
      PROVE  (lastError[c] >= at[holder[c]])'
  <2>1. holder'[c] \in Job /\ holder'[c] = holder[c] /\ since'[c] = since[c]
    BY <1>2 DEF StartedInBackoff
  <2>2. lastError'[c] = lastError[c] /\ failures'[c] = failures[c]
    BY <2>1
  <2>3. StartedInBackoff(c)
    BY <1>2, <2>1, <2>2 DEF StartedInBackoff, Window
  <2>4. at'[holder[c]] = at[holder[c]]
    BY <2>1, JobHasRun, SchedulerAssumption
  <2> QED
    BY <2>1, <2>2, <2>3, <2>4 DEF BackoffInv, BackoffHonoured
<1> QED
  BY <1>1, <1>2 DEF BackoffInv, Patient, BackoffHonoured

\* A job looks: what it finds due is not inside a backoff window.
LEMMA SnapshotBackoff ==
  ASSUME BaseInv, BackoffInv, NEW k \in Job, TakeSnapshot(k), total[k] = 0
  PROVE  BackoffInv'
<1>1. /\ at' = [at EXCEPT ![k] = now] /\ todo' = [todo EXCEPT ![k] = Listed]
      /\ due' = [due EXCEPT ![k] = {c \in Listed : ScheduleDue(c) /\ ~Suppressed(c)}]
      /\ UNCHANGED <<failures, lastError, holder, since>>
  BY DEF TakeSnapshot, connVars
<1>2. ASSUME NEW j \in Job, NEW c \in todo'[j] \cap due'[j] PROVE Waited(j, c)'
  <2>1. CASE j # k
    <3>1. at'[j] = at[j] /\ todo'[j] = todo[j] /\ due'[j] = due[j]
      BY <1>1, <2>1 DEF BaseInv, TypeOK
    <3>2. Waited(j, c)
      BY <3>1 DEF BackoffInv, Patient
    <3> QED
      BY <1>1, <3>1, <3>2 DEF Waited, Window
  <2>2. CASE j = k
    <3>1. /\ at'[j] = now /\ c \in Listed /\ ~Suppressed(c)
      BY <1>1, <2>2 DEF BaseInv, TypeOK
    <3>2. /\ c \in Conn /\ failures[c] \in Nat /\ now \in Nat
          /\ lastError[c] \in Nat \cup {Never}
          /\ lastError[c] # Never => lastError[c] <= now
      BY <3>1, SchedulerAssumption DEF Listed, BaseInv, TypeOK, Time, Clocked
    <3>3. Window(failures[c])' = Window(failures[c])
      BY <1>1 DEF Window
    <3>4. CASE lastError[c] = Never
      BY <1>1, <3>4 DEF Waited
    <3>5. CASE lastError[c] # Never /\ failures[c] = 0
      <4>1. Window(failures[c]) = 0
        BY <3>5, Windows
      <4> QED
        BY <1>1, <3>1, <3>2, <3>3, <3>5, <4>1 DEF Waited
    <3>6. CASE lastError[c] # Never /\ failures[c] > 0
      <4>1. Window(failures[c]) = BackoffInterval(failures[c]) /\ Window(failures[c]) \in Nat
        BY <3>2, <3>6, Windows
      <4>2. ~(now < lastError[c] + BackoffInterval(failures[c]))
        BY <3>1, <3>6 DEF Suppressed
      <4>3. now >= lastError[c] + Window(failures[c])
        BY <3>2, <3>6, <4>1, <4>2
      <4> QED
        BY <1>1, <3>1, <3>3, <4>3 DEF Waited
    <3> QED
      BY <3>2, <3>4, <3>5, <3>6
  <2> QED
    BY <2>1, <2>2
<1>3. ASSUME NEW c \in Conn, StartedInBackoff(c)'
      PROVE  (lastError[c] >= at[holder[c]])'
  <2>1. StartedInBackoff(c)
    BY <1>1, <1>3 DEF StartedInBackoff, Window
  <2>2. holder[c] \in Job /\ holder[c] # k
    <3>1. holder[c] \in Job
      BY <2>1 DEF StartedInBackoff
    <3>2. JobOK(k) /\ running[k] \in SUBSET Conn /\ todo[k] \in SUBSET Conn /\ done[k] \in Nat
      BY JobInvJobOK DEF BaseInv, TypeOK
    <3>3. running[k] = {}
      BY <3>2, Counts DEF JobOK
    <3> QED
      BY <3>1, <3>2, <3>3 DEF JobOK
  <2>3. at'[holder'[c]] = at[holder[c]]
    BY <1>1, <2>2 DEF BaseInv, TypeOK
  <2> QED
    BY <1>1, <2>1, <2>3 DEF BackoffInv, BackoffHonoured
<1> QED
  BY <1>2, <1>3 DEF BackoffInv, Patient, BackoffHonoured

\* A worker starts from what its job decided.
LEMMA SpawnBackoff ==
  ASSUME BaseInv, BackoffInv, NEW k \in Job, NEW d \in Conn, Spawn(k, d)
  PROVE  BackoffInv'
<1>1. /\ todo' = [todo EXCEPT ![k] = @ \ {d}] /\ d \in todo[k] \cap due[k]
      /\ holder' = [holder EXCEPT ![d] = k] /\ since' = [since EXCEPT ![d] = now]
      /\ UNCHANGED <<at, due, failures, lastError>>
  BY DEF Spawn, connVars
<1>2. ASSUME NEW j \in Job, NEW c \in todo'[j] \cap due'[j] PROVE Waited(j, c)'
  <2>1. c \in todo[j] \cap due[j]
    BY <1>1 DEF BaseInv, TypeOK
  <2>2. Waited(j, c)
    BY <2>1 DEF BackoffInv, Patient
  <2> QED
    BY <1>1, <2>2 DEF Waited, Window
<1>3. ASSUME NEW c \in Conn, StartedInBackoff(c)'
      PROVE  (lastError[c] >= at[holder[c]])'
  <2>1. CASE c = d
    <3>1. holder'[c] = k /\ since'[c] = now
      BY <1>1, <2>1 DEF BaseInv, TypeOK
    <3>2. lastError[c] # Never /\ now < lastError[c] + Window(failures[c])
      BY <1>1, <1>3, <3>1 DEF StartedInBackoff, Window
    <3>3. Waited(k, c) /\ at[k] \in Nat /\ at[k] <= now
      BY <1>1, <2>1, JobHasRun DEF BackoffInv, Patient
    <3>4. lastError[c] \in Nat /\ failures[c] \in Nat /\ now \in Nat
      BY <3>2 DEF BaseInv, TypeOK, Time
    <3>5. Window(failures[c]) \in Nat
      BY <3>4, Windows
    <3> QED
      BY <1>1, <3>1, <3>2, <3>3, <3>4, <3>5 DEF Waited
  <2>2. CASE c # d
    <3>1. holder'[c] = holder[c] /\ since'[c] = since[c]
      BY <1>1, <2>2 DEF BaseInv, TypeOK
    <3>2. StartedInBackoff(c)
      BY <1>1, <1>3, <3>1 DEF StartedInBackoff, Window
    <3> QED
      BY <1>1, <3>1, <3>2 DEF BackoffInv, BackoffHonoured
  <2> QED
    BY <2>1, <2>2
<1> QED
  BY <1>2, <1>3 DEF BackoffInv, Patient, BackoffHonoured

LEMMA BackoffStep == BaseInv /\ BackoffInv /\ [Next]_vars => BackoffInv'
<1> SUFFICES ASSUME BaseInv, BackoffInv, [Next]_vars PROVE BackoffInv'
  OBVIOUS
<1> USE SchedulerAssumption
<1>0. Tick \subseteq Job /\ Startup \in Job /\ Free \notin Job /\ Other \notin Job
  BY DEF Job
<1>1. ASSUME NEW j \in Tick, StartTick(j) PROVE BackoffInv'
  BY <1>0, <1>1, SnapshotBackoff DEF StartTick
<1>2. ASSUME StartStartupSync PROVE BackoffInv'
  BY <1>0, <1>2, SnapshotBackoff DEF StartStartupSync, BaseInv, Clocked
<1>3. CASE \/ TickFails \/ StartupFails \/ Advance \/ UNCHANGED vars
           \/ \E c \in Conn : SetPaused(c) \/ SetStatus(c) \/ OtherSync(c)
  <2>1. UNCHANGED <<todo, due, failures, lastError, since>>
    BY <1>3 DEF TickFails, StartupFails, Advance, vars, connVars, jobVars, SetPaused,
                SetStatus, OtherSync
  <2>2. ASSUME NEW j \in Job PROVE at[j] # Never => at'[j] = at[j]
    <3>1. CASE StartupFails
      BY <1>0, <3>1 DEF StartupFails, BaseInv, TypeOK
    <3> QED
      BY <1>3, <3>1 DEF TickFails, Advance, vars, jobVars, SetPaused, SetStatus, OtherSync
  <2>3. \A c \in Conn : holder'[c] \in Job => holder'[c] = holder[c]
    <3>1. CASE \E c \in Conn : OtherSync(c)
      BY <1>0, <3>1 DEF OtherSync, BaseInv, TypeOK
    <3> QED
      BY <1>3, <3>1 DEF TickFails, StartupFails, Advance, vars, SetPaused, SetStatus
  <2> QED
    BY <2>1, <2>2, <2>3, BackoffStays
<1>4. ASSUME NEW k \in Job, NEW d \in Conn, Skip(k, d) \/ Drop(k, d) PROVE BackoffInv'
  <2>1. /\ todo' = [todo EXCEPT ![k] = @ \ {d}]
        /\ UNCHANGED <<at, due, failures, lastError, since, holder>>
    BY <1>4 DEF Skip, Drop, connVars
  <2>2. \A j \in Job : todo'[j] \cap due'[j] \subseteq todo[j] \cap due[j]
    BY <2>1 DEF BaseInv, TypeOK
  <2> QED
    BY <2>1, <2>2, BackoffStays
<1>5. ASSUME NEW k \in Job, EndJob(k) PROVE BackoffInv'
  <2>1. /\ due' = [due EXCEPT ![k] = {}]
        /\ UNCHANGED <<at, todo, failures, lastError, since, holder>>
    BY <1>5 DEF EndJob, connVars
  <2>2. \A j \in Job : todo'[j] \cap due'[j] \subseteq todo[j] \cap due[j]
    BY <2>1 DEF BaseInv, TypeOK
  <2> QED
    BY <2>1, <2>2, BackoffStays
<1>6. ASSUME NEW d \in Conn, EndSync(d) PROVE BackoffInv'
  <2>1. /\ UNCHANGED <<at, todo, due>> /\ holder' = [holder EXCEPT ![d] = Free]
        /\ since' = [since EXCEPT ![d] = 0]
    BY <1>6 DEF EndSync, SyncSucceeds, SyncFails, SyncCutOff, ReturnSync
  <2>2. \A c \in Conn : /\ c = d => holder'[c] = Free
                        /\ c # d => holder'[c] = holder[c] /\ since'[c] = since[c]
    BY <2>1 DEF BaseInv, TypeOK
  <2>3. \A c \in Conn :
          \/ lastError'[c] = lastError[c] /\ failures'[c] = failures[c]
          \/ /\ c = d
             /\ \/ lastError'[c] = lastError[c] /\ failures'[c] \in {failures[c], 0}
                \/ lastError'[c] = now
    <3>1. CASE SyncSucceeds(d)
      BY <3>1 DEF SyncSucceeds, BaseInv, TypeOK
    <3>2. CASE SyncFails(d)
      <4>1. /\ failures' = [failures EXCEPT ![d] = IF @ = MaxFailures THEN @ ELSE @ + 1]
            /\ lastError' = [lastError EXCEPT ![d] = now]
        BY <3>2 DEF SyncFails
      <4> QED
        BY <4>1 DEF BaseInv, TypeOK
    <3>3. CASE SyncCutOff(d)
      BY <3>3 DEF SyncCutOff
    <3> QED
      BY <1>6, <3>1, <3>2, <3>3 DEF EndSync
  <2> QED
    BY <1>0, <2>1, <2>2, <2>3, BackoffStays
<1>7. ASSUME NEW j \in Job, JobStep(j) PROVE BackoffInv'
  BY <1>4, <1>5, <1>7, SpawnBackoff DEF JobStep
<1> QED
  BY <1>1, <1>2, <1>3, <1>6, <1>7 DEF Next

\* A scheduled sync inside the backoff window of a failure can only be due to a
\* failure its job had not yet seen: snapshots are never older than that.
THEOREM BackoffIsHonoured == Spec => []BackoffHonoured
<1>1. BackoffInv => BackoffHonoured
  BY DEF BackoffInv
<1> QED
  BY <1>1, BaseInit, BaseStep, BackoffInit, BackoffStep, PTL DEF Spec
=============================================================================

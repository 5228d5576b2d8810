---------------------------- MODULE SyncScheduler ----------------------------
(***************************************************************************)
(* The cron scheduler of internal/sync/scheduler.go and schedule.go: the   *)
(* tick every 15 minutes, the catch-up job at startup, the decision which  *)
(* connections are due, the workers of a tick and failure backoff.         *)
(*                                                                         *)
(* Jobs run in goroutines of their own, so a tick can start while older    *)
(* jobs still work on the connections they listed.  Engine.Sync is seen    *)
(* from outside: it starts if the connection's mutex is free and later     *)
(* leaves one of its outcomes behind.  Time is counted in small units; a   *)
(* goroutine that can run does so before the clock moves on.               *)
(***************************************************************************)
EXTENDS Integers, FiniteSets

CONSTANTS Conn,         \* bank connections
          Tick,         \* goroutines a cron tick can run in
          Startup,      \* the goroutine of RunStartupSync
          Other,        \* whoever else holds a mutex: webhook or operator
          Free,         \* nobody holds the mutex
          Never,        \* a NULL time
          MaxWorkers,   \* maxWorkers
          TickEvery,    \* time between two ticks
          SyncTimeout,  \* syncTimeout
          BackoffBase,  \* backoffBaseMinutes
          Jitter,       \* connectionJitter of each connection
          Fires,        \* fire times of the schedules that apply to a connection
          MaxTime,      \* bound: the clock stops here
          MaxFailures,  \* failures are counted up to here
          MaxEvents     \* bound: syncs, pauses and status changes from elsewhere

Job == Tick \cup {Startup}

ASSUME SchedulerAssumption ==
  /\ IsFiniteSet(Conn)
  /\ Startup \notin Tick /\ Other \notin Job /\ Free \notin Job \cup {Other}
  /\ Never \notin Nat
  /\ MaxWorkers \in Nat \ {0} /\ TickEvery \in Nat \ {0} /\ SyncTimeout \in Nat \ {0}
  /\ BackoffBase \in Nat \ {0} /\ MaxTime \in Nat /\ MaxFailures \in Nat \ {0}
  /\ MaxEvents \in Nat
  /\ Jitter \in [Conn -> Nat] /\ Fires \in [Conn -> SUBSET Nat]

VARIABLES
  now,         \* the clock
  nextTick,    \* when the cron entry fires next
  \* bank_connections
  broken,      \* status is not active
  paused,
  failures,    \* consecutive_failures
  lastError,   \* last_error_at
  lastSynced,  \* last_synced_at
  \* Engine.Sync
  holder,      \* whose sync of the connection is under way
  since,       \* when that sync started, if a job did
  \* locals of the jobs
  at,          \* now as the job read it, Never if it has not run
  total,       \* len(connections)
  todo,        \* connections the loop has not come to
  due,         \* what the loop will decide about them from its snapshot
  running,     \* connections whose worker holds a slot of sem
  done,        \* tokens in the channel done
  \* history
  kept,        \* connections a job listed and that stayed active and unpaused
  tried,       \* fires of a connection followed by an attempt to sync it
  events       \* what came from elsewhere so far

connVars == <<broken, paused, failures, lastError, lastSynced>>
jobVars  == <<at, total, todo, due, running, done>>
vars     == <<now, nextTick, connVars, holder, since, jobVars, kept, tried, events>>

Time == 0 .. MaxTime

-----------------------------------------------------------------------------
(* When a connection is due                                                *)

\* Mutant of BackoffInterval: the first failure does not double the interval.
BackoffIntervalLate(n) ==
  IF n = 0 THEN BackoffBase ELSE BackoffBase * 2 ^ (IF n > 4 THEN 4 ELSE n - 1)

BackoffInterval(n) ==
  IF n = 0 THEN BackoffBase ELSE BackoffBase * 2 ^ (IF n > 4 THEN 4 ELSE n)

Suppressed(c) ==
  /\ failures[c] > 0
  /\ lastError[c] # Never
  /\ now < lastError[c] + BackoffInterval(failures[c])

\* Mutant of ScheduleDue: a fire time that is reached but not passed.
ScheduleDueStrict(c) ==
  /\ Fires[c] # {}
  /\ \/ lastSynced[c] = Never
     \/ \E f \in Fires[c] : f > lastSynced[c] /\ f + Jitter[c] < now

\* Next(lastSynced) is the first fire after the last sync: if any fire after it
\* has passed, that one has.
ScheduleDue(c) ==
  /\ Fires[c] # {}
  /\ \/ lastSynced[c] = Never
     \/ \E f \in Fires[c] : f > lastSynced[c] /\ f + Jitter[c] <= now

Listed == {c \in Conn : ~broken[c] /\ ~paused[c]}

-----------------------------------------------------------------------------
Init ==
  /\ now = 0
  /\ nextTick = TickEvery
  /\ broken = [c \in Conn |-> FALSE]
  /\ paused = [c \in Conn |-> FALSE]
  /\ failures = [c \in Conn |-> 0]
  /\ lastError = [c \in Conn |-> Never]
  /\ lastSynced = [c \in Conn |-> Never]
  /\ holder = [c \in Conn |-> Free]
  /\ since = [c \in Conn |-> 0]
  /\ at = [j \in Job |-> Never]
  /\ total = [j \in Job |-> 0]
  /\ todo = [j \in Job |-> {}]
  /\ due = [j \in Job |-> {}]
  /\ running = [j \in Job |-> {}]
  /\ done = [j \in Job |-> 0]
  /\ kept = [j \in Job |-> {}]
  /\ tried = [c \in Conn |-> {}]
  /\ events = 0

\* A connection that stops being listed is no longer kept, even if it comes back.
NoteListing ==
  kept' = [j \in Job |-> {c \in kept[j] : ~broken'[c] /\ ~paused'[c]}]

NoteAttempt(c) == tried' = [tried EXCEPT ![c] = {f \in Fires[c] : f <= now}]

-----------------------------------------------------------------------------
(* The jobs                                                                *)

\* The job lists the connections, loads the schedules and reads the clock.
TakeSnapshot(j) ==
  /\ at' = [at EXCEPT ![j] = now]
  /\ total' = [total EXCEPT ![j] = Cardinality(Listed)]
  /\ todo' = [todo EXCEPT ![j] = Listed]
  /\ kept' = [kept EXCEPT ![j] = Listed]
  /\ due' = [due EXCEPT ![j] = {c \in Listed : ScheduleDue(c) /\ ~Suppressed(c)}]
  /\ UNCHANGED <<now, connVars, holder, since, running, done, tried, events>>

\* The cron entry fires in a goroutine of its own, whether or not an earlier
\* tick is still at work.
StartTick(j) ==
  /\ j \in Tick
  /\ now = nextTick
  /\ total[j] = 0
  /\ nextTick' = nextTick + TickEvery
  /\ TakeSnapshot(j)

\* One of its queries fails: the tick does nothing.
TickFails ==
  /\ now = nextTick
  /\ nextTick' = nextTick + TickEvery
  /\ UNCHANGED <<now, connVars, holder, since, jobVars, kept, tried, events>>

\* RunStartupSync runs once.
StartStartupSync ==
  /\ at[Startup] = Never
  /\ TakeSnapshot(Startup)
  /\ UNCHANGED nextTick

\* One of its queries fails.
StartupFails ==
  /\ at[Startup] = Never
  /\ at' = [at EXCEPT ![Startup] = now]
  /\ UNCHANGED <<now, nextTick, connVars, holder, since, total, todo, due, running,
                 done, kept, tried, events>>

\* Mutant of DoneCapacity: done is an unbuffered channel.
DoneUnbuffered(j) == 0

\* The capacity of the channel done: a send never blocks.
DoneCapacity(j) == total[j]

\* A token in done is one connection less to wait for.
Report(j) ==
  /\ done[j] < DoneCapacity(j)
  /\ done' = [done EXCEPT ![j] = @ + 1]

\* Mutant of Skip: a skipped connection reports twice.
SkipReportsTwice(j, c) ==
  /\ c \in todo[j] \ due[j]
  /\ todo' = [todo EXCEPT ![j] = @ \ {c}]
  /\ done' = [done EXCEPT ![j] = @ + 2]
  /\ UNCHANGED <<now, nextTick, connVars, holder, since, at, total, due, running,
                 kept, tried, events>>

\* The loop skips a connection that is in backoff or not due.
Skip(j, c) ==
  /\ c \in todo[j] \ due[j]
  /\ todo' = [todo EXCEPT ![j] = @ \ {c}]
  /\ Report(j)
  /\ UNCHANGED <<now, nextTick, connVars, holder, since, at, total, due, running,
                 kept, tried, events>>

\* A slot of sem; the startup job calls Sync itself, one at a time.
HasSlot(j) ==
  IF j = Startup THEN running[j] = {} ELSE Cardinality(running[j]) < MaxWorkers

\* Mutant of Spawn: the slot is not acquired.
SpawnWithoutSlot(j, c) ==
  /\ c \in todo[j] \cap due[j]
  /\ holder[c] = Free
  /\ todo' = [todo EXCEPT ![j] = @ \ {c}]
  /\ running' = [running EXCEPT ![j] = @ \cup {c}]
  /\ holder' = [holder EXCEPT ![c] = j]
  /\ since' = [since EXCEPT ![c] = now]
  /\ NoteAttempt(c)
  /\ UNCHANGED <<now, nextTick, connVars, at, total, due, done, kept, events>>

\* A worker gets a slot and the connection's mutex: the sync starts, from a
\* decision made when the job read its snapshot.
Spawn(j, c) ==
  /\ c \in todo[j] \cap due[j]
  /\ HasSlot(j)
  /\ holder[c] = Free
  /\ todo' = [todo EXCEPT ![j] = @ \ {c}]
  /\ running' = [running EXCEPT ![j] = @ \cup {c}]
  /\ holder' = [holder EXCEPT ![c] = j]
  /\ since' = [since EXCEPT ![c] = now]
  /\ NoteAttempt(c)
  /\ UNCHANGED <<now, nextTick, connVars, at, total, due, done, kept, events>>

\* TryLock fails: Sync returns nil at once and the worker is done.
Drop(j, c) ==
  /\ c \in todo[j] \cap due[j]
  /\ HasSlot(j)
  /\ holder[c] # Free
  /\ todo' = [todo EXCEPT ![j] = @ \ {c}]
  /\ Report(j)
  /\ NoteAttempt(c)
  /\ UNCHANGED <<now, nextTick, connVars, holder, since, at, total, due, running,
                 kept, events>>

\* The job has received a token for every connection it listed.
EndJob(j) ==
  /\ total[j] > 0
  /\ todo[j] = {}
  /\ done[j] = total[j]
  /\ total' = [total EXCEPT ![j] = 0]
  /\ done' = [done EXCEPT ![j] = 0]
  /\ due' = [due EXCEPT ![j] = {}]
  /\ UNCHANGED <<now, nextTick, connVars, holder, since, at, todo, running,
                 kept, tried, events>>

-----------------------------------------------------------------------------
(* Engine.Sync, seen from outside                                          *)

\* One of the bounded number of events from outside the scheduler.
Elsewhere == events < MaxEvents /\ events' = events + 1

\* The webhook handler or an operator syncs: no schedule and no backoff.
OtherSync(c) ==
  /\ Elsewhere
  /\ holder[c] = Free
  /\ holder' = [holder EXCEPT ![c] = Other]
  /\ NoteAttempt(c)
  /\ UNCHANGED <<now, nextTick, connVars, since, jobVars, kept>>

\* The call returns: mutex, slot and token.
ReturnSync(c) ==
  LET j == holder[c] IN
  /\ holder[c] # Free
  /\ holder' = [holder EXCEPT ![c] = Free]
  /\ IF j = Other THEN UNCHANGED <<running, done>>
     ELSE /\ running' = [running EXCEPT ![j] = @ \ {c}]
          /\ Report(j)
  /\ since' = [since EXCEPT ![c] = 0]
  /\ UNCHANGED <<now, nextTick, at, total, todo, due, tried, events>>

\* The commit stamps last_synced_at, the status becomes active and the counter
\* is reset.
SyncSucceeds(c) ==
  /\ ReturnSync(c)
  /\ lastSynced' = [lastSynced EXCEPT ![c] = now]
  /\ broken' = [broken EXCEPT ![c] = FALSE]
  /\ failures' = [failures EXCEPT ![c] = 0]
  /\ UNCHANGED <<paused, lastError>>
  /\ NoteListing

\* An error is counted; ErrReauthRequired also changes the status.
SyncFails(c) ==
  /\ ReturnSync(c)
  /\ failures' = [failures EXCEPT ![c] = IF @ = MaxFailures THEN @ ELSE @ + 1]
  /\ lastError' = [lastError EXCEPT ![c] = now]
  /\ \E b \in {broken[c], TRUE} : broken' = [broken EXCEPT ![c] = b]
  /\ UNCHANGED <<paused, lastSynced>>
  /\ NoteListing

\* The timeout, or the database, cuts the call off before it writes the
\* counter; the commit may have been made.
SyncCutOff(c) ==
  /\ ReturnSync(c)
  /\ \E t \in {lastSynced[c], now} : lastSynced' = [lastSynced EXCEPT ![c] = t]
  /\ UNCHANGED <<broken, paused, failures, lastError, kept>>

EndSync(c) == SyncSucceeds(c) \/ SyncFails(c) \/ SyncCutOff(c)

-----------------------------------------------------------------------------
\* An operator pauses or resumes, a webhook or a reactivation changes the status.
SetPaused(c) ==
  /\ Elsewhere
  /\ paused' = [paused EXCEPT ![c] = ~@]
  /\ UNCHANGED <<now, nextTick, broken, failures, lastError, lastSynced, holder,
                 since, jobVars, tried>>
  /\ NoteListing

SetStatus(c) ==
  /\ Elsewhere
  /\ broken' = [broken EXCEPT ![c] = ~@]
  /\ UNCHANGED <<now, nextTick, paused, failures, lastError, lastSynced, holder,
                 since, jobVars, tried>>
  /\ NoteListing

\* Nothing is left that runs without waiting: the tick has fired, the loops wait
\* for slots or tokens, and no scheduled sync outlives its timeout.
Settled ==
  /\ now < nextTick
  /\ at[Startup] # Never
  /\ \A j \in Job :
       /\ todo[j] \subseteq due[j]
       /\ HasSlot(j) => todo[j] = {}
       /\ total[j] > 0 => todo[j] # {} \/ done[j] # total[j]
  /\ \A c \in Conn : holder[c] \in Job => now < since[c] + SyncTimeout

Advance ==
  /\ Settled
  /\ now < MaxTime
  /\ now' = now + 1
  /\ UNCHANGED <<nextTick, connVars, holder, since, jobVars, kept, tried, events>>

JobStep(j) ==
  EndJob(j) \/ \E c \in Conn : Skip(j, c) \/ Spawn(j, c) \/ Drop(j, c)

Next ==
  \/ \E j \in Tick : StartTick(j)
  \/ TickFails
  \/ StartStartupSync \/ StartupFails
  \/ \E j \in Job : JobStep(j)
  \/ \E c \in Conn : OtherSync(c) \/ EndSync(c) \/ SetPaused(c) \/ SetStatus(c)
  \/ Advance

Spec == Init /\ [][Next]_vars

\* A goroutine that can run does run, and a sync comes to an end: the scheduled
\* ones by their timeout, the others because Engine.Sync returns (LockReleased
\* of SyncEngine).
Fairness == /\ \A j \in Job : WF_vars(JobStep(j))
            /\ \A c \in Conn : WF_vars(EndSync(c))

FairSpec == Spec /\ Fairness

-----------------------------------------------------------------------------
(* Properties                                                              *)

\* Types; a job never sends more tokens than there are connections.
TypeOK ==
  /\ now \in Time /\ nextTick \in Nat
  /\ broken \in [Conn -> BOOLEAN] /\ paused \in [Conn -> BOOLEAN]
  /\ failures \in [Conn -> 0 .. MaxFailures]
  /\ lastError \in [Conn -> Time \cup {Never}]
  /\ lastSynced \in [Conn -> Time \cup {Never}]
  /\ holder \in [Conn -> Job \cup {Other, Free}]
  /\ since \in [Conn -> Time]
  /\ at \in [Job -> Time \cup {Never}]
  /\ total \in [Job -> 0 .. Cardinality(Conn)]
  /\ todo \in [Job -> SUBSET Conn] /\ due \in [Job -> SUBSET Conn]
  /\ running \in [Job -> SUBSET Conn]
  /\ done \in [Job -> 0 .. Cardinality(Conn)]
  /\ kept \in [Job -> SUBSET Conn]
  /\ DOMAIN tried = Conn /\ \A c \in Conn : tried[c] \subseteq Fires[c]
  /\ events \in 0 .. MaxEvents

\* Every connection a job listed is accounted for, either still to do, in a
\* worker or reported, so the job waits for exactly the tokens that will come;
\* its workers never exceed the slots and each holds its connection's mutex.
JobInv ==
  \A j \in Job :
    /\ Cardinality(todo[j]) + Cardinality(running[j]) + done[j] = total[j]
    /\ todo[j] \cap running[j] = {}
    /\ Cardinality(running[j]) <= (IF j = Startup THEN 1 ELSE MaxWorkers)
    /\ \A c \in Conn : c \in running[j] <=> holder[c] = j

\* Every fire is served: once a tick has started at or after a fire (plus
\* jitter), a connection that tick listed, that stayed listed and is not failing
\* has been synced or tried since the fire, or the tick still has it queued.
FireServed ==
  \A j \in Tick : \A c \in kept[j] : \A f \in Fires[c] :
    \/ f + Jitter[c] > at[j]
    \/ failures[c] > 0
    \/ f \in tried[c]
    \/ lastSynced[c] # Never /\ lastSynced[c] >= f
    \/ c \in todo[j] \cap due[j]

\* How long a connection is left alone after n failures in a row: 30 minutes,
\* doubling up to 4 hours.
Window(n) == BackoffBase * (CASE n = 0 -> 0 [] n = 1 -> 2 [] n = 2 -> 4 [] n = 3 -> 8
                              [] OTHER -> 16)

StartedInBackoff(c) ==
  /\ holder[c] \in Job
  /\ lastError[c] # Never
  /\ since[c] < lastError[c] + Window(failures[c])

\* A scheduled sync starts inside the backoff window only if the failure
\* happened after its job had taken the snapshot: no job overlooks an error that
\* was there when it looked.
BackoffHonoured ==
  \A c \in Conn : StartedInBackoff(c) => lastError[c] >= at[holder[c]]

\* Every job ends: no loop waits for a slot or a token that never comes.
JobsEnd == \A j \in Job : total[j] > 0 ~> total[j] = 0
=============================================================================

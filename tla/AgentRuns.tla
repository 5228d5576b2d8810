------------------------------ MODULE AgentRuns ------------------------------
(***************************************************************************)
(* The workflow orchestrator of internal/service/agent_orchestrator.go:    *)
(* how a manual, cron, post-sync or command-line trigger becomes a run,    *)
(* what the run does to its workflow_runs row, its API key and its         *)
(* concurrency slot, and what a crash, a cancellation, a dead context or a *)
(* failed statement leaves of the three.                                   *)
(*                                                                         *)
(* A member of Run is one trigger with the goroutine that serves it, the   *)
(* row and the key it creates.  The sidecar is external: it exits with     *)
(* some result.  Each run that is charged costs one unit.                  *)
(***************************************************************************)
EXTENDS Integers, FiniteSets

CONSTANTS Run,            \* triggers, each used once
          Def,            \* workflow definitions
          NoDef,          \* the trigger has not come yet
          MaxConcurrent,  \* capacity of the server's semaphore
          Ceiling,        \* household spend ceiling
          DbFails,        \* a database statement may fail on a live context
          MaxCrashes      \* bound: crashes of the server process

ASSUME AgentAssumption ==
  /\ IsFiniteSet(Run) /\ NoDef \notin Def
  /\ MaxConcurrent \in Nat \ {0} /\ Ceiling \in Nat \ {0}
  /\ DbFails \in BOOLEAN /\ MaxCrashes \in Nat

VARIABLES
  \* workflow_runs and api_keys
  row,        \* status of the run's row, "none" before the insert
  age,        \* of row and key: 0 within PostSyncDebounceWindow, 2 past the hour
  charged,    \* runs whose row carries a cost
  key,        \* the run's API key
  \* the server
  up, crashes,
  slots,      \* tokens in Orchestrator.sem
  inFlight,   \* Orchestrator.inFlight
  \* locals of the runs
  pc,         \* where the run is
  kind,       \* who triggered it
  def,        \* the definition it runs
  ctx,        \* its context: "live", "cancelled" or "expired"
  result,     \* what the sidecar returned
  \* history
  unwritten,  \* runs whose last row update failed or was never reached
  lost,       \* keys whose revocation failed or was never reached
  asked       \* runs for which CancelRun returned true

dbVars   == <<row, age, charged, key>>
srvVars  == <<up, crashes, slots, inFlight>>
runVars  == <<pc, kind, def, ctx, result>>
histVars == <<unwritten, lost, asked>>
vars     == <<dbVars, srvVars, runVars, histVars>>

Kind     == {"async", "cron", "webhook", "cli"}
Result   == {"success", "error", "timeout"}
Terminal == Result \cup {"cancelled", "skipped"}

Stage == {"idle", "ceiling", "acquire", "skip", "skipmark", "create", "mint",
          "assemble", "spawned", "running", "complete", "markerr", "revoke",
          "recover", "release", "unregister", "ended", "leaked"}

\* The goroutine of a run is past Acquire and has its Release before it.
Holding == {"create", "mint", "assemble", "spawned", "running", "complete",
            "markerr", "revoke", "recover", "release"}

\* Before the run has a row.
Early == {"idle", "ceiling", "acquire", "skip", "create"}

Server(r) == kind[r] # "cli"
Goto(r, stage) == pc' = [pc EXCEPT ![r] = stage]

\* A statement on the context of the run can fail; on a dead one it must.
Fails(r) == ctx[r] # "live" \/ DbFails
Works(r) == ctx[r] = "live"

\* HouseholdCostSince: skipped rows carry no cost.
Spent == Cardinality(charged)

\* RecentRunExistsForDefinition
RecentRun(d) ==
  \E r \in Run : def[r] = d /\ age[r] = 0 /\ row[r] \notin {"none", "skipped"}

\* The locals of finished runs are gone.
Forget(S) ==
  /\ ctx' = [r \in Run |-> IF r \in S THEN "live" ELSE ctx[r]]
  /\ result' = [r \in Run |-> IF r \in S THEN "error" ELSE result[r]]

-----------------------------------------------------------------------------
Init ==
  /\ row = [r \in Run |-> "none"]
  /\ age = [r \in Run |-> 0]
  /\ charged = {}
  /\ key = [r \in Run |-> "none"]
  /\ up = TRUE
  /\ crashes = 0
  /\ slots = 0
  /\ inFlight = {}
  /\ pc = [r \in Run |-> "idle"]
  /\ kind = [r \in Run |-> "cron"]
  /\ def = [r \in Run |-> NoDef]
  /\ ctx = [r \in Run |-> "live"]
  /\ result = [r \in Run |-> "error"]
  /\ unwritten = {}
  /\ lost = {}
  /\ asked = {}

-----------------------------------------------------------------------------
(* Triggers                                                                *)

\* A trigger of kind k for definition d reaches the orchestrator.
Begin(r, k, d) ==
  /\ pc[r] = "idle"
  /\ kind' = [kind EXCEPT ![r] = k]
  /\ def' = [def EXCEPT ![r] = d]
  /\ Goto(r, "ceiling")
  /\ UNCHANGED <<dbVars, srvVars, ctx, result, histVars>>

\* The admin page or the REST API: RunNowAsyncWith.
RunNowAsync(r, d) == up /\ Begin(r, "async", d)

\* The cron entry of an enabled definition outside its quiet hours: RunOrSkip.
CronFires(r, d) == up /\ Begin(r, "cron", d)

\* FireSyncCompleteAgents, for one definition: a recent run of it debounces the
\* trigger without a trace, an error of that query does not.
SyncCompletes(r, d) ==
  /\ up
  /\ ~RecentRun(d) \/ DbFails
  /\ Begin(r, "webhook", d)

\* breadbox agent run: a process of its own, with a semaphore of its own.
CliRun(r, d) == Begin(r, "cli", d)

-----------------------------------------------------------------------------
(* Ceiling, slot, and the rows of missed fires                             *)

\* Scheduled triggers leave a row behind when they are turned away.
TurnedAway(r) == IF kind[r] \in {"cron", "webhook"} THEN "skip" ELSE "ended"

\* checkHouseholdCeiling: a failed query lets the run through.
CheckCeiling(r) ==
  /\ pc[r] = "ceiling"
  /\ \/ Works(r) /\ Goto(r, IF Spent < Ceiling THEN "acquire" ELSE TurnedAway(r))
     \/ Fails(r) /\ Goto(r, "acquire")
  /\ UNCHANGED <<dbVars, srvVars, kind, def, ctx, result, histVars>>

\* Mutant of Acquire: the semaphore is not asked.
AcquireUnchecked(r) ==
  /\ pc[r] = "acquire"
  /\ Goto(r, "create")
  /\ slots' = IF Server(r) THEN slots + 1 ELSE slots
  /\ UNCHANGED <<dbVars, up, crashes, inFlight, kind, def, ctx, result, histVars>>

\* Semaphore.Acquire does not wait.
Acquire(r) ==
  /\ pc[r] = "acquire"
  /\ IF ~Server(r) THEN Goto(r, "create") /\ UNCHANGED slots
     ELSE IF slots < MaxConcurrent THEN Goto(r, "create") /\ slots' = slots + 1
     ELSE Goto(r, TurnedAway(r)) /\ UNCHANGED slots
  /\ UNCHANGED <<dbVars, up, crashes, inFlight, kind, def, ctx, result, histVars>>

\* CreateAgentRunDB inserts an in_progress row, that of a missed fire too.  The
\* insert can report an error although the row exists.
InsertRow(r, next, failed) ==
  /\ \/ Works(r) /\ row' = [row EXCEPT ![r] = "in_progress"]
                 /\ Goto(r, next) /\ UNCHANGED unwritten
     \/ Fails(r) /\ Goto(r, failed) /\ UNCHANGED <<row, unwritten>>
     \/ Works(r) /\ DbFails /\ row' = [row EXCEPT ![r] = "in_progress"]
                 /\ Goto(r, failed) /\ unwritten' = unwritten \cup {r}
  /\ UNCHANGED <<age, charged, key, srvVars, kind, def, ctx, result, lost, asked>>

CreateSkippedRow(r) == pc[r] = "skip" /\ InsertRow(r, "skipmark", "ended")
CreateRow(r)        == pc[r] = "create" /\ InsertRow(r, "mint", "release")

\* An update of the row by its id, whatever its status is.
WriteRow(r, status, ok) ==
  \/ ok /\ row' = [row EXCEPT ![r] = status] /\ UNCHANGED unwritten
  \/ (~ok \/ DbFails) /\ unwritten' = unwritten \cup {r} /\ UNCHANGED row

\* Its error is ignored.
MarkSkipped(r) ==
  /\ pc[r] = "skipmark"
  /\ WriteRow(r, "skipped", Works(r))
  /\ Goto(r, "ended")
  /\ Forget({r})
  /\ UNCHANGED <<age, charged, key, srvVars, kind, def, lost, asked>>

-----------------------------------------------------------------------------
(* prepareRun and runLocked                                                *)

MintKey(r) ==
  /\ pc[r] = "mint"
  /\ Works(r)
  /\ key' = [key EXCEPT ![r] = "active"]
  /\ Goto(r, "assemble")
  /\ UNCHANGED <<row, age, charged, srvVars, kind, def, ctx, result, histVars>>

\* Mutant of MintKeyFails: the run gives up without marking its row.
MintKeyFailsSilently(r) ==
  /\ pc[r] = "mint"
  /\ Fails(r)
  /\ Goto(r, "release")
  /\ UNCHANGED <<dbVars, srvVars, kind, def, ctx, result, histVars>>

\* The insert reports an error; the key may exist, and nobody knows its id.
MintKeyFails(r) ==
  /\ pc[r] = "mint"
  /\ Fails(r)
  /\ \/ UNCHANGED <<key, lost>>
     \/ Works(r) /\ DbFails /\ key' = [key EXCEPT ![r] = "active"] /\ lost' = lost \cup {r}
  /\ Goto(r, "markerr")
  /\ UNCHANGED <<row, age, charged, srvVars, kind, def, ctx, result, unwritten, asked>>

\* AssembleJobSpec: an asynchronous run goes on in a goroutine with a context
\* of its own, the others call the sidecar themselves.
AssembleSpec(r) ==
  /\ pc[r] = "assemble"
  /\ Works(r)
  /\ IF kind[r] = "async" THEN Goto(r, "spawned") /\ ctx' = [ctx EXCEPT ![r] = "live"]
                          ELSE Goto(r, "running") /\ UNCHANGED ctx
  /\ UNCHANGED <<dbVars, srvVars, kind, def, result, histVars>>

\* No token, no binary, or a failed query.
AssembleSpecFails(r) ==
  /\ pc[r] = "assemble"
  /\ Goto(r, "markerr")
  /\ UNCHANGED <<dbVars, srvVars, kind, def, ctx, result, histVars>>

\* Mutant of AfterMarkError: the key minted before is forgotten.
AfterMarkErrorForgets(r) == "release"

\* Only a run that got its key revokes it.
AfterMarkError(r) == IF key[r] = "active" /\ r \notin lost THEN "revoke" ELSE "release"

\* Mutant of MarkError: it is repeated until the row is written.
MarkErrorRetries(r) ==
  /\ pc[r] = "markerr"
  /\ Works(r)
  /\ row' = [row EXCEPT ![r] = "error"]
  /\ Goto(r, AfterMarkError(r))
  /\ UNCHANGED <<age, charged, key, srvVars, kind, def, ctx, result, histVars>>

\* On the context that may have been what failed; its error is ignored.
MarkError(r) ==
  /\ pc[r] = "markerr"
  /\ WriteRow(r, "error", Works(r))
  /\ Goto(r, AfterMarkError(r))
  /\ UNCHANGED <<age, charged, key, srvVars, kind, def, ctx, result, lost, asked>>

RegisterInFlight(r) ==
  /\ pc[r] = "spawned"
  /\ inFlight' = inFlight \cup {r}
  /\ Goto(r, "running")
  /\ UNCHANGED <<dbVars, up, crashes, slots, kind, def, ctx, result, histVars>>

\* Mutant of Retag: any dead context counts as an operator's cancellation.
RetagAnyDead(r, s) == IF kind[r] = "async" /\ ctx[r] # "live" THEN "cancelled" ELSE s

\* An asynchronous run whose context was cancelled is not an error.
Retag(r, s) == IF kind[r] = "async" /\ ctx[r] = "cancelled" THEN "cancelled" ELSE s

\* Runner.Run returns.
SidecarExits(r) ==
  /\ pc[r] = "running"
  /\ \E s \in Result : /\ s = "timeout" => ctx[r] = "expired"
                       /\ result' = [result EXCEPT ![r] = Retag(r, s)]
  /\ Goto(r, "complete")
  /\ UNCHANGED <<dbVars, srvVars, kind, def, ctx, histVars>>

\* CompleteAgentRunDB on a fresh context: status and cost together.
Complete(r) ==
  /\ pc[r] = "complete"
  /\ \/ /\ row' = [row EXCEPT ![r] = result[r]]
        /\ charged' \in {charged, charged \cup {r}}
        /\ UNCHANGED unwritten
     \/ DbFails /\ unwritten' = unwritten \cup {r} /\ UNCHANGED <<row, charged>>
  /\ Goto(r, "revoke")
  /\ UNCHANGED <<age, key, srvVars, kind, def, ctx, result, lost, asked>>

\* A panic in an asynchronous run unwinds through the deferred revocation.
Panics(r) ==
  /\ pc[r] \in {"running", "complete"}
  /\ kind[r] = "async"
  /\ result' = [result EXCEPT ![r] = "panic"]
  /\ Goto(r, "revoke")
  /\ UNCHANGED <<dbVars, srvVars, kind, def, ctx, histVars>>

\* A panic of the request before it hands over to the goroutine: the middleware
\* recovers it and the server goes on, but nothing deferred gives back the slot,
\* revokes the key or closes the row.
PanicsPreparing(r) ==
  /\ pc[r] \in {"create", "mint", "assemble", "markerr", "revoke"}
  /\ kind[r] = "async" /\ r \notin inFlight
  /\ unwritten' = unwritten \cup {q \in {r} : row[q] = "in_progress"}
  /\ lost' = lost \cup {q \in {r} : key[q] = "active"}
  /\ Goto(r, "leaked")
  /\ Forget({r})
  /\ UNCHANGED <<dbVars, srvVars, kind, def, asked>>

\* The deferred RevokeAPIKey, on a fresh context; its error is logged.
Revoke(r) ==
  /\ pc[r] = "revoke"
  /\ \/ key' = [key EXCEPT ![r] = "revoked"] /\ UNCHANGED lost
     \/ DbFails /\ lost' = lost \cup {r} /\ UNCHANGED key
  /\ Goto(r, IF result[r] = "panic" THEN "recover" ELSE "release")
  /\ UNCHANGED <<row, age, charged, srvVars, kind, def, ctx, result, unwritten, asked>>

\* The recover block marks the row on a fresh context.
Recover(r) ==
  /\ pc[r] = "recover"
  /\ WriteRow(r, "error", TRUE)
  /\ Goto(r, "release")
  /\ UNCHANGED <<age, charged, key, srvVars, kind, def, ctx, result, lost, asked>>

\* Mutant of Release: a run whose preparation failed keeps its slot.
ReleaseAfterRunOnly(r) ==
  /\ pc[r] = "release"
  /\ slots' = IF Server(r) /\ key[r] # "none" THEN slots - 1 ELSE slots
  /\ Goto(r, IF r \in inFlight THEN "unregister" ELSE "ended")
  /\ Forget({r})
  /\ UNCHANGED <<dbVars, up, crashes, inFlight, kind, def, histVars>>

\* Semaphore.Release, deferred, or inline when prepareRun failed.
Release(r) ==
  /\ pc[r] = "release"
  /\ slots' = IF Server(r) /\ slots > 0 THEN slots - 1 ELSE slots
  /\ Goto(r, IF r \in inFlight THEN "unregister" ELSE "ended")
  /\ Forget({r})
  /\ UNCHANGED <<dbVars, up, crashes, inFlight, kind, def, histVars>>

UnregisterInFlight(r) ==
  /\ pc[r] = "unregister"
  /\ inFlight' = inFlight \ {r}
  /\ Goto(r, "ended")
  /\ UNCHANGED <<dbVars, up, crashes, slots, kind, def, ctx, result, histVars>>

-----------------------------------------------------------------------------
(* Cancellation, time, crashes                                             *)

\* CancelRun returns true; a context that has expired stays expired.
CancelRun(r) ==
  /\ up
  /\ r \in inFlight \ asked
  /\ asked' = asked \cup {r}
  /\ ctx' = [ctx EXCEPT ![r] = IF @ = "live" THEN "cancelled" ELSE @]
  /\ UNCHANGED <<dbVars, srvVars, pc, kind, def, result, unwritten, lost>>

\* A request is aborted while its run is prepared, a webhook run reaches its 10
\* minutes or an asynchronous one its 30.  Cron and command-line runs have no limit.
ContextExpires(r) ==
  /\ pc[r] \in {"ceiling", "acquire", "skip", "skipmark", "create", "mint",
               "assemble", "markerr", "running"}
  /\ kind[r] \in {"async", "webhook"}
  /\ ctx[r] = "live"
  /\ ctx' = [ctx EXCEPT ![r] = "expired"]
  /\ UNCHANGED <<dbVars, srvVars, pc, kind, def, result, histVars>>

\* The row leaves the debounce window, then a key still valid its hour of grace.
GrowOlder(r) ==
  /\ row[r] # "none"
  /\ age[r] = 0 \/ (age[r] = 1 /\ key[r] = "active")
  /\ age' = [age EXCEPT ![r] = @ + 1]
  /\ UNCHANGED <<row, charged, key, srvVars, runVars, histVars>>

\* Runs that stop where they are: what they had still to do is left undone.
Vanish(S) ==
  /\ pc' = [r \in Run |-> IF r \in S THEN "ended" ELSE pc[r]]
  /\ unwritten' = unwritten \cup {r \in S : row[r] = "in_progress"}
  /\ lost' = lost \cup {r \in S : key[r] = "active"}
  /\ Forget(S)

\* The server dies, or exits without waiting for its goroutines.
Crash ==
  /\ up
  /\ crashes < MaxCrashes
  /\ up' = FALSE
  /\ crashes' = crashes + 1
  /\ slots' = 0
  /\ inFlight' = {}
  /\ Vanish({r \in Run : Server(r) /\ pc[r] # "idle"})
  /\ UNCHANGED <<dbVars, kind, def, asked>>

CliDies(r) ==
  /\ pc[r] \notin {"idle", "ended"}
  /\ ~Server(r)
  /\ Vanish({r})
  /\ UNCHANGED <<dbVars, srvVars, kind, def, asked>>

\* Mutant of CleanupOrphanedAgentRuns: no WHERE status = 'in_progress'.
CleanupAllRuns ==
  /\ row' = [r \in Run |-> IF row[r] # "none" THEN "error" ELSE row[r]]
  /\ unwritten' = {}

\* Every open row, a command-line run's among them.
CleanupOrphanedAgentRuns ==
  /\ row' = [r \in Run |-> IF row[r] = "in_progress" THEN "error" ELSE row[r]]
  /\ unwritten' = {}

\* Keys that nobody revoked within the hour.
CleanupOrphanedAgentApiKeys ==
  key' = [r \in Run |-> IF key[r] = "active" /\ age[r] = 2 THEN "revoked" ELSE key[r]]

\* Startup sweeps rows and keys before anything can start a run.
Restart ==
  /\ ~up
  /\ up' = TRUE
  /\ \/ CleanupOrphanedAgentRuns
     \/ DbFails /\ UNCHANGED <<row, unwritten>>
  /\ CleanupOrphanedAgentApiKeys \/ (DbFails /\ UNCHANGED key)
  /\ UNCHANGED <<age, charged, crashes, slots, inFlight, runVars, lost, asked>>

-----------------------------------------------------------------------------
Trigger(r, d) ==
  RunNowAsync(r, d) \/ CronFires(r, d) \/ SyncCompletes(r, d) \/ CliRun(r, d)

RunStep(r) ==
  \/ CheckCeiling(r) \/ Acquire(r) \/ CreateSkippedRow(r) \/ MarkSkipped(r)
  \/ CreateRow(r) \/ MintKey(r) \/ MintKeyFails(r)
  \/ AssembleSpec(r) \/ AssembleSpecFails(r) \/ MarkError(r)
  \/ RegisterInFlight(r) \/ SidecarExits(r) \/ Complete(r) \/ Panics(r)
  \/ Revoke(r) \/ Recover(r) \/ Release(r) \/ UnregisterInFlight(r)

Outside(r) ==
  \/ CancelRun(r) \/ ContextExpires(r) \/ GrowOlder(r) \/ CliDies(r)
  \/ PanicsPreparing(r)

Next ==
  \/ \E r \in Run : RunStep(r) \/ Outside(r) \/ \E d \in Def : Trigger(r, d)
  \/ Crash
  \/ Restart

Spec == Init /\ [][Next]_vars

\* A goroutine that can run does run, the sidecar exits (a timeout of 10 or 30
\* minutes kills it, a cron run's own turn and budget caps end it), and a dead
\* server is started again.
Fairness == WF_vars(Restart) /\ \A r \in Run : WF_vars(RunStep(r))

FairSpec == Spec /\ Fairness

-----------------------------------------------------------------------------
(* Properties                                                              *)

\* Types; the slots in use never exceed the semaphore's capacity.
TypeOK ==
  /\ row \in [Run -> Terminal \cup {"none", "in_progress"}]
  /\ age \in [Run -> 0 .. 2]
  /\ charged \in SUBSET Run
  /\ key \in [Run -> {"none", "active", "revoked"}]
  /\ up \in BOOLEAN /\ crashes \in 0 .. MaxCrashes
  /\ slots \in 0 .. MaxConcurrent
  /\ inFlight \in SUBSET Run
  /\ pc \in [Run -> Stage]
  /\ kind \in [Run -> Kind]
  /\ def \in [Run -> Def \cup {NoDef}]
  /\ ctx \in [Run -> {"live", "cancelled", "expired"}]
  /\ result \in [Run -> Terminal \cup {"panic"}]
  /\ unwritten \in SUBSET Run /\ lost \in SUBSET Run /\ asked \in SUBSET Run

\* No slot is given back twice, and only a panic of the request that prepares a run
\* loses one, until the server restarts: the semaphore's tokens are the runs between
\* Acquire and Release and those that panicked there, and CancelRun can only reach
\* asynchronous runs whose goroutine is alive.
SlotInv ==
  /\ slots = Cardinality({r \in Run : Server(r) /\ pc[r] \in Holding \cup {"leaked"}})
  /\ \A r \in inFlight : /\ kind[r] = "async"
                         /\ pc[r] \in {"running", "complete", "revoke", "recover",
                                      "release", "unregister"}

\* A key is valid only under a run that will still revoke it, unless a crash or a
\* failed statement took that chance; a run of the server works under a valid key.
KeyInv ==
  \A r \in Run :
    /\ key[r] = "active" =>
         r \in lost \/ pc[r] \in {"assemble", "spawned", "running", "complete",
                                  "markerr", "revoke"}
    /\ pc[r] \in {"assemble", "spawned", "running", "complete"} /\ Server(r) =>
         key[r] = "active" /\ r \notin lost

\* History is truthful: a row says in_progress only while somebody will still
\* write its outcome, unless that update failed or was cut off, and a run of the
\* server that works has such a row.
RowInv ==
  \A r \in Run :
    /\ row[r] = "in_progress" =>
         \/ r \in unwritten
         \/ pc[r] \in {"skipmark", "mint", "assemble", "spawned", "running",
                       "complete", "markerr", "recover"}
         \/ pc[r] = "revoke" /\ result[r] = "panic"
    /\ pc[r] \in {"mint", "assemble", "spawned", "running", "complete"} /\ Server(r) =>
         row[r] = "in_progress"

\* What ties a stage to the rest: no server run outlives its server, rows and
\* keys appear in their stages only, and cancellations and panics are remembered
\* as such until the outcome is written.
StageInv ==
  /\ ~up => \A r \in Run : Server(r) => pc[r] \in {"idle", "ended"}
  /\ \A r \in Run :
       /\ pc[r] \in Early => row[r] = "none"
       /\ pc[r] \in Early \cup {"skipmark", "mint"} => key[r] = "none" /\ r \notin lost
       /\ pc[r] = "spawned" => kind[r] = "async"
       /\ Server(r) /\ pc[r] \in {"skipmark", "markerr", "recover"} =>
            row[r] = "in_progress"
       /\ result[r] = "panic" =>
            /\ pc[r] \in {"revoke", "recover", "release"}
            /\ Server(r) /\ pc[r] = "revoke" => row[r] = "in_progress"
       /\ ctx[r] = "cancelled" \/ result[r] = "cancelled" => r \in asked

\* A run is recorded as cancelled only if an operator cancelled it: timeouts,
\* aborted requests and panics are not passed off as a decision.
CancelledOnRequest == \A r \in Run : row[r] = "cancelled" => r \in asked

\* The inductive invariant.
AgentInv == SlotInv /\ KeyInv /\ RowInv /\ StageInv /\ CancelledOnRequest

\* An outcome once recorded stays: only a command-line run, whose row a restart
\* of the server swept away under it, is written a second time.
OutcomeStays ==
  [][\A r \in Run : row[r] \in Terminal /\ row'[r] # row[r] => ~Server(r)]_row

\* Every trigger comes to an end, and with it its slot comes back unless the
\* request that prepared it panicked: each comes once, so that all end is that again
\* and again none is under way.
RunsEnd == []<>(\A r \in Run : pc[r] \in {"idle", "ended", "leaked"})

-----------------------------------------------------------------------------
\* "N rapid syncs within the window coalesce to one run"
\* (internal/db/queries/agent_runs.sql): no two post-sync runs of a definition
\* succeed within the debounce window.
DebounceCoalesces ==
  \A r, s \in {x \in Run : kind[x] = "webhook" /\ row[x] = "success" /\ age[x] = 0} :
    def[r] = def[s] => r = s
=============================================================================

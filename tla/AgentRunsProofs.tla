--------------------------- MODULE AgentRunsProofs ---------------------------
(***************************************************************************)
(* Theorems about AgentRuns for every number of triggers, definitions,     *)
(* slots and crashes.  AgentInv is inductive together with TypeOK: SlotInv,*)
(* KeyInv and RowInv each say what a stage holds, StageInv ties the stages *)
(* together (no server run outlives its server, nothing exists before its  *)
(* stage), and no step can be followed without all of them.                *)
(***************************************************************************)
EXTENDS AgentRuns, FiniteSetTheorems, TLAPS

IndInv == TypeOK /\ AgentInv

\* The runs that hold a slot of the semaphore or lost it.
Holders == {r \in Run : Server(r) /\ pc[r] \in Holding \cup {"leaked"}}

\* What a step can do to the slots: nothing, take one, give one back, or all of
\* them at once when the server dies.
SlotMove ==
  \/ Holders' = Holders /\ slots' = slots
  \/ \E r \in Run \ Holders : Holders' = Holders \cup {r} /\ slots' = slots + 1
  \/ \E r \in Holders :
       Holders' = Holders \ {r} /\ slots' = IF slots > 0 THEN slots - 1 ELSE slots
  \/ Holders' = {} /\ slots' = 0

\* The second half of SlotInv.
InFlightInv ==
  \A r \in inFlight : /\ kind[r] = "async"
                      /\ pc[r] \in {"running", "complete", "revoke", "recover",
                                   "release", "unregister"}

\* A recorded outcome is left alone, a command-line run's excepted.
RowKept == \A r \in Run : row[r] \in Terminal /\ row'[r] # row[r] => ~Server(r)

-----------------------------------------------------------------------------
\* No step leaves the types.
LEMMA TypeStep == IndInv /\ [Next]_vars => TypeOK'
<1> SUFFICES ASSUME IndInv, [Next]_vars PROVE TypeOK'
  OBVIOUS
<1> USE AgentAssumption DEF IndInv, AgentInv, TypeOK, Stage, Terminal,
   Result, Kind, dbVars, srvVars, runVars, histVars, Goto, Server, Works,
   Fails
<1>1. ASSUME NEW r \in Run, NEW d \in Def, Trigger(r, d) PROVE TypeOK'
  <2>1. PICK k \in Kind : Begin(r, k, d) /\ (k # "cli" => up)
    BY <1>1 DEF Trigger, RunNowAsync, CronFires, SyncCompletes, CliRun, Kind
  <2> QED
    BY <2>1 DEF Begin
<1>2. ASSUME NEW r \in Run, RunStep(r) PROVE TypeOK'
  <2>1. CASE CheckCeiling(r)
    BY <2>1 DEF CheckCeiling, TurnedAway
  <2>2. CASE Acquire(r)
    BY <2>2 DEF Acquire, TurnedAway
  <2>3. CASE CreateSkippedRow(r)
    BY <2>3 DEF CreateSkippedRow, InsertRow
  <2>4. CASE MarkSkipped(r)
    BY <2>4 DEF MarkSkipped, WriteRow, Forget
  <2>5. CASE CreateRow(r)
    BY <2>5 DEF CreateRow, InsertRow
  <2>6. CASE MintKey(r)
    BY <2>6 DEF MintKey
  <2>7. CASE MintKeyFails(r)
    BY <2>7 DEF MintKeyFails
  <2>8. CASE AssembleSpec(r)
    BY <2>8 DEF AssembleSpec
  <2>9. CASE AssembleSpecFails(r)
    BY <2>9 DEF AssembleSpecFails
  <2>10. CASE MarkError(r)
    BY <2>10 DEF MarkError, WriteRow, AfterMarkError
  <2>11. CASE RegisterInFlight(r)
    BY <2>11 DEF RegisterInFlight
  <2>12. CASE SidecarExits(r)
    BY <2>12 DEF SidecarExits, Retag
  <2>13. CASE Complete(r)
    BY <2>13 DEF Complete, StageInv
  <2>14. CASE Panics(r)
    BY <2>14 DEF Panics
  <2>15. CASE Revoke(r)
    BY <2>15 DEF Revoke
  <2>16. CASE Recover(r)
    BY <2>16 DEF Recover, WriteRow
  <2>17. CASE Release(r)
    BY <2>17 DEF Release, Forget
  <2>18. CASE UnregisterInFlight(r)
    BY <2>18 DEF UnregisterInFlight
  <2> QED
    BY <1>2, <2>1, <2>2, <2>3, <2>4, <2>5, <2>6, <2>7, <2>8, <2>9, <2>10,
       <2>11, <2>12, <2>13, <2>14, <2>15, <2>16, <2>17, <2>18 DEF RunStep
<1>3. ASSUME NEW r \in Run, Outside(r) PROVE TypeOK'
  <2>1. CASE CancelRun(r)
    BY <2>1 DEF CancelRun
  <2>2. CASE ContextExpires(r)
    BY <2>2 DEF ContextExpires
  <2>3. CASE GrowOlder(r)
    BY <2>3 DEF GrowOlder
  <2>4. CASE CliDies(r)
    BY <2>4 DEF CliDies, Vanish, Forget
  <2>5. CASE PanicsPreparing(r)
    BY <2>5 DEF PanicsPreparing, Forget
  <2> QED
    BY <1>3, <2>1, <2>2, <2>3, <2>4, <2>5 DEF Outside
<1>4. CASE Crash
  <2>1. pc' \in [Run -> Stage]
    BY <1>4 DEF Crash, Vanish, TypeOK, Stage
  <2>2. unwritten' \in SUBSET Run /\ lost' \in SUBSET Run
    BY <1>4 DEF Crash, Vanish, TypeOK
  <2>3. /\ ctx' \in [Run -> {"live", "cancelled", "expired"}]
        /\ result' \in [Run -> Terminal \cup {"panic"}]
    BY <1>4 DEF Crash, Vanish, Forget, TypeOK, Terminal, Result
  <2>4. up' \in BOOLEAN /\ crashes' \in 0 .. MaxCrashes /\ slots' \in 0 .. MaxConcurrent
    <3>1. up' = FALSE /\ crashes < MaxCrashes /\ crashes' = crashes + 1 /\ slots' = 0
      BY <1>4, Zenon DEF Crash
    <3>2. crashes \in 0 .. MaxCrashes
      BY DEF TypeOK
    <3>3. up' \in BOOLEAN
      BY <3>1, Zenon
    <3>4. crashes' \in 0 .. MaxCrashes /\ slots' \in 0 .. MaxConcurrent
      BY <3>1, <3>2
    <3> QED
      BY <3>3, <3>4, Zenon
  <2> QED
    BY <1>4, <2>1, <2>2, <2>3, <2>4 DEF Crash, TypeOK, dbVars
<1>5. CASE Restart
  BY <1>5 DEF Restart, CleanupOrphanedAgentRuns, CleanupOrphanedAgentApiKeys
<1>6. CASE UNCHANGED vars
  BY <1>6 DEF vars
<1> QED
  BY <1>1, <1>2, <1>3, <1>4, <1>5, <1>6 DEF Next

\* No step breaks the tie between stages, rows, keys and cancellations.
LEMMA StageStep == IndInv /\ [Next]_vars => StageInv'
<1> SUFFICES ASSUME IndInv, [Next]_vars PROVE StageInv'
  OBVIOUS
<1> USE AgentAssumption DEF IndInv, AgentInv, StageInv, TypeOK, Early,
   Terminal, Result, dbVars, srvVars, runVars, histVars, Goto, Server,
   Works, Fails
<1>1. ASSUME NEW r \in Run, NEW d \in Def, Trigger(r, d) PROVE StageInv'
  <2>1. PICK k \in Kind : Begin(r, k, d) /\ (k # "cli" => up)
    BY <1>1 DEF Trigger, RunNowAsync, CronFires, SyncCompletes, CliRun, Kind
  <2> QED
    BY <2>1 DEF Begin
<1>2. ASSUME NEW r \in Run, RunStep(r) PROVE StageInv'
  <2>1. CASE CheckCeiling(r)
    BY <2>1 DEF CheckCeiling, TurnedAway
  <2>2. CASE Acquire(r)
    BY <2>2 DEF Acquire, TurnedAway
  <2>3. CASE CreateSkippedRow(r)
    BY <2>3 DEF CreateSkippedRow, InsertRow
  <2>4. CASE MarkSkipped(r)
    BY <2>4 DEF MarkSkipped, WriteRow, Forget
  <2>5. CASE CreateRow(r)
    BY <2>5 DEF CreateRow, InsertRow
  <2>6. CASE MintKey(r)
    BY <2>6 DEF MintKey
  <2>7. CASE MintKeyFails(r)
    BY <2>7 DEF MintKeyFails, RowInv, KeyInv
  <2>8. CASE AssembleSpec(r)
    BY <2>8 DEF AssembleSpec
  <2>9. CASE AssembleSpecFails(r)
    BY <2>9 DEF AssembleSpecFails, RowInv, KeyInv
  <2>10. CASE MarkError(r)
    BY <2>10 DEF MarkError, WriteRow, AfterMarkError
  <2>11. CASE RegisterInFlight(r)
    BY <2>11 DEF RegisterInFlight
  <2>12. CASE SidecarExits(r)
    BY <2>12 DEF SidecarExits, Retag
  <2>13. CASE Complete(r)
    BY <2>13 DEF Complete, RowInv, KeyInv
  <2>14. CASE Panics(r)
    BY <2>14 DEF Panics, RowInv, KeyInv
  <2>15. CASE Revoke(r)
    BY <2>15 DEF Revoke
  <2>16. CASE Recover(r)
    BY <2>16 DEF Recover, WriteRow
  <2>17. CASE Release(r)
    BY <2>17 DEF Release, Forget
  <2>18. CASE UnregisterInFlight(r)
    BY <2>18 DEF UnregisterInFlight
  <2> QED
    BY <1>2, <2>1, <2>2, <2>3, <2>4, <2>5, <2>6, <2>7, <2>8, <2>9, <2>10,
       <2>11, <2>12, <2>13, <2>14, <2>15, <2>16, <2>17, <2>18 DEF RunStep
<1>3. ASSUME NEW r \in Run, Outside(r) PROVE StageInv'
  <2>1. CASE CancelRun(r)
    BY <2>1 DEF CancelRun
  <2>2. CASE ContextExpires(r)
    BY <2>2 DEF ContextExpires
  <2>3. CASE GrowOlder(r)
    BY <2>3 DEF GrowOlder
  <2>4. CASE CliDies(r)
    BY <2>4 DEF CliDies, Vanish, Forget
  <2>5. CASE PanicsPreparing(r)
    BY <2>5 DEF PanicsPreparing, Forget
  <2> QED
    BY <1>3, <2>1, <2>2, <2>3, <2>4, <2>5 DEF Outside
<1>4. CASE Crash
  BY <1>4 DEF Crash, Vanish, Forget
<1>5. CASE Restart
  BY <1>5 DEF Restart, CleanupOrphanedAgentRuns, CleanupOrphanedAgentApiKeys
<1>6. CASE UNCHANGED vars
  BY <1>6 DEF vars
<1> QED
  BY <1>1, <1>2, <1>3, <1>4, <1>5, <1>6 DEF Next

\* No step loses sight of a valid key.
LEMMA KeyStep == IndInv /\ [Next]_vars => KeyInv'
<1> SUFFICES ASSUME IndInv, [Next]_vars PROVE KeyInv'
  OBVIOUS
<1> USE AgentAssumption DEF IndInv, AgentInv, KeyInv, StageInv, TypeOK,
   Early, dbVars, srvVars, runVars, histVars, Goto, Server, Works, Fails
<1>1. ASSUME NEW r \in Run, NEW d \in Def, Trigger(r, d) PROVE KeyInv'
  <2>1. PICK k \in Kind : Begin(r, k, d) /\ (k # "cli" => up)
    BY <1>1 DEF Trigger, RunNowAsync, CronFires, SyncCompletes, CliRun, Kind
  <2> QED
    BY <2>1 DEF Begin
<1>2. ASSUME NEW r \in Run, RunStep(r) PROVE KeyInv'
  <2>1. CASE CheckCeiling(r)
    BY <2>1 DEF CheckCeiling, TurnedAway
  <2>2. CASE Acquire(r)
    BY <2>2 DEF Acquire, TurnedAway
  <2>3. CASE CreateSkippedRow(r)
    BY <2>3 DEF CreateSkippedRow, InsertRow
  <2>4. CASE MarkSkipped(r)
    BY <2>4 DEF MarkSkipped, WriteRow, Forget
  <2>5. CASE CreateRow(r)
    BY <2>5 DEF CreateRow, InsertRow
  <2>6. CASE MintKey(r)
    BY <2>6 DEF MintKey
  <2>7. CASE MintKeyFails(r)
    BY <2>7 DEF MintKeyFails
  <2>8. CASE AssembleSpec(r)
    BY <2>8 DEF AssembleSpec
  <2>9. CASE AssembleSpecFails(r)
    BY <2>9 DEF AssembleSpecFails
  <2>10. CASE MarkError(r)
    BY <2>10 DEF MarkError, WriteRow, AfterMarkError
  <2>11. CASE RegisterInFlight(r)
    BY <2>11 DEF RegisterInFlight
  <2>12. CASE SidecarExits(r)
    BY <2>12 DEF SidecarExits, Retag
  <2>13. CASE Complete(r)
    BY <2>13 DEF Complete
  <2>14. CASE Panics(r)
    BY <2>14 DEF Panics
  <2>15. CASE Revoke(r)
    BY <2>15 DEF Revoke
  <2>16. CASE Recover(r)
    BY <2>16 DEF Recover, WriteRow
  <2>17. CASE Release(r)
    BY <2>17 DEF Release, Forget
  <2>18. CASE UnregisterInFlight(r)
    BY <2>18 DEF UnregisterInFlight
  <2> QED
    BY <1>2, <2>1, <2>2, <2>3, <2>4, <2>5, <2>6, <2>7, <2>8, <2>9, <2>10,
       <2>11, <2>12, <2>13, <2>14, <2>15, <2>16, <2>17, <2>18 DEF RunStep
<1>3. ASSUME NEW r \in Run, Outside(r) PROVE KeyInv'
  <2>1. CASE CancelRun(r)
    BY <2>1 DEF CancelRun
  <2>2. CASE ContextExpires(r)
    BY <2>2 DEF ContextExpires
  <2>3. CASE GrowOlder(r)
    BY <2>3 DEF GrowOlder
  <2>4. CASE CliDies(r)
    BY <2>4 DEF CliDies, Vanish, Forget
  <2>5. CASE PanicsPreparing(r)
    BY <2>5 DEF PanicsPreparing, Forget
  <2> QED
    BY <1>3, <2>1, <2>2, <2>3, <2>4, <2>5 DEF Outside
<1>4. CASE Crash
  BY <1>4 DEF Crash, Vanish, Forget
<1>5. CASE Restart
  BY <1>5 DEF Restart, CleanupOrphanedAgentRuns, CleanupOrphanedAgentApiKeys
<1>6. CASE UNCHANGED vars
  BY <1>6 DEF vars
<1> QED
  BY <1>1, <1>2, <1>3, <1>4, <1>5, <1>6 DEF Next

\* No step abandons an open row without a trace.
LEMMA RowStep == IndInv /\ [Next]_vars => RowInv'
<1> SUFFICES ASSUME IndInv, [Next]_vars PROVE RowInv'
  OBVIOUS
<1> USE AgentAssumption DEF IndInv, AgentInv, RowInv, StageInv, TypeOK,
   Early, Terminal, Result, dbVars, srvVars, runVars, histVars, Goto,
   Server, Works, Fails
<1>1. ASSUME NEW r \in Run, NEW d \in Def, Trigger(r, d) PROVE RowInv'
  <2>1. PICK k \in Kind : Begin(r, k, d) /\ (k # "cli" => up)
    BY <1>1 DEF Trigger, RunNowAsync, CronFires, SyncCompletes, CliRun, Kind
  <2> QED
    BY <2>1 DEF Begin
<1>2. ASSUME NEW r \in Run, RunStep(r) PROVE RowInv'
  <2>1. CASE CheckCeiling(r)
    BY <2>1 DEF CheckCeiling, TurnedAway
  <2>2. CASE Acquire(r)
    BY <2>2 DEF Acquire, TurnedAway
  <2>3. CASE CreateSkippedRow(r)
    BY <2>3 DEF CreateSkippedRow, InsertRow
  <2>4. CASE MarkSkipped(r)
    BY <2>4 DEF MarkSkipped, WriteRow, Forget
  <2>5. CASE CreateRow(r)
    BY <2>5 DEF CreateRow, InsertRow
  <2>6. CASE MintKey(r)
    BY <2>6 DEF MintKey
  <2>7. CASE MintKeyFails(r)
    BY <2>7 DEF MintKeyFails
  <2>8. CASE AssembleSpec(r)
    BY <2>8 DEF AssembleSpec
  <2>9. CASE AssembleSpecFails(r)
    BY <2>9 DEF AssembleSpecFails
  <2>10. CASE MarkError(r)
    BY <2>10 DEF MarkError, WriteRow, AfterMarkError
  <2>11. CASE RegisterInFlight(r)
    BY <2>11 DEF RegisterInFlight
  <2>12. CASE SidecarExits(r)
    BY <2>12 DEF SidecarExits, Retag
  <2>13. CASE Complete(r)
    BY <2>13 DEF Complete
  <2>14. CASE Panics(r)
    BY <2>14 DEF Panics
  <2>15. CASE Revoke(r)
    BY <2>15 DEF Revoke
  <2>16. CASE Recover(r)
    BY <2>16 DEF Recover, WriteRow
  <2>17. CASE Release(r)
    BY <2>17 DEF Release, Forget
  <2>18. CASE UnregisterInFlight(r)
    BY <2>18 DEF UnregisterInFlight
  <2> QED
    BY <1>2, <2>1, <2>2, <2>3, <2>4, <2>5, <2>6, <2>7, <2>8, <2>9, <2>10,
       <2>11, <2>12, <2>13, <2>14, <2>15, <2>16, <2>17, <2>18 DEF RunStep
<1>3. ASSUME NEW r \in Run, Outside(r) PROVE RowInv'
  <2>1. CASE CancelRun(r)
    BY <2>1 DEF CancelRun
  <2>2. CASE ContextExpires(r)
    BY <2>2 DEF ContextExpires
  <2>3. CASE GrowOlder(r)
    BY <2>3 DEF GrowOlder
  <2>4. CASE CliDies(r)
    BY <2>4 DEF CliDies, Vanish, Forget
  <2>5. CASE PanicsPreparing(r)
    BY <2>5 DEF PanicsPreparing, Forget
  <2> QED
    BY <1>3, <2>1, <2>2, <2>3, <2>4, <2>5 DEF Outside
<1>4. CASE Crash
  BY <1>4 DEF Crash, Vanish, Forget
<1>5. CASE Restart
  BY <1>5 DEF Restart, CleanupOrphanedAgentRuns, CleanupOrphanedAgentApiKeys
<1>6. CASE UNCHANGED vars
  BY <1>6 DEF vars
<1> QED
  BY <1>1, <1>2, <1>3, <1>4, <1>5, <1>6 DEF Next

\* No step records a cancellation nobody asked for.
LEMMA CancelStep == IndInv /\ [Next]_vars => CancelledOnRequest'
<1> SUFFICES ASSUME IndInv, [Next]_vars PROVE CancelledOnRequest'
  OBVIOUS
<1> USE AgentAssumption DEF IndInv, AgentInv, CancelledOnRequest, StageInv,
   TypeOK, Terminal, Result, dbVars, srvVars, runVars, histVars, Goto,
   Server, Works, Fails
<1>1. ASSUME NEW r \in Run, NEW d \in Def, Trigger(r, d) PROVE CancelledOnRequest'
  <2>1. PICK k \in Kind : Begin(r, k, d) /\ (k # "cli" => up)
    BY <1>1 DEF Trigger, RunNowAsync, CronFires, SyncCompletes, CliRun, Kind
  <2> QED
    BY <2>1 DEF Begin
<1>2. ASSUME NEW r \in Run, RunStep(r) PROVE CancelledOnRequest'
  <2>1. CASE CheckCeiling(r)
    BY <2>1 DEF CheckCeiling, TurnedAway
  <2>2. CASE Acquire(r)
    BY <2>2 DEF Acquire, TurnedAway
  <2>3. CASE CreateSkippedRow(r)
    BY <2>3 DEF CreateSkippedRow, InsertRow
  <2>4. CASE MarkSkipped(r)
    BY <2>4 DEF MarkSkipped, WriteRow, Forget
  <2>5. CASE CreateRow(r)
    BY <2>5 DEF CreateRow, InsertRow
  <2>6. CASE MintKey(r)
    BY <2>6 DEF MintKey
  <2>7. CASE MintKeyFails(r)
    BY <2>7 DEF MintKeyFails
  <2>8. CASE AssembleSpec(r)
    BY <2>8 DEF AssembleSpec
  <2>9. CASE AssembleSpecFails(r)
    BY <2>9 DEF AssembleSpecFails
  <2>10. CASE MarkError(r)
    BY <2>10 DEF MarkError, WriteRow, AfterMarkError
  <2>11. CASE RegisterInFlight(r)
    BY <2>11 DEF RegisterInFlight
  <2>12. CASE SidecarExits(r)
    BY <2>12 DEF SidecarExits, Retag
  <2>13. CASE Complete(r)
    BY <2>13 DEF Complete
  <2>14. CASE Panics(r)
    BY <2>14 DEF Panics
  <2>15. CASE Revoke(r)
    BY <2>15 DEF Revoke
  <2>16. CASE Recover(r)
    BY <2>16 DEF Recover, WriteRow
  <2>17. CASE Release(r)
    BY <2>17 DEF Release, Forget
  <2>18. CASE UnregisterInFlight(r)
    BY <2>18 DEF UnregisterInFlight
  <2> QED
    BY <1>2, <2>1, <2>2, <2>3, <2>4, <2>5, <2>6, <2>7, <2>8, <2>9, <2>10,
       <2>11, <2>12, <2>13, <2>14, <2>15, <2>16, <2>17, <2>18 DEF RunStep
<1>3. ASSUME NEW r \in Run, Outside(r) PROVE CancelledOnRequest'
  <2>1. CASE CancelRun(r)
    BY <2>1 DEF CancelRun
  <2>2. CASE ContextExpires(r)
    BY <2>2 DEF ContextExpires
  <2>3. CASE GrowOlder(r)
    BY <2>3 DEF GrowOlder
  <2>4. CASE CliDies(r)
    BY <2>4 DEF CliDies, Vanish, Forget
  <2>5. CASE PanicsPreparing(r)
    BY <2>5 DEF PanicsPreparing, Forget
  <2> QED
    BY <1>3, <2>1, <2>2, <2>3, <2>4, <2>5 DEF Outside
<1>4. CASE Crash
  BY <1>4 DEF Crash, Vanish, Forget
<1>5. CASE Restart
  BY <1>5 DEF Restart, CleanupOrphanedAgentRuns, CleanupOrphanedAgentApiKeys
<1>6. CASE UNCHANGED vars
  BY <1>6 DEF vars
<1> QED
  BY <1>1, <1>2, <1>3, <1>4, <1>5, <1>6 DEF Next

\* The runs that hold a slot and the tokens in the semaphore move together.
LEMMA HoldersStep == IndInv /\ [Next]_vars => SlotMove
<1> SUFFICES ASSUME IndInv, [Next]_vars PROVE SlotMove
  OBVIOUS
<1> USE AgentAssumption DEF IndInv, AgentInv, SlotMove, Holders, Holding,
   StageInv, TypeOK, dbVars, srvVars, runVars, histVars, Goto, Server,
   Works, Fails
<1>1. ASSUME NEW r \in Run, NEW d \in Def, Trigger(r, d) PROVE SlotMove
  <2>1. PICK k \in Kind : Begin(r, k, d) /\ (k # "cli" => up)
    BY <1>1 DEF Trigger, RunNowAsync, CronFires, SyncCompletes, CliRun, Kind
  <2> QED
    BY <2>1 DEF Begin
<1>2. ASSUME NEW r \in Run, RunStep(r) PROVE SlotMove
  <2>1. CASE CheckCeiling(r)
    BY <2>1 DEF CheckCeiling, TurnedAway
  <2>2. CASE Acquire(r)
    BY <2>2 DEF Acquire, TurnedAway, Kind
  <2>3. CASE CreateSkippedRow(r)
    BY <2>3 DEF CreateSkippedRow, InsertRow
  <2>4. CASE MarkSkipped(r)
    BY <2>4 DEF MarkSkipped, WriteRow, Forget
  <2>5. CASE CreateRow(r)
    BY <2>5 DEF CreateRow, InsertRow
  <2>6. CASE MintKey(r)
    BY <2>6 DEF MintKey
  <2>7. CASE MintKeyFails(r)
    BY <2>7 DEF MintKeyFails
  <2>8. CASE AssembleSpec(r)
    BY <2>8 DEF AssembleSpec
  <2>9. CASE AssembleSpecFails(r)
    BY <2>9 DEF AssembleSpecFails
  <2>10. CASE MarkError(r)
    BY <2>10 DEF MarkError, WriteRow, AfterMarkError
  <2>11. CASE RegisterInFlight(r)
    BY <2>11 DEF RegisterInFlight
  <2>12. CASE SidecarExits(r)
    BY <2>12 DEF SidecarExits, Retag
  <2>13. CASE Complete(r)
    BY <2>13 DEF Complete
  <2>14. CASE Panics(r)
    BY <2>14 DEF Panics
  <2>15. CASE Revoke(r)
    BY <2>15 DEF Revoke
  <2>16. CASE Recover(r)
    BY <2>16 DEF Recover, WriteRow
  <2>17. CASE Release(r)
    BY <2>17 DEF Release, Forget
  <2>18. CASE UnregisterInFlight(r)
    BY <2>18 DEF UnregisterInFlight
  <2> QED
    BY <1>2, <2>1, <2>2, <2>3, <2>4, <2>5, <2>6, <2>7, <2>8, <2>9, <2>10,
       <2>11, <2>12, <2>13, <2>14, <2>15, <2>16, <2>17, <2>18 DEF RunStep
<1>3. ASSUME NEW r \in Run, Outside(r) PROVE SlotMove
  <2>1. CASE CancelRun(r)
    BY <2>1 DEF CancelRun
  <2>2. CASE ContextExpires(r)
    BY <2>2 DEF ContextExpires
  <2>3. CASE GrowOlder(r)
    BY <2>3 DEF GrowOlder
  <2>4. CASE CliDies(r)
    BY <2>4 DEF CliDies, Vanish, Forget
  <2>5. CASE PanicsPreparing(r)
    BY <2>5 DEF PanicsPreparing, Forget
  <2> QED
    BY <1>3, <2>1, <2>2, <2>3, <2>4, <2>5 DEF Outside
<1>4. CASE Crash
  BY <1>4 DEF Crash, Vanish, Forget
<1>5. CASE Restart
  BY <1>5 DEF Restart, CleanupOrphanedAgentRuns, CleanupOrphanedAgentApiKeys
<1>6. CASE UNCHANGED vars
  BY <1>6 DEF vars
<1> QED
  BY <1>1, <1>2, <1>3, <1>4, <1>5, <1>6 DEF Next

\* Only a live asynchronous run is registered for cancellation.
LEMMA InFlightStep == IndInv /\ [Next]_vars => InFlightInv'
<1> SUFFICES ASSUME IndInv, [Next]_vars PROVE InFlightInv'
  OBVIOUS
<1> USE AgentAssumption DEF IndInv, AgentInv, InFlightInv, SlotInv, TypeOK,
   dbVars, srvVars, runVars, histVars, Goto, Server, Works, Fails
<1>1. ASSUME NEW r \in Run, NEW d \in Def, Trigger(r, d) PROVE InFlightInv'
  <2>1. PICK k \in Kind : Begin(r, k, d) /\ (k # "cli" => up)
    BY <1>1 DEF Trigger, RunNowAsync, CronFires, SyncCompletes, CliRun, Kind
  <2> QED
    BY <2>1 DEF Begin
<1>2. ASSUME NEW r \in Run, RunStep(r) PROVE InFlightInv'
  <2>1. CASE CheckCeiling(r)
    BY <2>1 DEF CheckCeiling, TurnedAway
  <2>2. CASE Acquire(r)
    BY <2>2 DEF Acquire, TurnedAway
  <2>3. CASE CreateSkippedRow(r)
    BY <2>3 DEF CreateSkippedRow, InsertRow
  <2>4. CASE MarkSkipped(r)
    BY <2>4 DEF MarkSkipped, WriteRow, Forget
  <2>5. CASE CreateRow(r)
    BY <2>5 DEF CreateRow, InsertRow
  <2>6. CASE MintKey(r)
    BY <2>6 DEF MintKey
  <2>7. CASE MintKeyFails(r)
    BY <2>7 DEF MintKeyFails
  <2>8. CASE AssembleSpec(r)
    BY <2>8 DEF AssembleSpec
  <2>9. CASE AssembleSpecFails(r)
    BY <2>9 DEF AssembleSpecFails
  <2>10. CASE MarkError(r)
    BY <2>10 DEF MarkError, WriteRow, AfterMarkError
  <2>11. CASE RegisterInFlight(r)
    BY <2>11 DEF RegisterInFlight, StageInv
  <2>12. CASE SidecarExits(r)
    BY <2>12 DEF SidecarExits, Retag
  <2>13. CASE Complete(r)
    BY <2>13 DEF Complete
  <2>14. CASE Panics(r)
    BY <2>14 DEF Panics
  <2>15. CASE Revoke(r)
    BY <2>15 DEF Revoke
  <2>16. CASE Recover(r)
    BY <2>16 DEF Recover, WriteRow
  <2>17. CASE Release(r)
    BY <2>17 DEF Release, Forget
  <2>18. CASE UnregisterInFlight(r)
    BY <2>18 DEF UnregisterInFlight
  <2> QED
    BY <1>2, <2>1, <2>2, <2>3, <2>4, <2>5, <2>6, <2>7, <2>8, <2>9, <2>10,
       <2>11, <2>12, <2>13, <2>14, <2>15, <2>16, <2>17, <2>18 DEF RunStep
<1>3. ASSUME NEW r \in Run, Outside(r) PROVE InFlightInv'
  <2>1. CASE CancelRun(r)
    BY <2>1 DEF CancelRun
  <2>2. CASE ContextExpires(r)
    BY <2>2 DEF ContextExpires
  <2>3. CASE GrowOlder(r)
    BY <2>3 DEF GrowOlder
  <2>4. CASE CliDies(r)
    BY <2>4 DEF CliDies, Vanish, Forget
  <2>5. CASE PanicsPreparing(r)
    BY <2>5 DEF PanicsPreparing, Forget
  <2> QED
    BY <1>3, <2>1, <2>2, <2>3, <2>4, <2>5 DEF Outside
<1>4. CASE Crash
  BY <1>4 DEF Crash, Vanish, Forget
<1>5. CASE Restart
  BY <1>5 DEF Restart, CleanupOrphanedAgentRuns, CleanupOrphanedAgentApiKeys
<1>6. CASE UNCHANGED vars
  BY <1>6 DEF vars
<1> QED
  BY <1>1, <1>2, <1>3, <1>4, <1>5, <1>6 DEF Next

\* Whoever writes a row finds it open, except under a swept command-line run.
LEMMA OutcomeStep == IndInv /\ [Next]_vars => RowKept
<1> SUFFICES ASSUME IndInv, [Next]_vars PROVE RowKept
  OBVIOUS
<1> USE AgentAssumption DEF IndInv, AgentInv, RowKept, RowInv, StageInv,
   TypeOK, Terminal, Result, Early, dbVars, srvVars, runVars, histVars,
   Goto, Server, Works, Fails
<1>1. ASSUME NEW r \in Run, NEW d \in Def, Trigger(r, d) PROVE RowKept
  <2>1. PICK k \in Kind : Begin(r, k, d) /\ (k # "cli" => up)
    BY <1>1 DEF Trigger, RunNowAsync, CronFires, SyncCompletes, CliRun, Kind
  <2> QED
    BY <2>1 DEF Begin
<1>2. ASSUME NEW r \in Run, RunStep(r) PROVE RowKept
  <2>1. CASE CheckCeiling(r)
    BY <2>1 DEF CheckCeiling, TurnedAway
  <2>2. CASE Acquire(r)
    BY <2>2 DEF Acquire, TurnedAway
  <2>3. CASE CreateSkippedRow(r)
    BY <2>3 DEF CreateSkippedRow, InsertRow
  <2>4. CASE MarkSkipped(r)
    BY <2>4 DEF MarkSkipped, WriteRow, Forget
  <2>5. CASE CreateRow(r)
    BY <2>5 DEF CreateRow, InsertRow
  <2>6. CASE MintKey(r)
    BY <2>6 DEF MintKey
  <2>7. CASE MintKeyFails(r)
    BY <2>7 DEF MintKeyFails
  <2>8. CASE AssembleSpec(r)
    BY <2>8 DEF AssembleSpec
  <2>9. CASE AssembleSpecFails(r)
    BY <2>9 DEF AssembleSpecFails
  <2>10. CASE MarkError(r)
    BY <2>10 DEF MarkError, WriteRow, AfterMarkError
  <2>11. CASE RegisterInFlight(r)
    BY <2>11 DEF RegisterInFlight
  <2>12. CASE SidecarExits(r)
    BY <2>12 DEF SidecarExits, Retag
  <2>13. CASE Complete(r)
    BY <2>13 DEF Complete
  <2>14. CASE Panics(r)
    BY <2>14 DEF Panics
  <2>15. CASE Revoke(r)
    BY <2>15 DEF Revoke
  <2>16. CASE Recover(r)
    BY <2>16 DEF Recover, WriteRow
  <2>17. CASE Release(r)
    BY <2>17 DEF Release, Forget
  <2>18. CASE UnregisterInFlight(r)
    BY <2>18 DEF UnregisterInFlight
  <2> QED
    BY <1>2, <2>1, <2>2, <2>3, <2>4, <2>5, <2>6, <2>7, <2>8, <2>9, <2>10,
       <2>11, <2>12, <2>13, <2>14, <2>15, <2>16, <2>17, <2>18 DEF RunStep
<1>3. ASSUME NEW r \in Run, Outside(r) PROVE RowKept
  <2>1. CASE CancelRun(r)
    BY <2>1 DEF CancelRun
  <2>2. CASE ContextExpires(r)
    BY <2>2 DEF ContextExpires
  <2>3. CASE GrowOlder(r)
    BY <2>3 DEF GrowOlder
  <2>4. CASE CliDies(r)
    BY <2>4 DEF CliDies, Vanish, Forget
  <2>5. CASE PanicsPreparing(r)
    BY <2>5 DEF PanicsPreparing, Forget
  <2> QED
    BY <1>3, <2>1, <2>2, <2>3, <2>4, <2>5 DEF Outside
<1>4. CASE Crash
  BY <1>4 DEF Crash, Vanish, Forget
<1>5. CASE Restart
  BY <1>5 DEF Restart, CleanupOrphanedAgentRuns, CleanupOrphanedAgentApiKeys
<1>6. CASE UNCHANGED vars
  BY <1>6 DEF vars
<1> QED
  BY <1>1, <1>2, <1>3, <1>4, <1>5, <1>6 DEF Next

-----------------------------------------------------------------------------
\* The first half of SlotInv: the tokens are as many as the holders.
LEMMA SlotsStep == IndInv /\ [Next]_vars => slots' = Cardinality(Holders)'
<1> SUFFICES ASSUME IndInv, [Next]_vars PROVE slots' = Cardinality(Holders')
  OBVIOUS
<1>1. IsFiniteSet(Holders)
  BY AgentAssumption, FS_Subset DEF Holders
<1>2. slots = Cardinality(Holders) /\ slots \in Nat
  BY DEF IndInv, AgentInv, SlotInv, Holders, TypeOK
<1>3. CASE Holders' = Holders /\ slots' = slots
  BY <1>2, <1>3
<1>4. ASSUME NEW r \in Run \ Holders,
             Holders' = Holders \cup {r}, slots' = slots + 1
      PROVE  slots' = Cardinality(Holders')
  BY <1>1, <1>2, <1>4, FS_AddElement
<1>5. ASSUME NEW r \in Holders, Holders' = Holders \ {r},
             slots' = IF slots > 0 THEN slots - 1 ELSE slots
      PROVE  slots' = Cardinality(Holders')
  <2>1. Cardinality(Holders') = slots - 1 /\ IsFiniteSet(Holders')
    BY <1>1, <1>2, <1>5, FS_RemoveElement
  <2>2. Cardinality(Holders') \in Nat
    BY <2>1, FS_CardinalityType
  <2> QED
    BY <1>2, <1>5, <2>1, <2>2
<1>6. CASE Holders' = {} /\ slots' = 0
  BY <1>6, FS_EmptySet
<1> QED
  BY <1>3, <1>4, <1>5, <1>6, HoldersStep DEF SlotMove

\* Nothing has come, nothing is held.
LEMMA AgentInit == Init => IndInv
<1> SUFFICES ASSUME Init PROVE IndInv
  OBVIOUS
<1> USE AgentAssumption DEF Init
<1>1. TypeOK
  BY DEF TypeOK, Stage, Kind, Terminal, Result
<1>2. SlotInv
  <2>1. Holders = {}
    BY DEF Holders, Holding
  <2> QED
    BY <2>1, FS_EmptySet DEF SlotInv, Holders
<1>3. KeyInv /\ RowInv /\ CancelledOnRequest
  BY DEF KeyInv, RowInv, CancelledOnRequest
<1>4. StageInv
  BY DEF StageInv, Early
<1> QED
  BY <1>1, <1>2, <1>3, <1>4 DEF IndInv, AgentInv

\* The invariant is kept by every step.
LEMMA AgentStep == IndInv /\ [Next]_vars => IndInv'
<1> SUFFICES ASSUME IndInv, [Next]_vars PROVE IndInv'
  OBVIOUS
<1>1. SlotInv'
  BY SlotsStep, InFlightStep DEF SlotInv, Holders, InFlightInv
<1> QED
  BY <1>1, TypeStep, StageStep, KeyStep, RowStep, CancelStep DEF IndInv, AgentInv

\* In every reachable state slots, keys, rows and stages of the orchestrator's
\* runs agree.
THEOREM AgentInvariance == Spec => [](TypeOK /\ AgentInv)
<1>1. Init => IndInv
  BY AgentInit
<1>2. IndInv /\ [Next]_vars => IndInv'
  BY AgentStep
<1>3. IndInv <=> TypeOK /\ AgentInv
  BY DEF IndInv
<1> QED
  BY <1>1, <1>2, <1>3, PTL DEF Spec

\* The variables keep their types; in particular the semaphore is never
\* oversubscribed, whatever fails.
THEOREM AgentTypeCorrect == Spec => []TypeOK
<1> QED
  BY AgentInvariance, PTL

\* No slot is given back twice and none leaks, through every failed preparation,
\* panic of a goroutine, cancellation and crash; only a panic of the request that
\* prepares an asynchronous run keeps one until the server restarts.
THEOREM SlotsConserved == Spec => []SlotInv
<1>1. AgentInv => SlotInv
  BY DEF AgentInv
<1> QED
  BY <1>1, AgentInvariance, PTL

\* Every valid run key has a run that will revoke it, or a recorded loss.
THEOREM KeysHaveOwners == Spec => []KeyInv
<1>1. AgentInv => KeyInv
  BY DEF AgentInv
<1> QED
  BY <1>1, AgentInvariance, PTL

\* Every row in progress has a run that will close it, or a recorded failure to.
THEOREM RowsHaveOwners == Spec => []RowInv
<1>1. AgentInv => RowInv
  BY DEF AgentInv
<1> QED
  BY <1>1, AgentInvariance, PTL

\* The history says cancelled only of runs an operator cancelled.
THEOREM CancellationsAreRequested == Spec => []CancelledOnRequest
<1>1. AgentInv => CancelledOnRequest
  BY DEF AgentInv
<1> QED
  BY <1>1, AgentInvariance, PTL

\* A recorded outcome is final, except for a command-line run swept by a restart.
THEOREM OutcomesStay == Spec => OutcomeStays
<1>1. (TypeOK /\ AgentInv) /\ [Next]_vars => [RowKept]_row
  BY OutcomeStep DEF IndInv
<1>2. Spec => [][RowKept]_row
  BY <1>1, AgentInvariance, PTL DEF Spec
<1> QED
  BY <1>2 DEF OutcomeStays, RowKept
=============================================================================

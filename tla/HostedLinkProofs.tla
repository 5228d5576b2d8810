-------------------------- MODULE HostedLinkProofs --------------------------
(***************************************************************************)
(* Theorems about HostedLink for any number of requests and faults.        *)
(* The properties are about the row alone; what makes them hold is what a  *)
(* request still knows when it writes: RequestInv says which facts about   *)
(* the row and its own snapshot survive the writes of all the others.      *)
(* OneUse needs a second invariant, of sessions whose requests came one    *)
(* after the other: where the one connection is on its way into the row.   *)
(***************************************************************************)
EXTENDS HostedLink, FiniteSetTheorems, TLAPS

\* The connection a request records.
Own(r) == IF action = "relink" THEN Pinned ELSE r

\* What a request relies on between its read and its write, whatever others write
\* in between: it carries no error over, the session was and stays started, and
\* the connection it is about to record exists.
RequestInv ==
  \A r \in Req :
    /\ snap[r].started => row.started
    /\ pc[r] \in {"markWrite", "completeWrite"} => ~snap[r].error
    /\ pc[r] \in {"completeWrite", "appendWrite"} => row.started
    /\ pc[r] = "exchange" => action = "link"
    /\ pc[r] = "reactivate" => action = "relink"
    /\ pc[r] \in {"append", "appendWrite"} => Own(r) \in connected

SessionInv == TypeOK /\ StatusTruthful /\ ResultsTrue /\ RequestInv

-----------------------------------------------------------------------------
LEMMA SessionInit == Init => SessionInv
<1> SUFFICES ASSUME Init PROVE SessionInv
  OBVIOUS
<1>1. row \in Row
  BY DEF Init, Row, Live
<1>2. TypeOK
  BY <1>1 DEF Init, TypeOK, Stage
<1> QED
  BY <1>2 DEF Init, SessionInv, StatusTruthful, ResultsTrue, RequestInv, Terminal

\* Admitting a request changes its stage only.
LEMMA EnterStep ==
  ASSUME SessionInv, NEW r \in Req, Request(r)
  PROVE  SessionInv'
<1>1. PICK stage \in {"start", "exchange", "reactivate", "complete", "fail"} :
        /\ Enter(r, stage)
        /\ stage = "exchange" => action = "link"
        /\ stage = "reactivate" => action = "relink"
  BY DEF Request, PageSession, PageConnection, PageReauthComplete, PageComplete,
         PageFail
<1>2. /\ pc' = [pc EXCEPT ![r] = stage]
      /\ UNCHANGED <<action, singleUse, row, past, connected, snap, faults>>
      /\ smooth' \in BOOLEAN
  BY <1>1 DEF Enter, Goto, SessionInv, TypeOK
<1>3. TypeOK'
  BY <1>2 DEF SessionInv, TypeOK, Stage
<1>4. StatusTruthful' /\ ResultsTrue'
  BY <1>2 DEF SessionInv, StatusTruthful, ResultsTrue
<1>5. RequestInv'
  BY <1>1, <1>2 DEF SessionInv, TypeOK, RequestInv, Own
<1> QED
  BY <1>3, <1>4, <1>5 DEF SessionInv

\* Reading the row and deciding: what the snapshot then says holds of the row.
LEMMA DecideStep ==
  ASSUME SessionInv, NEW r \in Req, NEW at \in Stage, NEW allowed \in SUBSET Live,
         NEW write \in Stage, NEW otherwise \in Stage,
         Decide(r, at, allowed, write, otherwise),
         write \notin {"exchange", "reactivate", "append"},
         otherwise \in {"complete", "done"},
         write \in {"completeWrite", "appendWrite"} => allowed = {"active"},
         write = "appendWrite" => at = "append"
  PROVE  SessionInv'
<1>1. /\ pc' \in [Req -> Stage]
      /\ \A q \in Req \ {r} : pc'[q] = pc[q] /\ snap'[q] = snap[q]
      /\ pc'[r] = (IF Shown(row) \in allowed THEN write ELSE otherwise)
      /\ snap' \in [Req -> Row] /\ snap'[r] = row
      /\ UNCHANGED <<action, singleUse, row, past, connected, faults, smooth>>
  BY DEF Decide, Goto, SessionInv, TypeOK
<1>2. Shown(row) \in allowed => row.status \in allowed /\ ~row.error
  BY DEF Shown, Expired, SessionInv, StatusTruthful, Live
<1>3. TypeOK'
  BY <1>1 DEF SessionInv, TypeOK
<1>4. StatusTruthful' /\ ResultsTrue'
  BY <1>1 DEF SessionInv, StatusTruthful, ResultsTrue
<1>5. RequestInv'
  BY <1>1, <1>2 DEF Decide, SessionInv, StatusTruthful, RequestInv, Own
<1> QED
  BY <1>3, <1>4, <1>5 DEF SessionInv

\* A write of status, error and stamps, after which the request goes nowhere but
\* to an end.
LEMMA UpdateStep ==
  ASSUME SessionInv, NEW r \in Req, NEW at \in Stage,
         NEW status \in Live \cup Terminal, NEW error \in BOOLEAN,
         NEW starts \in BOOLEAN, NEW ends \in BOOLEAN,
         UpdateStatus(status, error, starts, ends), Wrote(r, at, "done"),
         error => status = "failed",
         status \in {"active", "completed"} => row.started \/ starts,
         status \in Terminal => ends
  PROVE  SessionInv'
<1>1. /\ row' \in Row /\ row'.status = status /\ row'.error = error
      /\ row'.results = row.results
      /\ row'.started = (row.started \/ starts) /\ row'.ended = (row.ended \/ ends)
  BY DEF UpdateStatus, SessionInv, TypeOK, Row
<1>2. /\ pc' = [pc EXCEPT ![r] = "done"] /\ pc' \in [Req -> Stage]
      /\ UNCHANGED <<action, singleUse, past, connected, snap, faults, smooth>>
  BY DEF Wrote, Goto, SessionInv, TypeOK, Stage
<1>3. TypeOK'
  BY <1>1, <1>2 DEF SessionInv, TypeOK
<1>4. StatusTruthful' /\ ResultsTrue'
  BY <1>1, <1>2 DEF SessionInv, StatusTruthful, ResultsTrue
<1>5. RequestInv'
  BY <1>1, <1>2 DEF SessionInv, TypeOK, RequestInv, Own
<1> QED
  BY <1>3, <1>4, <1>5 DEF SessionInv

LEMMA RequestStep ==
  ASSUME SessionInv, NEW r \in Req, Step(r)
  PROVE  SessionInv'
<1> USE DEF Stage, Live
<1>1. CASE ReadForStart(r)
  BY <1>1, DecideStep DEF ReadForStart
<1>2. CASE MarkStarted(r)
  <2>1. /\ snap[r].error \in BOOLEAN /\ snap[r].started \in BOOLEAN
        /\ ~snap[r].error /\ (snap[r].started => row.started)
    BY <1>2 DEF MarkStarted, Wrote, SessionInv, TypeOK, RequestInv, Row
  <2> QED
    BY <1>2, <2>1, UpdateStep DEF MarkStarted, Terminal
<1>3. CASE Exchange(r)
  <2>1. /\ pc[r] = "exchange" /\ action = "link"
        /\ UNCHANGED <<action, singleUse, row, past, snap, faults, smooth>>
        /\ connected \subseteq connected' /\ connected' \subseteq connected \cup {r}
        /\ pc' \in [Req -> Stage]
        /\ \A q \in Req \ {r} : pc'[q] = pc[q]
        /\ pc'[r] = "done" \/ (pc'[r] = "append" /\ r \in connected')
    BY <1>3 DEF Exchange, Goto, SessionInv, TypeOK, RequestInv
  <2>2. TypeOK' /\ StatusTruthful' /\ ResultsTrue'
    BY <2>1 DEF SessionInv, TypeOK, StatusTruthful, ResultsTrue, Conns
  <2>3. RequestInv'
    BY <2>1 DEF SessionInv, RequestInv, Own
  <2> QED
    BY <2>2, <2>3 DEF SessionInv
<1>4. CASE Reactivate(r)
  <2>1. /\ action = "relink" /\ connected' = connected \cup {Pinned}
        /\ UNCHANGED <<action, singleUse, row, past, snap, faults, smooth>>
        /\ pc' \in [Req -> Stage] /\ pc'[r] = "append"
        /\ \A q \in Req \ {r} : pc'[q] = pc[q]
    BY <1>4 DEF Reactivate, Goto, SessionInv, TypeOK, RequestInv
  <2>2. TypeOK' /\ StatusTruthful' /\ ResultsTrue'
    BY <2>1 DEF SessionInv, TypeOK, StatusTruthful, ResultsTrue, Conns
  <2>3. RequestInv'
    BY <2>1 DEF SessionInv, RequestInv, Own
  <2> QED
    BY <2>2, <2>3 DEF SessionInv
<1>5. CASE ReadForAppend(r)
  BY <1>5, DecideStep DEF ReadForAppend, AfterAppend
<1>6. CASE AppendResult(r)
  <2>1. /\ pc[r] = "appendWrite" /\ Own(r) \in connected /\ row.started
        /\ row' = [row EXCEPT !.results = @ \cup {Own(r)}]
        /\ UNCHANGED <<action, singleUse, past, connected, snap, faults, smooth>>
        /\ pc' \in [Req -> Stage] /\ pc'[r] \in {"complete", "done"}
        /\ \A q \in Req \ {r} : pc'[q] = pc[q]
    BY <1>6 DEF AppendResult, Wrote, Goto, AfterAppend, Own, SessionInv, TypeOK,
                RequestInv
  <2>2. /\ row' \in Row /\ row'.results = row.results \cup {Own(r)}
        /\ row'.status = row.status /\ row'.error = row.error
        /\ row'.started = row.started /\ row'.ended = row.ended
    BY <2>1 DEF SessionInv, TypeOK, Row
  <2>3. TypeOK' /\ StatusTruthful' /\ ResultsTrue'
    BY <2>1, <2>2 DEF SessionInv, TypeOK, StatusTruthful, ResultsTrue
  <2>4. RequestInv'
    BY <2>1, <2>2 DEF SessionInv, RequestInv, Own
  <2> QED
    BY <2>3, <2>4 DEF SessionInv
<1>7. CASE ReadForComplete(r)
  BY <1>7, DecideStep DEF ReadForComplete
<1>8. CASE CompleteSession(r)
  <2>1. snap[r].error \in BOOLEAN /\ ~snap[r].error /\ row.started
    BY <1>8 DEF CompleteSession, Wrote, SessionInv, TypeOK, RequestInv, Row
  <2> QED
    BY <1>8, <2>1, UpdateStep DEF CompleteSession, Terminal
<1>9. CASE ReadForFail(r)
  BY <1>9, DecideStep DEF ReadForFail
<1>10. CASE FailSession(r)
  BY <1>10, UpdateStep DEF FailSession, Terminal
<1> QED
  BY <1>1, <1>2, <1>3, <1>4, <1>5, <1>6, <1>7, <1>8, <1>9, <1>10 DEF Step

LEMMA FaultStep ==
  ASSUME SessionInv, NEW r \in Req, Fault(r)
  PROVE  SessionInv'
<1>1. /\ UNCHANGED <<action, singleUse, row, past, connected, snap>>
      /\ faults' \in Nat /\ smooth' \in BOOLEAN
      /\ pc' \in [Req -> Stage] /\ pc'[r] \in {"complete", "done"}
      /\ \A q \in Req \ {r} : pc'[q] = pc[q]
  <2>1. PICK next \in {"complete", "done"} : pc' = [pc EXCEPT ![r] = next]
    BY DEF Fault, Goto, AfterAppend
  <2>2. faults' = faults + 1 /\ smooth' = FALSE
        /\ UNCHANGED <<action, singleUse, row, past, connected, snap>>
    BY DEF Fault
  <2>3. smooth' \in BOOLEAN
    BY <2>2, Zenon
  <2>4. faults' \in Nat
    BY <2>2 DEF SessionInv, TypeOK
  <2>5. /\ pc' \in [Req -> Stage] /\ pc'[r] \in {"complete", "done"}
        /\ \A q \in Req \ {r} : pc'[q] = pc[q]
    BY <2>1 DEF SessionInv, TypeOK, Stage
  <2> QED
    BY <2>2, <2>3, <2>4, <2>5
<1>2. TypeOK' /\ StatusTruthful' /\ ResultsTrue'
  BY <1>1 DEF SessionInv, TypeOK, StatusTruthful, ResultsTrue
<1>3. RequestInv'
  BY <1>1 DEF SessionInv, RequestInv, Own
<1> QED
  BY <1>2, <1>3 DEF SessionInv

LEMMA SessionNext == SessionInv /\ [Next]_vars => SessionInv'
<1> SUFFICES ASSUME SessionInv, [Next]_vars PROVE SessionInv'
  OBVIOUS
<1>1. CASE Expire
  BY <1>1 DEF Expire, SessionInv, TypeOK, StatusTruthful, ResultsTrue, RequestInv, Own
<1>2. CASE UNCHANGED vars
  BY <1>2 DEF vars, SessionInv, TypeOK, StatusTruthful, ResultsTrue, RequestInv, Own
<1> QED
  BY <1>1, <1>2, EnterStep, RequestStep, FaultStep DEF Next

\* The inductive invariant: columns, results and what requests rely on.
THEOREM SessionInvariance == Spec => []SessionInv
<1> QED
  BY SessionInit, SessionNext, PTL DEF Spec

\* Every variable keeps its type: no overwriting of requests stores a status the
\* enum does not have (hosted_links.go never stores "expired").
THEOREM SessionTypeCorrect == Spec => []TypeOK
<1>1. SessionInv => TypeOK
  BY DEF SessionInv
<1> QED
  BY SessionInvariance, <1>1, PTL

\* Errors are shown with failed sessions only, and stamps agree with the status,
\* however many requests overwrite each other's UPDATE.
THEOREM StatusIsTruthful == Spec => []StatusTruthful
<1>1. SessionInv => StatusTruthful
  BY DEF SessionInv
<1> QED
  BY SessionInvariance, <1>1, PTL

\* A result is a connection that exists; a relink session names its own only.
THEOREM ResultsAreTrue == Spec => []ResultsTrue
<1>1. SessionInv => ResultsTrue
  BY DEF SessionInv
<1> QED
  BY SessionInvariance, <1>1, PTL

-----------------------------------------------------------------------------
\* No status write of any request drops a result that AppendHostedLinkResult
\* recorded.
THEOREM ResultsAreKept == Spec => ResultsKept
<1>1. SessionInv /\ [Next]_vars => [row.results \subseteq row'.results]_row
  <2> SUFFICES ASSUME SessionInv, [Next]_vars, row' # row
               PROVE  row.results \subseteq row'.results
    OBVIOUS
  <2>1. PICK r \in Req : \/ MarkStarted(r) \/ CompleteSession(r) \/ FailSession(r)
                         \/ AppendResult(r)
    BY DEF Next, vars, Expire, Request, PageSession, PageConnection, PageReauthComplete,
           PageComplete, PageFail, Enter, Step, ReadForStart, Exchange, Reactivate,
           ReadForAppend, ReadForComplete, ReadForFail, Decide, Fault
  <2> QED
    BY <2>1 DEF MarkStarted, CompleteSession, FailSession, AppendResult, UpdateStatus,
                SessionInv, TypeOK, Row
<1> QED
  BY SessionInvariance, <1>1, PTL DEF Spec, ResultsKept
-----------------------------------------------------------------------------
(* One use of a smooth single-use session                                  *)

\* The request under way has exchanged its credentials and not yet recorded the
\* connection, or has recorded it and not yet completed the session.
Recording(r) == connected = {r} /\ pc[r] \in {"append", "appendWrite"}
Completing(r) ==
  connected = {r} /\ pc[r] \in {"complete", "completeWrite"} /\ row.results = {r}

\* One request at a time, on an active session in time, and the one connection is
\* nowhere, on its way into the row, or there with the session completed.
SmoothInv ==
  smooth /\ singleUse /\ action = "link" =>
    /\ \A q, r \in Req : Busy(q) /\ Busy(r) => q = r
    /\ \A r \in Req : Busy(r) /\ pc[r] \notin {"start", "markWrite"} =>
         row.status = "active" /\ ~past
    /\ \/ connected = {}
       \/ \E r \in Req : Recording(r) \/ Completing(r)
       \/ /\ \A r \in Req : ~Busy(r)
          /\ \E r \in Req : connected = {r}
          /\ row.results = connected /\ row.status = "completed"

LEMMA SmoothStep ==
  ASSUME SessionInv, SmoothInv, [Next]_vars
  PROVE  SmoothInv'
<1> SUFFICES ASSUME smooth', singleUse', action' = "link"
             PROVE  SmoothInv'
  BY DEF SmoothInv
<1> USE DEF Busy, Recording, Completing
<1>1. singleUse /\ action = "link"
  BY DEF Next, vars, Expire, Request, PageSession, PageConnection, PageReauthComplete,
         PageComplete, PageFail, Enter, Step, ReadForStart, MarkStarted, Exchange,
         Reactivate, ReadForAppend, AppendResult, ReadForComplete, CompleteSession,
         ReadForFail, FailSession, Decide, Wrote, Fault
<1>2. CASE UNCHANGED vars
  BY <1>2 DEF vars, SmoothInv
<1>3. CASE Expire
  BY <1>3, <1>1 DEF Expire, SmoothInv
<1>4. ASSUME NEW r \in Req, Request(r) PROVE SmoothInv'
  <2>1. PICK stage \in {"start", "exchange", "reactivate", "complete", "fail"} : Enter(r, stage)
    BY <1>4 DEF Request, PageSession, PageConnection, PageReauthComplete, PageComplete,
                PageFail
  <2>2. /\ smooth /\ \A q \in Req : ~Busy(q)
        /\ stage # "start" => row.status = "active"
        /\ pc' = [pc EXCEPT ![r] = stage]
        /\ Shown(row) \in Live
        /\ UNCHANGED <<action, singleUse, row, past, connected, snap, faults>>
    BY <2>1 DEF Enter, Goto
  <2>3. ~past /\ row.status # "completed"
    BY <2>2 DEF Shown, Expired, Live, SessionInv, TypeOK
  <2>4. connected = {}
    BY <1>1, <2>2, <2>3 DEF SmoothInv
  <2> QED
    BY <2>2, <2>3, <2>4 DEF SmoothInv, SessionInv, TypeOK
<1>5. ASSUME NEW r \in Req, Step(r) PROVE SmoothInv'
  <2>1. /\ smooth /\ Busy(r) /\ UNCHANGED <<action, singleUse, past>>
        /\ \A q \in Req \ {r} : pc'[q] = pc[q]
    BY <1>5 DEF Step, ReadForStart, MarkStarted, Exchange, Reactivate, ReadForAppend,
         AppendResult, ReadForComplete, CompleteSession, ReadForFail, FailSession,
         Decide, Wrote, Goto, SessionInv, TypeOK
  <2>2. /\ \A q \in Req : Busy(q) => q = r
        /\ pc[r] \notin {"start", "markWrite"} => row.status = "active" /\ ~past
        /\ connected = {} \/ Recording(r) \/ Completing(r)
    BY <1>1, <2>1 DEF SmoothInv
  <2>3. \A q \in Req \ {r} : ~Busy(q)'
    BY <2>1, <2>2
  <2>4. CASE ReadForStart(r) \/ ReadForFail(r)
    BY <2>1, <2>2, <2>3, <2>4 DEF ReadForStart, ReadForFail, Decide, Goto, SmoothInv,
         SessionInv, TypeOK
  <2>5. CASE MarkStarted(r) \/ FailSession(r)
    BY <2>1, <2>2, <2>3, <2>5 DEF MarkStarted, FailSession, Wrote, Goto, SmoothInv,
         SessionInv, TypeOK
  <2>6. CASE Exchange(r)
    BY <2>1, <2>2, <2>3, <2>6 DEF Exchange, Goto, SmoothInv, SessionInv, TypeOK
  <2>7. CASE Reactivate(r)
    BY <1>1, <2>7 DEF Reactivate, SessionInv, RequestInv
  <2>8. CASE ReadForAppend(r)
    BY <1>1, <2>1, <2>2, <2>3, <2>8 DEF ReadForAppend, Decide, Goto, SmoothInv,
         SessionInv, TypeOK, Shown, Expired
  <2>9. CASE AppendResult(r)
    <3>1. /\ pc[r] = "appendWrite" /\ pc'[r] = "complete" /\ connected' = connected
          /\ row'.status = row.status /\ row'.results = row.results \cup {r}
      BY <1>1, <2>9 DEF AppendResult, Wrote, Goto, AfterAppend, SessionInv, TypeOK, Row
    <3>2. connected = {r}
      BY <1>1, <2>2, <3>1 DEF SessionInv, RequestInv, Own
    <3>3. row'.results = {r}
      BY <3>1, <3>2 DEF SessionInv, ResultsTrue
    <3> QED
      BY <2>1, <2>2, <2>3, <3>1, <3>2, <3>3 DEF SmoothInv
  <2>10. CASE ReadForComplete(r)
    BY <1>1, <2>1, <2>2, <2>3, <2>10 DEF ReadForComplete, Decide, Goto, SmoothInv,
         SessionInv, TypeOK, Shown, Expired
  <2>11. CASE CompleteSession(r)
    <3>1. /\ pc[r] = "completeWrite" /\ pc'[r] = "done" /\ connected' = connected
          /\ row'.status = "completed" /\ row'.results = row.results
      BY <2>11 DEF CompleteSession, UpdateStatus, Wrote, Goto, SessionInv, TypeOK, Row
    <3> QED
      BY <2>1, <2>2, <2>3, <3>1 DEF SmoothInv
  <2> QED
    BY <1>5, <2>4, <2>5, <2>6, <2>7, <2>8, <2>9, <2>10, <2>11 DEF Step
<1>6. ASSUME NEW r \in Req, Fault(r) PROVE SmoothInv'
  BY <1>6 DEF Fault
<1> QED
  BY <1>2, <1>3, <1>4, <1>5, <1>6 DEF Next

LEMMA SmoothOneUse == SessionInv /\ SmoothInv => OneUse
<1> SUFFICES ASSUME SessionInv, SmoothInv, smooth, singleUse, action = "link"
             PROVE  /\ Cardinality(connected) <= 1
                    /\ (connected # {} /\ \A r \in Req : ~Busy(r)) =>
                         row.results = connected /\ row.status = "completed"
  BY DEF OneUse
<1>1. connected = {} \/ \E r \in Req : connected = {r}
  BY DEF SmoothInv, Recording, Completing
<1>2. Cardinality(connected) = 0 \/ Cardinality(connected) = 1
  BY <1>1, FS_EmptySet, FS_Singleton, Zenon
<1>3. Cardinality(connected) <= 1
  BY <1>2
<1> QED
  BY <1>3 DEF SmoothInv, Recording, Completing, Busy

\* A page that asks one thing at a time, in time, gets one connection out of a
\* single-use session: recorded, and the session completed after it.
THEOREM SessionIsUsedOnce == Spec => []OneUse
<1>1. Init => SmoothInv
  BY DEF Init, SmoothInv, Busy
<1>2. SessionInv /\ SmoothInv /\ [Next]_vars => SmoothInv'
  BY SmoothStep
<1> QED
  BY SessionInvariance, <1>1, <1>2, SmoothOneUse, PTL DEF Spec
=============================================================================

----------------------------- MODULE HostedLink -----------------------------
(***************************************************************************)
(* One hosted-link session: internal/service/hosted_links.go, the page     *)
(* handlers of internal/api/hosted_link_page.go and the bearer middleware. *)
(* The page in a user's browser adds a bank connection, or signs in to one *)
(* again, and the session row records what came of it.                     *)
(*                                                                         *)
(* A member of Req is one HTTP request.  It reads the row for the bearer   *)
(* check, and each service call reads it again, decides, and writes by id: *)
(* reads and writes of different requests interleave freely.               *)
(***************************************************************************)
EXTENDS Integers, FiniteSets

CONSTANTS Req,       \* requests of the page, each used once
          Pinned,    \* the connection a relink session is for
          MaxFaults  \* bound: statements that fail

ASSUME HostedLinkAssumption ==
  /\ Pinned \notin Req
  /\ MaxFaults \in Nat

\* The connection a successful exchange creates is named after its request.
Conns == Req \cup {Pinned}

VARIABLES
  action, singleUse,  \* fixed when the session is minted
  row,       \* the other columns of hosted_link_sessions
  past,      \* expires_at has passed
  connected, \* connections created or reactivated by requests of this session
  pc, snap,  \* locals of the requests: where, and the row last read
  faults,
  \* history
  smooth     \* requests came one after the other, on a started session, in
             \* time, and no statement failed

vars == <<action, singleUse, row, past, connected, pc, snap, faults, smooth>>

Live     == {"pending", "active"}
Terminal == {"completed", "failed"}

Row == [status : Live \cup Terminal, error : BOOLEAN, started : BOOLEAN,
        ended : BOOLEAN, results : SUBSET Conns]

Stage == {"idle", "start", "markWrite", "exchange", "reactivate", "append",
          "appendWrite", "complete", "completeWrite", "fail", "failWrite", "done"}

\* isHostedLinkExpired: terminal rows keep their status.
Expired(s) == past /\ s.status \in Live
\* The status the service shows for a row.
Shown(s) == IF Expired(s) THEN "expired" ELSE s.status

Goto(r, stage) == pc' = [pc EXCEPT ![r] = stage]
Busy(r) == pc[r] \notin {"idle", "done"}

-----------------------------------------------------------------------------
\* CreateHostedLink and CreateHostedLinkRelink: a relink session is minted for
\* one use, an ordinary one for one or several connections.
Init ==
  /\ action \in {"link", "relink"}
  /\ singleUse \in BOOLEAN
  /\ row = [status |-> "pending", error |-> FALSE, started |-> FALSE,
            ended |-> FALSE, results |-> {}]
  /\ past = FALSE
  /\ connected = {}
  /\ pc = [r \in Req |-> "idle"]
  /\ snap = [r \in Req |-> row]
  /\ faults = 0
  /\ smooth = TRUE

-----------------------------------------------------------------------------
(* Requests.  The bearer check lets them in while the session is live.     *)

Enter(r, stage) ==
  /\ pc[r] = "idle"
  /\ Shown(row) \in Live
  /\ Goto(r, stage)
  /\ smooth' = (smooth /\ \A q \in Req : ~Busy(q)
                       /\ (stage # "start" => row.status = "active"))
  /\ UNCHANGED <<action, singleUse, row, past, connected, snap, faults>>

\* GET /_link/{token}/session
PageSession(r) == Enter(r, "start")
\* POST /_link/{token}/connections
PageConnection(r) == action = "link" /\ Enter(r, "exchange")
\* POST /_link/{token}/reauth-complete
PageReauthComplete(r) == action = "relink" /\ Enter(r, "reactivate")
\* POST /_link/{token}/complete, the "I'm done" button
PageComplete(r) == Enter(r, "complete")
\* POST /_link/{token}/fail
PageFail(r) == Enter(r, "fail")

\* A service call reads the row and goes on to write only from the statuses
\* it allows.
Decide(r, at, allowed, write, otherwise) ==
  /\ pc[r] = at
  /\ snap' = [snap EXCEPT ![r] = row]
  /\ Goto(r, IF Shown(row) \in allowed THEN write ELSE otherwise)
  /\ UNCHANGED <<action, singleUse, row, past, connected, faults, smooth>>

\* Mutant of UpdateStatus: the status that is shown is stored.
UpdateShown(status, error, starts, ends) ==
  row' = [row EXCEPT !.status = IF past THEN "expired" ELSE status, !.error = error,
            !.started = @ \/ starts, !.ended = @ \/ ends]

\* UpdateHostedLinkSessionStatus: status and error as the caller has them, the
\* stamps through COALESCE; results are another statement's business.
UpdateStatus(status, error, starts, ends) ==
  row' = [row EXCEPT !.status = status, !.error = error,
            !.started = @ \/ starts, !.ended = @ \/ ends]

Wrote(r, at, next) ==
  /\ pc[r] = at
  /\ Goto(r, next)
  /\ UNCHANGED <<action, singleUse, past, connected, snap, faults, smooth>>

\* MarkHostedLinkStarted
ReadForStart(r) == Decide(r, "start", {"pending"}, "markWrite", "done")
\* Mutant of MarkStarted: the whole row is written back as it was read.
MarkStartedWholeRow(r) ==
  /\ row' = [snap[r] EXCEPT !.status = "active", !.started = TRUE]
  /\ Wrote(r, "markWrite", "done")
MarkStarted(r) ==
  /\ UpdateStatus("active", snap[r].error, ~snap[r].started, FALSE)
  /\ Wrote(r, "markWrite", "done")

\* The provider exchanges the credentials and the connection is stored.
Exchange(r) ==
  /\ pc[r] = "exchange"
  /\ \/ connected' = connected \cup {r} /\ Goto(r, "append")
     \/ Goto(r, "done") /\ UNCHANGED connected
  /\ UNCHANGED <<action, singleUse, row, past, snap, faults, smooth>>

\* ReactivateConnection
Reactivate(r) ==
  /\ pc[r] = "reactivate"
  /\ connected' = connected \cup {Pinned}
  /\ Goto(r, "append")
  /\ UNCHANGED <<action, singleUse, row, past, snap, faults, smooth>>

\* What follows the append: a relink session always completes, an ordinary one
\* if it is for single use.  An append that was refused is only logged.
\* Mutant of AfterAppend: only relink sessions are completed here.
AfterAppendRelink == IF action = "relink" THEN "complete" ELSE "done"
AfterAppend == IF action = "relink" \/ singleUse THEN "complete" ELSE "done"

\* AppendHostedLinkResult: array_append in one statement.
ReadForAppend(r) == Decide(r, "append", {"active"}, "appendWrite", AfterAppend)
\* Mutant of AppendResult: a relink records a connection of its own.
AppendOwn(r) ==
  /\ row' = [row EXCEPT !.results = @ \cup {r}]
  /\ Wrote(r, "appendWrite", AfterAppend)
AppendResult(r) ==
  /\ row' = [row EXCEPT !.results = @ \cup {IF action = "relink" THEN Pinned ELSE r}]
  /\ Wrote(r, "appendWrite", AfterAppend)

\* CompleteHostedLink
ReadForComplete(r) == Decide(r, "complete", {"active"}, "completeWrite", "done")
\* Mutant of CompleteSession: the error column is left alone.
CompleteStatusOnly(r) ==
  /\ row' = [row EXCEPT !.status = "completed", !.ended = TRUE]
  /\ Wrote(r, "completeWrite", "done")
CompleteSession(r) ==
  /\ UpdateStatus("completed", snap[r].error, FALSE, TRUE)
  /\ Wrote(r, "completeWrite", "done")

\* FailHostedLink; the page need not say what failed.
ReadForFail(r) == Decide(r, "fail", Live, "failWrite", "done")
FailSession(r) ==
  /\ \E error \in BOOLEAN : UpdateStatus("failed", error, FALSE, TRUE)
  /\ Wrote(r, "failWrite", "done")

-----------------------------------------------------------------------------
Expire ==
  /\ ~past /\ past' = TRUE
  /\ smooth' = (smooth /\ \A r \in Req : ~Busy(r))
  /\ UNCHANGED <<action, singleUse, row, connected, pc, snap, faults>>

\* A statement fails or the request is cut off.  A failing append is logged and
\* the handler goes on to complete the session.
Fault(r) ==
  /\ Busy(r)
  /\ faults < MaxFaults /\ faults' = faults + 1
  /\ smooth' = FALSE
  /\ \/ Goto(r, "done")
     \/ pc[r] \in {"append", "appendWrite"} /\ Goto(r, AfterAppend)
  /\ UNCHANGED <<action, singleUse, row, past, connected, snap>>

Request(r) ==
  \/ PageSession(r) \/ PageConnection(r) \/ PageReauthComplete(r)
  \/ PageComplete(r) \/ PageFail(r)

Step(r) ==
  \/ ReadForStart(r) \/ MarkStarted(r) \/ Exchange(r) \/ Reactivate(r)
  \/ ReadForAppend(r) \/ AppendResult(r) \/ ReadForComplete(r)
  \/ CompleteSession(r) \/ ReadForFail(r) \/ FailSession(r)

Next == Expire \/ \E r \in Req : Request(r) \/ Step(r) \/ Fault(r)

Spec == Init /\ [][Next]_vars

-----------------------------------------------------------------------------
(* Properties                                                              *)

TypeOK ==
  /\ action \in {"link", "relink"} /\ singleUse \in BOOLEAN
  /\ row \in Row /\ past \in BOOLEAN /\ connected \subseteq Conns
  /\ pc \in [Req -> Stage] /\ snap \in [Req -> Row]
  /\ faults \in Nat /\ smooth \in BOOLEAN

\* However requests overwrite each other, the columns agree.  An error is shown
\* with a failed session only: status and error always travel in one UPDATE, and
\* the error a request carries over comes from a row that had none.  A session
\* that is active or completed, or has results, was started; nothing loses
\* started_at or completed_at again.
StatusTruthful ==
  /\ row.error => row.status = "failed"
  /\ row.status \in {"active", "completed"} \/ row.results # {} => row.started
  /\ row.status \in Terminal => row.ended

\* A result is a connection that exists, the one the session is pinned to if it
\* is, and no status write of another request drops it.
ResultsTrue ==
  /\ row.results \subseteq connected
  /\ connected \subseteq (IF action = "relink" THEN {Pinned} ELSE Req)
ResultsKept == [][row.results \subseteq row'.results]_row

\* When the page asks one thing at a time, in time and of a started session, a
\* single-use session makes one connection, records it and is then completed.
OneUse ==
  smooth /\ singleUse /\ action = "link" =>
    /\ Cardinality(connected) <= 1
    /\ (connected # {} /\ \A r \in Req : ~Busy(r)) =>
         row.results = connected /\ row.status = "completed"
=============================================================================

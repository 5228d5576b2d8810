---------------------------- MODULE AccountLinks ----------------------------
(***************************************************************************)
(* Account links and the matcher: internal/service/account_links.go and    *)
(* internal/sync/matcher.go.  A link says that a dependent account mirrors *)
(* a primary one; reconciliation pairs their transactions, attributes the  *)
(* primary row to the dependent's owner, and accounts.is_dependent_linked  *)
(* takes the paired dependent rows out of totals.                          *)
(*                                                                         *)
(* No operation uses a database transaction: each statement is a step of   *)
(* its own, and the operations of REST requests, admin pages and post-sync *)
(* hooks interleave.  A member of Op is a goroutine that serves one        *)
(* operation at a time; its locals are a record.                           *)
(***************************************************************************)
EXTENDS Integers, FiniteSets, Functions

CONSTANTS Acct, Txn, User,
          NoUser, NoAcct,  \* NULL
          NoTxn,       \* no candidate chosen
          AcctOf,      \* the account of a transaction
          Amount,      \* what the bank reports of it; fixed here
          Date,
          Name, Blank, \* names up to case, and the empty one
          Named,       \* provider_name of a transaction
          Merchant,    \* provider_merchant_name
          Inside,      \* pairs of names of which the first is part of the second
          Owner,       \* COALESCE(owner_user_id, user of the connection)
          Conn,        \* the connection of an account
          Op,
          ByHand,      \* pairs a user may ask to match by hand, of linked accounts or not
          Linked,      \* pairs of accounts linked from the start
          Tolerance,   \* match_tolerance_days a caller may ask for
          MaxEvents    \* bound: requests, and failed statements or killed goroutines

ASSUME AccountLinksAssumption ==
  /\ NoUser \notin User /\ NoAcct \notin Acct /\ NoTxn \notin Txn
  /\ AcctOf \in [Txn -> Acct]
  /\ Amount \in [Txn -> Nat] /\ Date \in [Txn -> Nat]
  /\ Blank \in Name /\ Named \in [Txn -> Name] /\ Merchant \in [Txn -> Name]
  /\ Inside \subseteq Name \X Name
  /\ Owner \in [Acct -> User \cup {NoUser}]
  /\ Conn \in [Acct -> Acct]
  /\ Tolerance \subseteq Nat /\ ByHand \subseteq Txn \X Txn
  /\ Linked \subseteq Acct \X Acct /\ IsFiniteSet(Linked)
  /\ \A p \in Linked : p[1] # p[2] /\ <<p[2], p[1]>> \notin Linked
  /\ MaxEvents \in Nat

VARIABLES
  link,       \* account_links: id -> row, for the rows that exist
  match,      \* transaction_matches: id -> row
  flag,       \* accounts.is_dependent_linked
  attributed, \* transactions.attributed_user_id
  live,       \* transactions with deleted_at IS NULL
  lastLink, lastMatch,  \* the ids handed out so far
  op,         \* locals of the operations
  events,     \* requests and faults so far
  \* history
  torn,       \* "attribution", "flag": writes of the kind were cut off or raced
  rejected    \* pairs whose match a user rejected

dbVars == <<link, match, flag, attributed, live, lastLink, lastMatch>>
vars   == <<dbVars, op, events, torn, rejected>>

Pc == {"idle", "insertLink", "mark", "update", "others", "unmark",
       "clearLink", "dropLink", "clearMatch", "dropMatch", "manual",
       "nextLink", "nextRow", "insertMatch", "attribute"}

LinkRow   == [pri : Acct, dep : Acct, tol : Nat, enabled : BOOLEAN]
MatchRow  == [link : Nat, pri : Txn, dep : Txn, sure : BOOLEAN]

\* What an operation remembers of the link row it read.
Snapshot(l) == [id |-> l, row |-> link[l]]

NoRow == [pri |-> NoAcct, dep |-> NoAcct, tol |-> 0, enabled |-> FALSE]
Idle  == [pc |-> "idle", l |-> 0, row |-> NoRow, ask |-> "unset", m |-> 0,
          links |-> {}, rows |-> {}, pri |-> NoTxn, dep |-> NoTxn]

With(f, x, v)  == [y \in DOMAIN f \cup {x} |-> IF y = x THEN v ELSE f[y]]
Without(f, S)  == [y \in DOMAIN f \ S |-> f[y]]
Goto(o, pc)    == op' = [op EXCEPT ![o].pc = pc]
Return(o)      == op' = [op EXCEPT ![o] = Idle]

\* Links that are enabled and have the account on either side:
\* ListAccountLinksByAccountID.
EnabledLinksOf(a) == {l \in DOMAIN link : link[l].enabled /\ a \in {link[l].pri, link[l].dep}}

MatchesOf(l)     == {m \in DOMAIN match : match[m].link = l}
MatchedAsPri(t)  == \E m \in DOMAIN match : match[m].pri = t
MatchedAsDep(t)  == \E m \in DOMAIN match : match[m].dep = t

-----------------------------------------------------------------------------
(* What may overlap.  Reconciliations may run side by side at will.        *)

Clearing == {"clearLink", "dropLink", "clearMatch", "dropMatch"}
Setting  == {"manual", "nextLink", "nextRow", "insertMatch", "attribute"}
Flagging == {"insertLink", "mark", "update", "others", "unmark", "clearLink", "dropLink"}

Overlap(o, kinds) == \E q \in Op \ {o} : op[q].pc \in kinds

\* The history of an operation that begins at pc while others are under way.
Tear(o, pc) ==
  torn' = torn
    \cup (IF \/ pc \in Clearing /\ Overlap(o, Clearing \cup Setting)
             \/ pc \in Setting /\ Overlap(o, Clearing)
          THEN {"attribution"} ELSE {})
    \cup (IF pc \in Flagging /\ Overlap(o, Flagging) THEN {"flag"} ELSE {})

Begin(o, locals) ==
  /\ op[o].pc = "idle"
  /\ op' = [op EXCEPT ![o] = locals]
  /\ Tear(o, locals.pc)
  /\ UNCHANGED <<dbVars, rejected>>

Request(o, locals) ==
  /\ events < MaxEvents
  /\ events' = events + 1
  /\ Begin(o, locals)

-----------------------------------------------------------------------------
Init ==
  /\ lastLink = Cardinality(Linked)
  /\ \E tol \in Tolerance :
       LET nth == CHOOSE f \in Bijection(1 .. lastLink, Linked) : TRUE
       IN link = [l \in 1 .. lastLink |->
                    [pri |-> nth[l][1], dep |-> nth[l][2], tol |-> tol, enabled |-> TRUE]]
  /\ flag = [a \in Acct |-> \E p \in Linked : p[2] = a]
  /\ match = <<>>
  /\ attributed = [t \in Txn |-> NoUser]
  /\ live = Txn
  /\ lastMatch = 0
  /\ op = [o \in Op |-> Idle]
  /\ events = 0
  /\ torn = {} /\ rejected = {}

-----------------------------------------------------------------------------
(* Creating, changing and deleting a link                                  *)

\* Mutant of CreateAccountLink: the reverse link is not looked for.
CreateAccountLinkUnchecked(o, p, d, tol) ==
  /\ p # d
  /\ Request(o, [Idle EXCEPT !.pc = "insertLink",
                   !.row = [pri |-> p, dep |-> d, tol |-> tol, enabled |-> TRUE]])

\* CreateAccountLink up to the reverse-link check.
CreateAccountLink(o, p, d, tol) ==
  /\ p # d
  /\ ~\E l \in DOMAIN link : link[l].pri = d /\ link[l].dep = p
  /\ Request(o, [Idle EXCEPT !.pc = "insertLink",
                   !.row = [pri |-> p, dep |-> d, tol |-> tol, enabled |-> TRUE]])

\* The INSERT; uq_account_link refuses a second link of the pair.
InsertLink(o) ==
  LET row == op[o].row
      taken == \E l \in DOMAIN link : link[l].pri = row.pri /\ link[l].dep = row.dep
  IN /\ op[o].pc = "insertLink"
     /\ \/ /\ taken /\ Return(o)
           /\ UNCHANGED <<link, lastLink>>
        \/ /\ ~taken
           /\ lastLink' = lastLink + 1
           /\ link' = With(link, lastLink + 1, row)
           /\ op' = [op EXCEPT ![o].l = lastLink + 1, ![o].pc = "mark"]
     /\ UNCHANGED <<match, flag, attributed, live, lastMatch, events, torn, rejected>>

\* UpdateAccountLink up to the UPDATE: what the caller leaves out is taken from
\* the row just read.  enabled is "on", "off" or "unset".
UpdateAccountLink(o, l, enabled, tol) ==
  /\ l \in DOMAIN link
  /\ Request(o, [Idle EXCEPT !.pc = "update", !.l = l, !.ask = enabled,
                   !.row = [link[l] EXCEPT !.tol = tol,
                              !.enabled = IF enabled = "unset" THEN @ ELSE enabled = "on"]])

UpdateLinkRow(o) ==
  /\ op[o].pc = "update"
  /\ IF op[o].l \in DOMAIN link
     THEN /\ link' = [link EXCEPT ![op[o].l] = op[o].row]
          /\ CASE op[o].ask = "off" -> Goto(o, "others")
               [] op[o].ask = "on" -> Goto(o, "mark")
               [] OTHER -> Return(o)
     ELSE Return(o) /\ UNCHANGED link
  /\ UNCHANGED <<match, flag, attributed, live, lastLink, lastMatch, events, torn, rejected>>

\* UpdateAccountDependentLinked(TRUE)
Mark(o) ==
  /\ op[o].pc = "mark"
  /\ flag' = [flag EXCEPT ![op[o].row.dep] = TRUE]
  /\ Return(o)
  /\ UNCHANGED <<link, match, attributed, live, lastLink, lastMatch, events, torn, rejected>>

\* Mutant of StillLinked: other links of the account are not looked at.
UnmarkAlways(o) ==
  /\ op[o].pc = "others"
  /\ Goto(o, "unmark")
  /\ UNCHANGED <<dbVars, events, torn, rejected>>

\* Is the dependent still linked?  The comparison of ids misses the link itself
\* when the caller named it by its short id (own); after DELETE it is not there.
StillLinked(o) ==
  /\ op[o].pc = "others"
  /\ \E own \in SUBSET {op[o].l} :
       IF EnabledLinksOf(op[o].row.dep) \ own # {} THEN Return(o) ELSE Goto(o, "unmark")
  /\ UNCHANGED <<dbVars, events, torn, rejected>>

\* UpdateAccountDependentLinked(FALSE)
Unmark(o) ==
  /\ op[o].pc = "unmark"
  /\ flag' = [flag EXCEPT ![op[o].row.dep] = FALSE]
  /\ Return(o)
  /\ UNCHANGED <<link, match, attributed, live, lastLink, lastMatch, events, torn, rejected>>

DeleteAccountLink(o, l) ==
  /\ l \in DOMAIN link
  /\ Request(o, [Idle EXCEPT !.pc = "clearLink", !.l = l, !.row = link[l]])

\* ClearTransactionAttributedUserByLink
ClearAttributionOfLink(o) ==
  /\ op[o].pc = "clearLink"
  /\ attributed' = [t \in Txn |->
       IF \E m \in MatchesOf(op[o].l) : match[m].pri = t THEN NoUser ELSE attributed[t]]
  /\ Goto(o, "dropLink")
  /\ UNCHANGED <<link, match, flag, live, lastLink, lastMatch, events, torn, rejected>>

\* DELETE FROM account_links; the matches of the link cascade.
DropLink(o) ==
  /\ op[o].pc = "dropLink"
  /\ link' = Without(link, {op[o].l})
  /\ match' = Without(match, MatchesOf(op[o].l))
  /\ Goto(o, "others")
  /\ UNCHANGED <<flag, attributed, live, lastLink, lastMatch, events, torn, rejected>>

-----------------------------------------------------------------------------
(* Confirming, rejecting and making a match by hand                        *)

ConfirmMatch(m) ==
  /\ events < MaxEvents /\ events' = events + 1
  /\ m \in DOMAIN match
  /\ match' = [match EXCEPT ![m].sure = TRUE]
  /\ UNCHANGED <<link, flag, attributed, live, lastLink, lastMatch, op, torn, rejected>>

RejectMatch(o, m) ==
  /\ m \in DOMAIN match
  /\ Request(o, [Idle EXCEPT !.pc = "clearMatch", !.m = m,
                   !.pri = match[m].pri, !.dep = match[m].dep])

ClearAttributionOfMatch(o) ==
  /\ op[o].pc = "clearMatch"
  /\ attributed' = [attributed EXCEPT ![op[o].pri] = NoUser]
  /\ Goto(o, "dropMatch")
  /\ UNCHANGED <<link, match, flag, live, lastLink, lastMatch, events, torn, rejected>>

\* DeleteTransactionMatch: by id, and nothing is left of it.
DropMatch(o) ==
  /\ op[o].pc = "dropMatch"
  /\ match' = Without(match, {op[o].m})
  /\ rejected' = rejected \cup {<<op[o].pri, op[o].dep>>}
  /\ Return(o)
  /\ UNCHANGED <<link, flag, attributed, live, lastLink, lastMatch, events, torn>>

\* ManualMatch takes any two transactions, of the link's accounts or not.
ManualMatch(o, l, p, d) ==
  /\ l \in DOMAIN link
  /\ Request(o, [Idle EXCEPT !.pc = "manual", !.l = l, !.row = link[l], !.pri = p, !.dep = d])

\* Mutant of Insertable: no unique constraint on the dependent transaction.
InsertableTwice(l, p, d) == l \in DOMAIN link /\ ~MatchedAsPri(p)

\* INSERT ... ON CONFLICT DO NOTHING RETURNING: no row comes back when the link
\* is gone or either transaction is matched already.
Insertable(l, p, d) == l \in DOMAIN link /\ ~MatchedAsPri(p) /\ ~MatchedAsDep(d)

CreateTransactionMatch(l, p, d, sure) ==
  /\ lastMatch' = lastMatch + 1
  /\ match' = With(match, lastMatch + 1, [link |-> l, pri |-> p, dep |-> d, sure |-> sure])

InsertManualMatch(o) ==
  /\ op[o].pc = "manual"
  /\ IF Insertable(op[o].l, op[o].pri, op[o].dep)
     THEN /\ CreateTransactionMatch(op[o].l, op[o].pri, op[o].dep, TRUE)
          /\ Goto(o, "attribute")
     ELSE Return(o) /\ UNCHANGED <<match, lastMatch>>
  /\ UNCHANGED <<link, flag, attributed, live, lastLink, events, torn, rejected>>

-----------------------------------------------------------------------------
(* Reconciliation                                                          *)

\* Several links of a connection, read in one query after a sync.
ReconcileForConnection(o, c) ==
  LET mine == {l \in DOMAIN link : link[l].enabled /\ c \in {Conn[link[l].pri], Conn[link[l].dep]}}
  IN /\ mine # {}
     /\ Begin(o, [Idle EXCEPT !.pc = "nextLink", !.links = {Snapshot(l) : l \in mine}])
     /\ UNCHANGED events

\* One link, read when its page or the API asks for it.
RunMatchReconciliation(o, l) ==
  /\ l \in DOMAIN link /\ link[l].enabled
  /\ Request(o, [Idle EXCEPT !.pc = "nextLink", !.links = {Snapshot(l)}])

\* The live rows of the dependent account without a match.
Unmatched(a) == {t \in live : AcctOf[t] = a /\ ~MatchedAsDep(t)}

\* Mutant of NextOf: the loop over the links ends with the first link.
NextRowOnly(locals) == IF locals.rows # {} THEN [locals EXCEPT !.pc = "nextRow"] ELSE Idle

\* The locals that are left when a row or a link is done with.
NextOf(locals) ==
  IF locals.rows # {} THEN [locals EXCEPT !.pc = "nextRow"]
  ELSE IF locals.links # {} THEN [Idle EXCEPT !.pc = "nextLink", !.links = locals.links]
  ELSE Idle

\* ReconcileLink: a dependent account without an owner is an error.
ReconcileLink(o) ==
  /\ op[o].pc = "nextLink"
  /\ \E s \in op[o].links :
       op' = [op EXCEPT ![o] =
                NextOf([op[o] EXCEPT !.links = @ \ {s}, !.l = s.id, !.row = s.row,
                          !.rows = IF Owner[s.row.dep] = NoUser THEN {} ELSE Unmatched(s.row.dep)])]
  /\ UNCHANGED <<dbVars, events, torn, rejected>>

Abs(n) == IF n < 0 THEN -n ELSE n

Candidates(s, d) ==
  {p \in live : /\ AcctOf[p] = s.pri
                /\ Amount[p] = Amount[d] /\ Abs(Date[p] - Date[d]) <= s.tol
                /\ ~MatchedAsPri(p)}

\* A missing name resembles nothing, not even another missing one.
Alike(m, n)   == m # Blank /\ n # Blank /\ m = n
Similar(m, n) == m # Blank /\ n # Blank /\ {<<m, n>>, <<n, m>>} \cap Inside # {}

\* nameSimilarityScore
Score(d, p) ==
  IF Alike(Merchant[d], Merchant[p]) THEN 3
  ELSE IF Similar(Merchant[d], Merchant[p]) \/ Alike(Named[d], Named[p]) THEN 2
  ELSE IF Similar(Named[d], Named[p]) THEN 1
  ELSE 0

\* The candidate, or the one with the best score; a tie is left unmatched.
Best(C, d) == {p \in C : \A c \in C \ {p} : Score(d, p) > Score(d, c)}

SkipRow(o, d) == op' = [op EXCEPT ![o] = NextOf([op[o] EXCEPT !.rows = @ \ {d}])]
RowDone(o)    == op' = [op EXCEPT ![o] = NextOf([op[o] EXCEPT !.pri = NoTxn, !.dep = NoTxn])]

\* The next unmatched row, latest first, and its candidate.
NextRow(o) ==
  /\ op[o].pc = "nextRow"
  /\ \E d \in {t \in op[o].rows : \A u \in op[o].rows : Date[t] >= Date[u]} :
       LET best == Best(Candidates(op[o].row, d), d) IN
       IF best = {} THEN SkipRow(o, d)
       ELSE \E p \in best :
              op' = [op EXCEPT ![o].rows = @ \ {d}, ![o].dep = d, ![o].pri = p,
                       ![o].pc = "insertMatch"]
  /\ UNCHANGED <<dbVars, events, torn, rejected>>

\* Mutant of InsertMatch: a conflict is not told from an insert.
InsertMatchAnyway(o) ==
  /\ op[o].pc = "insertMatch"
  /\ IF Insertable(op[o].l, op[o].pri, op[o].dep)
     THEN CreateTransactionMatch(op[o].l, op[o].pri, op[o].dep, FALSE)
     ELSE UNCHANGED <<match, lastMatch>>
  /\ Goto(o, "attribute")
  /\ UNCHANGED <<link, flag, attributed, live, lastLink, events, torn, rejected>>

InsertMatch(o) ==
  /\ op[o].pc = "insertMatch"
  /\ IF Insertable(op[o].l, op[o].pri, op[o].dep)
     THEN /\ CreateTransactionMatch(op[o].l, op[o].pri, op[o].dep, FALSE)
          /\ Goto(o, "attribute")
     ELSE RowDone(o) /\ UNCHANGED <<match, lastMatch>>
  /\ UNCHANGED <<link, flag, attributed, live, lastLink, events, torn, rejected>>

\* SetTransactionAttributedUser; a manual match skips it without an owner.
Attribute(o) ==
  /\ op[o].pc = "attribute"
  /\ attributed' = IF Owner[op[o].row.dep] = NoUser THEN attributed
                   ELSE [attributed EXCEPT ![op[o].pri] = Owner[op[o].row.dep]]
  /\ RowDone(o)
  /\ UNCHANGED <<link, match, flag, live, lastLink, lastMatch, events, torn, rejected>>

-----------------------------------------------------------------------------
(* What goes wrong, and rows that come and go                              *)

\* Stages whose loss leaves one half of a pair of writes.
TornAt(pc) ==
  (IF pc \in {"attribute", "dropMatch", "dropLink"} THEN {"attribution"} ELSE {})
    \cup (IF pc \in {"mark", "others", "unmark"} THEN {"flag"} ELSE {})

Fault(o) ==
  /\ op[o].pc # "idle"
  /\ events < MaxEvents /\ events' = events + 1
  /\ torn' = torn \cup TornAt(op[o].pc)
  /\ UNCHANGED <<dbVars, rejected>>

\* A statement fails, or the request or the process ends: the rest is skipped.
Abort(o) == Fault(o) /\ Return(o)

\* Errors that are logged or dropped: reconciliation goes on with the next row,
\* a list that could not be read counts as empty.
CarryOn(o) ==
  /\ Fault(o)
  /\ CASE op[o].pc = "attribute" -> RowDone(o)
       [] op[o].pc = "insertMatch" -> RowDone(o)
       [] op[o].pc = "nextRow" -> \E d \in op[o].rows : SkipRow(o, d)
       [] op[o].pc = "others" -> Goto(o, "unmark")
       [] OTHER -> FALSE

\* Users and providers delete rows and bring them back; matches stay.
SoftDelete(t) ==
  /\ events < MaxEvents /\ events' = events + 1
  /\ t \in live /\ live' = live \ {t}
  /\ UNCHANGED <<link, match, flag, attributed, lastLink, lastMatch, op, torn, rejected>>

Restore(t) ==
  /\ events < MaxEvents /\ events' = events + 1
  /\ t \in Txn \ live /\ live' = live \cup {t}
  /\ UNCHANGED <<link, match, flag, attributed, lastLink, lastMatch, op, torn, rejected>>

-----------------------------------------------------------------------------
Step(o) ==
  \/ InsertLink(o) \/ UpdateLinkRow(o) \/ Mark(o) \/ StillLinked(o) \/ Unmark(o)
  \/ ClearAttributionOfLink(o) \/ DropLink(o)
  \/ ClearAttributionOfMatch(o) \/ DropMatch(o)
  \/ InsertManualMatch(o)
  \/ ReconcileLink(o) \/ NextRow(o) \/ InsertMatch(o) \/ Attribute(o)

UserRequest(o) ==
  \/ \E p, d \in Acct, tol \in Tolerance : CreateAccountLink(o, p, d, tol)
  \/ \E l \in DOMAIN link :
       \/ \E enabled \in {"on", "off", "unset"}, tol \in Tolerance :
            UpdateAccountLink(o, l, enabled, tol)
       \/ DeleteAccountLink(o, l)
       \/ RunMatchReconciliation(o, l)
       \/ \E pair \in ByHand : ManualMatch(o, l, pair[1], pair[2])
  \/ \E m \in DOMAIN match : RejectMatch(o, m)

PostSync(c) == \E o \in Op : ReconcileForConnection(o, c)

Next ==
  \/ \E o \in Op : UserRequest(o) \/ Step(o) \/ Abort(o) \/ CarryOn(o)
  \/ \E c \in Acct : PostSync(c)
  \/ \E m \in DOMAIN match : ConfirmMatch(m)
  \/ \E t \in Txn : SoftDelete(t) \/ Restore(t)

Spec == Init /\ [][Next]_vars

\* A goroutine that has begun goes on, and every connection is synced again and
\* again, its hook running in the goroutine of its own sync.
Fairness ==
  /\ \A o \in Op : WF_vars(Step(o))
  /\ \A c \in Acct : SF_vars(PostSync(c))

FairSpec == Spec /\ Fairness

-----------------------------------------------------------------------------
(* Properties                                                              *)

OpState == [pc : Pc, l : Nat, row : LinkRow \cup {NoRow}, ask : {"on", "off", "unset"},
            m : Nat, links : SUBSET [id : Nat, row : LinkRow], rows : SUBSET Txn,
            pri : Txn \cup {NoTxn}, dep : Txn \cup {NoTxn}]

\* Types; ids are handed out in order, a match belongs to a link that exists,
\* and a transaction is in at most one match on either side.
TypeOK ==
  /\ lastLink \in Nat /\ lastMatch \in Nat
  /\ DOMAIN link \subseteq 1 .. lastLink /\ DOMAIN match \subseteq 1 .. lastMatch
  /\ \A l \in DOMAIN link : link[l] \in LinkRow
  /\ \A m \in DOMAIN match : match[m] \in MatchRow /\ match[m].link \in DOMAIN link
  /\ \A m, n \in DOMAIN match :
       match[m].pri = match[n].pri \/ match[m].dep = match[n].dep => m = n
  /\ flag \in [Acct -> BOOLEAN]
  /\ attributed \in [Txn -> User \cup {NoUser}]
  /\ live \subseteq Txn
  /\ op \in [Op -> OpState]
  /\ events \in Nat
  /\ torn \subseteq {"attribution", "flag"}
  /\ rejected \subseteq Txn \X Txn

Beneficiary(m) == Owner[link[match[m].link].dep]

\* As long as no rejection or deletion has met another writer of attributions
\* and no write was cut off: a transaction is attributed to somebody exactly
\* when a match makes it so, except between the two statements of an operation.
\* Any number of reconciliations (both ends of a link are often synced in the
\* same tick) keep this, and so do two links that compete for one primary row.
AttributionInv ==
  "attribution" \notin torn =>
    /\ \A t \in Txn : attributed[t] # NoUser =>
         \E m \in DOMAIN match : match[m].pri = t /\ attributed[t] = Beneficiary(m)
    /\ \A m \in DOMAIN match :
         \/ attributed[match[m].pri] = Beneficiary(m)
         \/ \E o \in Op : \/ op[o].pc = "attribute" /\ op[o].pri = match[m].pri
                          \/ op[o].pc = "dropMatch" /\ op[o].m = m
                          \/ op[o].pc = "dropLink" /\ op[o].l = match[m].link

\* The dependent of an enabled link is marked, so that its paired rows leave the
\* totals, unless the operation that marks it is under way, was cut off or met
\* another one that changes links.  Disabling or deleting one link of an account
\* with two must not unmark it.
DependentMarked ==
  "flag" \notin torn =>
    \A l \in DOMAIN link :
      link[l].enabled =>
        \/ flag[link[l].dep]
        \/ \E o \in Op : op[o].pc = "mark" /\ op[o].row.dep = link[l].dep

\* Two accounts are never each other's dependent, which would take both rows of
\* a pair out of the totals: the check and the INSERT of CreateAccountLink are
\* two statements, so only creations that overlap could get past it.
NoMutualLinks ==
  "flag" \notin torn =>
    \A k, l \in DOMAIN link : ~(link[k].pri = link[l].dep /\ link[k].dep = link[l].pri)

\* An unmatched row with exactly one candidate, and an enabled link to it.
Waiting(l, p, d) ==
  /\ link[l].enabled
  /\ AcctOf[d] = link[l].dep /\ Owner[link[l].dep] # NoUser
  /\ d \in Unmatched(link[l].dep)
  /\ Candidates(link[l], d) = {p}

\* No row with a single candidate waits for ever: again and again there is none,
\* once the users are done.  Rows of the account that stay ambiguous, lose their
\* candidate to another row or meet a failing statement do not hold it up.
LonePairsMatched ==
  []<>(\A l \in DOMAIN link : \A p, d \in Txn : ~Waiting(l, p, d))

\* What openapi.yaml says of rejection: the match is marked rejected.  A
\* rejected pair is then not proposed again by a later reconciliation.
RejectedStaysRejected ==
  \A m \in DOMAIN match :
    <<match[m].pri, match[m].dep>> \in rejected => match[m].sure
=============================================================================
